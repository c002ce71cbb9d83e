--------------------------- MODULE TriggersProofs ---------------------------
(***************************************************************************)
(* Proofs about the trigger screen, for every set of projects, every set   *)
(* of row values and every bound on the clock.                             *)
(*                                                                         *)
(* The three lemmas on Level carry the arithmetic: the six WHERE clauses   *)
(* cut every row into exactly the levels 0, 1 and 2, and time only raises  *)
(* a level.  Everything after them speaks of levels alone.  The invariant  *)
(* says what the loader has established after each of its queries.         *)
(***************************************************************************)
EXTENDS Triggers, TLAPS

Loading == pc \in Steps
Live == Loading \/ Complete
Timeless == {"mcs", "invoice"}
Now(t) == Level(t[2], rows[t[1]], today)

\* No save has lowered the trigger: it is at least as urgent as it was.
Holding ==
    Loading => \A t \in Triggers \ eased : Now(t) >= AtOpening(t)

\* Nothing has raised it: it is at most as urgent as it was.
Calm(t) == t \notin raised /\ (~crossed \/ t[2] \in Timeless)
NotGrowing ==
    Loading => \A t \in Triggers : Calm(t) => Now(t) <= AtOpening(t)

\* What is in a list was found at the level the list is for.
Grounded ==
    Live => \A t \in Triggers : Calm(t) =>
      /\ t \in info \cup warning \cup severe => AtOpening(t) > 0
      /\ t \in severe /\ t \notin eased => AtOpening(t) = 2
      /\ t \in warning /\ t \notin eased => AtOpening(t) = 1 /\ t[2] # "mcs"
      /\ t \in info /\ t \notin eased => AtOpening(t) = 1 /\ t[2] = "mcs"

\* Where the loader is once a query is behind it.
Ended == {"shown", "project"}
PastMCS == Ended \cup (Steps \ {"mcs"})
PastWarnInvoice == PastMCS \ {"warnInvoice"}
PastWarnDue == PastWarnInvoice \ {"warnDue"}
PastWarnTurnover == PastWarnDue \ {"warnTurnover"}
PastSevereDue == PastWarnTurnover \ {"severeDue"}

\* The kinds with one list: past their query, what was due is in the list.
CaughtOnce(k, past, list) ==
    pc \in past => \A t \in Triggers \ eased : t[2] = k /\ AtOpening(t) > 0 => t \in list

\* The kinds with two: between the two queries a trigger that is not in the
\* warning list is severe, and past both it is where it belongs.
Caught(k, early, late) ==
    \A t \in Triggers \ eased : t[2] = k /\ AtOpening(t) > 0 =>
      /\ pc \in early \ late => t \in warning \/ Now(t) = 2
      /\ pc \in late => /\ t \in warning \cup severe
                        /\ AtOpening(t) = 2 => t \in severe

Found ==
    /\ CaughtOnce("mcs", PastMCS, info)
    /\ CaughtOnce("turnover", PastWarnTurnover, warning)
    /\ Caught("invoice", PastWarnInvoice, Ended)
    /\ Caught("due", PastWarnDue, PastSevereDue)

TriggerInv == TypeOK /\ Holding /\ NotGrowing /\ Grounded /\ Found

-----------------------------------------------------------------------------

\* Each query finds exactly the rows of its level: together the six leave out
\* no urgent row and never take one for both lists.
LEMMA QueriesAreLevels ==
    ASSUME NEW r \in RowType, NEW d \in Int
    PROVE  /\ InfoMCS(r, d) <=> Level("mcs", r, d) = 1
           /\ WarningInvoice(r, d) <=> Level("invoice", r, d) = 1
           /\ SevereInvoice(r, d) <=> Level("invoice", r, d) = 2
           /\ WarningDue(r, d) <=> Level("due", r, d) = 1
           /\ SevereDue(r, d) <=> Level("due", r, d) = 2
           /\ WarningTurnover(r, d) <=> Level("turnover", r, d) = 1
<1> USE RowsAssumption DEF RowType
<1>1. InfoMCS(r, d) <=> Level("mcs", r, d) = 1
  BY DEF InfoMCS, Level, MCSLevel
<1>2. WarningInvoice(r, d) <=> Level("invoice", r, d) = 1
  BY DEF WarningInvoice, Level, InvoiceLevel, Gap
<1>3. SevereInvoice(r, d) <=> Level("invoice", r, d) = 2
  BY DEF SevereInvoice, Level, InvoiceLevel, Gap
<1>4. WarningDue(r, d) <=> Level("due", r, d) = 1
  BY DEF WarningDue, Level, DueLevel, Slack
<1>5. SevereDue(r, d) <=> Level("due", r, d) = 2
  BY DEF SevereDue, Level, DueLevel, Slack
<1>6. WarningTurnover(r, d) <=> Level("turnover", r, d) = 1
  BY DEF WarningTurnover, Level, TurnoverLevel
<1> QED BY <1>1, <1>2, <1>3, <1>4, <1>5, <1>6

\* There are three levels, and the second only for the kinds with two lists.
LEMMA LevelRange ==
    ASSUME NEW r \in RowType, NEW d \in Int, NEW k \in Kinds
    PROVE  /\ Level(k, r, d) \in {0, 1, 2}
           /\ k \in {"mcs", "turnover"} => Level(k, r, d) \in {0, 1}
BY RowsAssumption
   DEF RowType, Kinds, Level, MCSLevel, InvoiceLevel, DueLevel, TurnoverLevel,
       Gap, Slack

\* A day that passes lowers no level, and moves no level that has no date.
LEMMA TimeOnlyRaises ==
    ASSUME NEW r \in RowType, NEW d \in Int, NEW k \in Kinds
    PROVE  /\ Level(k, r, d) <= Level(k, r, d + 1)
           /\ k \in Timeless => Level(k, r, d) = Level(k, r, d + 1)
<1> USE RowsAssumption DEF RowType, Level, Timeless
<1>1. CASE k = "mcs"
  BY <1>1 DEF MCSLevel
<1>2. CASE k = "invoice"
  BY <1>2 DEF InvoiceLevel, Gap
<1>3. CASE k = "due"
  BY <1>3 DEF DueLevel, Slack
<1>4. CASE k = "turnover"
  BY <1>4 DEF TurnoverLevel
<1> QED BY <1>1, <1>2, <1>3, <1>4 DEF Kinds

-----------------------------------------------------------------------------

\* The levels of a trigger, now and at the opening, are levels.
LEMMA LevelsOfTriggers ==
    ASSUME TypeOK
    PROVE  \A t \in Triggers :
             /\ t[1] \in Projects /\ t[2] \in Kinds /\ t = <<t[1], t[2]>>
             /\ rows[t[1]] \in RowType /\ opened[t[1]] \in RowType
             /\ Now(t) \in {0, 1, 2} /\ AtOpening(t) \in {0, 1, 2}
             /\ t[2] \in {"mcs", "turnover"} => AtOpening(t) # 2 /\ Now(t) # 2
<1> SUFFICES ASSUME NEW t \in Triggers
             PROVE  /\ t[1] \in Projects /\ t[2] \in Kinds /\ t = <<t[1], t[2]>>
                    /\ rows[t[1]] \in RowType /\ opened[t[1]] \in RowType
                    /\ Now(t) \in {0, 1, 2} /\ AtOpening(t) \in {0, 1, 2}
                    /\ t[2] \in {"mcs", "turnover"} => AtOpening(t) # 2 /\ Now(t) # 2
  OBVIOUS
<1>1. t[1] \in Projects /\ t[2] \in Kinds /\ t = <<t[1], t[2]>>
  BY DEF Triggers
<1>2. rows[t[1]] \in RowType /\ opened[t[1]] \in RowType
  BY <1>1, RowsAssumption DEF TypeOK
<1>3. today \in Int /\ openedDay \in Int
  BY DayAssumption DEF TypeOK
<1>4. Now(t) \in {0, 1, 2} /\ AtOpening(t) \in {0, 1, 2}
  BY <1>1, <1>2, <1>3, LevelRange DEF Now, AtOpening
<1>5. t[2] \in {"mcs", "turnover"} => AtOpening(t) \in {0, 1} /\ Now(t) \in {0, 1}
  BY <1>1, <1>2, <1>3, LevelRange DEF AtOpening, Now
<1> QED BY <1>1, <1>2, <1>4, <1>5

\* What a query adds to its list: the triggers of its kind that are at its
\* level now.
LEMMA HitsAreLevels ==
    ASSUME TypeOK, NEW t \in Triggers
    PROVE  /\ t \in Hits(FetchInfoMCS, "mcs") <=> t[2] = "mcs" /\ Now(t) = 1
           /\ t \in Hits(FetchWarningInvoice, "invoice") <=> t[2] = "invoice" /\ Now(t) = 1
           /\ t \in Hits(FetchWarningDue, "due") <=> t[2] = "due" /\ Now(t) = 1
           /\ t \in Hits(FetchWarningTurnover, "turnover") <=> t[2] = "turnover" /\ Now(t) = 1
           /\ t \in Hits(FetchSevereDue, "due") <=> t[2] = "due" /\ Now(t) = 2
           /\ t \in Hits(FetchSevereInvoice, "invoice") <=> t[2] = "invoice" /\ Now(t) = 2
<1>1. /\ t[1] \in Projects /\ t[2] \in Kinds /\ t = <<t[1], t[2]>>
      /\ rows[t[1]] \in RowType
  BY LevelsOfTriggers
<1>2. today \in Int
  BY DayAssumption DEF TypeOK
<1>3. t \in Hits(FetchInfoMCS, "mcs") <=> t[2] = "mcs" /\ InfoMCS(rows[t[1]], today)
  BY <1>1 DEF Hits, FetchInfoMCS
<1>4. t \in Hits(FetchWarningInvoice, "invoice") <=> t[2] = "invoice" /\ WarningInvoice(rows[t[1]], today)
  BY <1>1 DEF Hits, FetchWarningInvoice
<1>5. t \in Hits(FetchWarningDue, "due") <=> t[2] = "due" /\ WarningDue(rows[t[1]], today)
  BY <1>1 DEF Hits, FetchWarningDue
<1>6. t \in Hits(FetchWarningTurnover, "turnover") <=> t[2] = "turnover" /\ WarningTurnover(rows[t[1]], today)
  BY <1>1 DEF Hits, FetchWarningTurnover
<1>7. t \in Hits(FetchSevereDue, "due") <=> t[2] = "due" /\ SevereDue(rows[t[1]], today)
  BY <1>1 DEF Hits, FetchSevereDue
<1>8. t \in Hits(FetchSevereInvoice, "invoice") <=> t[2] = "invoice" /\ SevereInvoice(rows[t[1]], today)
  BY <1>1 DEF Hits, FetchSevereInvoice
<1> QED
  BY <1>1, <1>2, <1>3, <1>4, <1>5, <1>6, <1>7, <1>8, QueriesAreLevels DEF Now

\* The same after a step.
LEMMA LevelsAfter ==
    ASSUME TypeOK'
    PROVE  \A t \in Triggers : Now(t)' \in {0, 1, 2} /\ AtOpening(t)' \in {0, 1, 2}
<1> SUFFICES ASSUME NEW t \in Triggers
             PROVE  Now(t)' \in {0, 1, 2} /\ AtOpening(t)' \in {0, 1, 2}
  OBVIOUS
<1>1. t[1] \in Projects /\ t[2] \in Kinds
  BY DEF Triggers
<1>2. rows'[t[1]] \in RowType /\ opened'[t[1]] \in RowType
  BY <1>1, RowsAssumption DEF TypeOK
<1>3. today' \in Int /\ openedDay' \in Int
  BY DayAssumption DEF TypeOK
<1> QED BY <1>1, <1>2, <1>3, LevelRange DEF Now, AtOpening

\* A step that only reads keeps the two comparisons between
\* now and the opening.
LEMMA ReadingKeepsLevels ==
    ASSUME Holding, NotGrowing, UNCHANGED <<today, rows, ghosts>>,
           Loading' => Loading
    PROVE  Holding' /\ NotGrowing'
BY DEF Holding, NotGrowing, Calm, Now, AtOpening, ghosts, Timeless

-----------------------------------------------------------------------------
(* The steps of the load.  In each, a trigger that is in the changed list   *)
(* was there before or is a hit of the query, and HitsAreLevels says at     *)
(* which level.                                                             *)

\* The info query files every unassigned active project.
LEMMA MCSNumbersKeep ==
    ASSUME TriggerInv, LookForMCSNumbers
    PROVE  TriggerInv'
<1> USE DEF TriggerInv
<1>1. /\ pc = "mcs" /\ pc' = "warnInvoice" /\ info' = info \cup Hits(FetchInfoMCS, "mcs")
      /\ UNCHANGED <<today, rows, warning, severe, ghosts>>
  BY DEF LookForMCSNumbers, NextStep
<1>2. UNCHANGED <<opened, openedDay, eased, raised, crossed>>
  BY <1>1 DEF ghosts
<1>3. TypeOK'
  <2>1. Hits(FetchInfoMCS, "mcs") \subseteq Triggers
    BY DEF Hits, FetchInfoMCS, Triggers, Kinds
  <2> QED BY <1>1, <1>2, <2>1 DEF TypeOK, Loader, Steps
<1>4. Holding' /\ NotGrowing'
  BY <1>1, ReadingKeepsLevels DEF Loading, Steps
<1>5. \A t \in Triggers : Now(t)' = Now(t) /\ AtOpening(t)' = AtOpening(t) /\ (Calm(t)' <=> Calm(t))
  BY <1>1, <1>2 DEF Now, AtOpening, Calm
<1>6. \A t \in Triggers : t \in info' <=> t \in info \/ (t[2] = "mcs" /\ Now(t) = 1)
  BY <1>1, HitsAreLevels
<1>7. \A t \in Triggers :
        /\ t \notin eased => Now(t) >= AtOpening(t)
        /\ Calm(t) => Now(t) <= AtOpening(t)
        /\ Now(t) \in {0, 1, 2} /\ AtOpening(t) \in {0, 1, 2}
        /\ t[2] \in {"mcs", "turnover"} => AtOpening(t) # 2 /\ Now(t) # 2
  BY <1>1, LevelsOfTriggers DEF Holding, NotGrowing, Loading, Steps
<1>8. Grounded'
  <2> SUFFICES ASSUME NEW t \in Triggers, Calm(t)
               PROVE  /\ t \in info' \cup warning' \cup severe' => AtOpening(t) > 0
                      /\ t \in severe' /\ t \notin eased => AtOpening(t) = 2
                      /\ t \in warning' /\ t \notin eased => AtOpening(t) = 1 /\ t[2] # "mcs"
                      /\ t \in info' /\ t \notin eased => AtOpening(t) = 1 /\ t[2] = "mcs"
    BY <1>2, <1>5 DEF Grounded
  <2>1. /\ t \in info \cup warning \cup severe => AtOpening(t) > 0
        /\ t \in severe /\ t \notin eased => AtOpening(t) = 2
        /\ t \in warning /\ t \notin eased => AtOpening(t) = 1 /\ t[2] # "mcs"
        /\ t \in info /\ t \notin eased => AtOpening(t) = 1 /\ t[2] = "mcs"
    BY <1>1 DEF Grounded, Live, Loading, Steps
  <2>2. /\ t \notin eased => Now(t) >= AtOpening(t)
        /\ Now(t) <= AtOpening(t)
        /\ Now(t) \in Int /\ AtOpening(t) \in Int
    BY <1>7
  <2> HIDE DEF TriggerInv
  <2> QED BY <1>1, <1>6, <2>1, <2>2
<1>9. Found'
  <2>1. /\ pc \notin PastMCS /\ pc \notin PastWarnInvoice /\ pc \notin PastWarnDue
        /\ pc \notin PastWarnTurnover /\ pc \notin PastSevereDue /\ pc \notin Ended
        /\ pc' \in PastMCS /\ pc' \notin PastWarnInvoice /\ pc' \notin PastWarnDue
        /\ pc' \notin PastWarnTurnover /\ pc' \notin PastSevereDue /\ pc' \notin Ended
    BY <1>1 DEF PastMCS, PastWarnInvoice, PastWarnDue, PastWarnTurnover,
                PastSevereDue, Ended, Steps
  <2>2. \A t \in Triggers \ eased : AtOpening(t) > 0 =>
          /\ Now(t) = 1 \/ Now(t) = 2
          /\ AtOpening(t) = 2 => Now(t) = 2
          /\ t[2] \in {"mcs", "turnover"} => Now(t) = 1
    BY <1>7
  <2>3. Found
    OBVIOUS
  <2> HIDE DEF TriggerInv
  <2>4. CaughtOnce("mcs", PastMCS, info)'
    BY <1>1, <1>2, <1>5, <1>6, <2>1, <2>2, <2>3 DEF Found, CaughtOnce
  <2>5. CaughtOnce("turnover", PastWarnTurnover, warning)'
    BY <1>1, <1>2, <1>5, <1>6, <2>1, <2>2, <2>3 DEF Found, CaughtOnce
  <2>6. Caught("invoice", PastWarnInvoice, Ended)'
    BY <1>1, <1>2, <1>5, <1>6, <2>1, <2>2, <2>3 DEF Found, Caught
  <2>7. Caught("due", PastWarnDue, PastSevereDue)'
    BY <1>1, <1>2, <1>5, <1>6, <2>1, <2>2, <2>3 DEF Found, Caught
  <2> QED BY <2>4, <2>5, <2>6, <2>7 DEF Found
<1> QED BY <1>3, <1>4, <1>8, <1>9

\* A gap that is not small enough to be filed now is a large one.
LEMMA SmallGapsKeep ==
    ASSUME TriggerInv, LookForSmallGaps
    PROVE  TriggerInv'
<1> USE DEF TriggerInv
<1>1. /\ pc = "warnInvoice" /\ pc' = "warnDue" /\ warning' = warning \cup Hits(FetchWarningInvoice, "invoice")
      /\ UNCHANGED <<today, rows, info, severe, ghosts>>
  BY DEF LookForSmallGaps, NextStep
<1>2. UNCHANGED <<opened, openedDay, eased, raised, crossed>>
  BY <1>1 DEF ghosts
<1>3. TypeOK'
  <2>1. Hits(FetchWarningInvoice, "invoice") \subseteq Triggers
    BY DEF Hits, FetchWarningInvoice, Triggers, Kinds
  <2> QED BY <1>1, <1>2, <2>1 DEF TypeOK, Loader, Steps
<1>4. Holding' /\ NotGrowing'
  BY <1>1, ReadingKeepsLevels DEF Loading, Steps
<1>5. \A t \in Triggers : Now(t)' = Now(t) /\ AtOpening(t)' = AtOpening(t) /\ (Calm(t)' <=> Calm(t))
  BY <1>1, <1>2 DEF Now, AtOpening, Calm
<1>6. \A t \in Triggers : t \in warning' <=> t \in warning \/ (t[2] = "invoice" /\ Now(t) = 1)
  BY <1>1, HitsAreLevels
<1>7. \A t \in Triggers :
        /\ t \notin eased => Now(t) >= AtOpening(t)
        /\ Calm(t) => Now(t) <= AtOpening(t)
        /\ Now(t) \in {0, 1, 2} /\ AtOpening(t) \in {0, 1, 2}
        /\ t[2] \in {"mcs", "turnover"} => AtOpening(t) # 2 /\ Now(t) # 2
  BY <1>1, LevelsOfTriggers DEF Holding, NotGrowing, Loading, Steps
<1>8. Grounded'
  <2> SUFFICES ASSUME NEW t \in Triggers, Calm(t)
               PROVE  /\ t \in info' \cup warning' \cup severe' => AtOpening(t) > 0
                      /\ t \in severe' /\ t \notin eased => AtOpening(t) = 2
                      /\ t \in warning' /\ t \notin eased => AtOpening(t) = 1 /\ t[2] # "mcs"
                      /\ t \in info' /\ t \notin eased => AtOpening(t) = 1 /\ t[2] = "mcs"
    BY <1>2, <1>5 DEF Grounded
  <2>1. /\ t \in info \cup warning \cup severe => AtOpening(t) > 0
        /\ t \in severe /\ t \notin eased => AtOpening(t) = 2
        /\ t \in warning /\ t \notin eased => AtOpening(t) = 1 /\ t[2] # "mcs"
        /\ t \in info /\ t \notin eased => AtOpening(t) = 1 /\ t[2] = "mcs"
    BY <1>1 DEF Grounded, Live, Loading, Steps
  <2>2. /\ t \notin eased => Now(t) >= AtOpening(t)
        /\ Now(t) <= AtOpening(t)
        /\ Now(t) \in Int /\ AtOpening(t) \in Int
    BY <1>7
  <2> HIDE DEF TriggerInv
  <2> QED BY <1>1, <1>6, <2>1, <2>2
<1>9. Found'
  <2>1. /\ pc \in PastMCS /\ pc \notin PastWarnInvoice /\ pc \notin PastWarnDue
        /\ pc \notin PastWarnTurnover /\ pc \notin PastSevereDue /\ pc \notin Ended
        /\ pc' \in PastMCS /\ pc' \in PastWarnInvoice /\ pc' \notin PastWarnDue
        /\ pc' \notin PastWarnTurnover /\ pc' \notin PastSevereDue /\ pc' \notin Ended
    BY <1>1 DEF PastMCS, PastWarnInvoice, PastWarnDue, PastWarnTurnover,
                PastSevereDue, Ended, Steps
  <2>2. \A t \in Triggers \ eased : AtOpening(t) > 0 =>
          /\ Now(t) = 1 \/ Now(t) = 2
          /\ AtOpening(t) = 2 => Now(t) = 2
          /\ t[2] \in {"mcs", "turnover"} => Now(t) = 1
    BY <1>7
  <2>3. Found
    OBVIOUS
  <2> HIDE DEF TriggerInv
  <2>4. CaughtOnce("mcs", PastMCS, info)'
    BY <1>1, <1>2, <1>5, <1>6, <2>1, <2>2, <2>3 DEF Found, CaughtOnce
  <2>5. CaughtOnce("turnover", PastWarnTurnover, warning)'
    BY <1>1, <1>2, <1>5, <1>6, <2>1, <2>2, <2>3 DEF Found, CaughtOnce
  <2>6. Caught("invoice", PastWarnInvoice, Ended)'
    BY <1>1, <1>2, <1>5, <1>6, <2>1, <2>2, <2>3 DEF Found, Caught
  <2>7. Caught("due", PastWarnDue, PastSevereDue)'
    BY <1>1, <1>2, <1>5, <1>6, <2>1, <2>2, <2>3 DEF Found, Caught
  <2> QED BY <2>4, <2>5, <2>6, <2>7 DEF Found
<1> QED BY <1>3, <1>4, <1>8, <1>9

\* A due date that is not near enough to be filed now has passed.
LEMMA NearDueDatesKeep ==
    ASSUME TriggerInv, LookForNearDueDates
    PROVE  TriggerInv'
<1> USE DEF TriggerInv
<1>1. /\ pc = "warnDue" /\ pc' = "warnTurnover" /\ warning' = warning \cup Hits(FetchWarningDue, "due")
      /\ UNCHANGED <<today, rows, info, severe, ghosts>>
  BY DEF LookForNearDueDates, NextStep
<1>2. UNCHANGED <<opened, openedDay, eased, raised, crossed>>
  BY <1>1 DEF ghosts
<1>3. TypeOK'
  <2>1. Hits(FetchWarningDue, "due") \subseteq Triggers
    BY DEF Hits, FetchWarningDue, Triggers, Kinds
  <2> QED BY <1>1, <1>2, <2>1 DEF TypeOK, Loader, Steps
<1>4. Holding' /\ NotGrowing'
  BY <1>1, ReadingKeepsLevels DEF Loading, Steps
<1>5. \A t \in Triggers : Now(t)' = Now(t) /\ AtOpening(t)' = AtOpening(t) /\ (Calm(t)' <=> Calm(t))
  BY <1>1, <1>2 DEF Now, AtOpening, Calm
<1>6. \A t \in Triggers : t \in warning' <=> t \in warning \/ (t[2] = "due" /\ Now(t) = 1)
  BY <1>1, HitsAreLevels
<1>7. \A t \in Triggers :
        /\ t \notin eased => Now(t) >= AtOpening(t)
        /\ Calm(t) => Now(t) <= AtOpening(t)
        /\ Now(t) \in {0, 1, 2} /\ AtOpening(t) \in {0, 1, 2}
        /\ t[2] \in {"mcs", "turnover"} => AtOpening(t) # 2 /\ Now(t) # 2
  BY <1>1, LevelsOfTriggers DEF Holding, NotGrowing, Loading, Steps
<1>8. Grounded'
  <2> SUFFICES ASSUME NEW t \in Triggers, Calm(t)
               PROVE  /\ t \in info' \cup warning' \cup severe' => AtOpening(t) > 0
                      /\ t \in severe' /\ t \notin eased => AtOpening(t) = 2
                      /\ t \in warning' /\ t \notin eased => AtOpening(t) = 1 /\ t[2] # "mcs"
                      /\ t \in info' /\ t \notin eased => AtOpening(t) = 1 /\ t[2] = "mcs"
    BY <1>2, <1>5 DEF Grounded
  <2>1. /\ t \in info \cup warning \cup severe => AtOpening(t) > 0
        /\ t \in severe /\ t \notin eased => AtOpening(t) = 2
        /\ t \in warning /\ t \notin eased => AtOpening(t) = 1 /\ t[2] # "mcs"
        /\ t \in info /\ t \notin eased => AtOpening(t) = 1 /\ t[2] = "mcs"
    BY <1>1 DEF Grounded, Live, Loading, Steps
  <2>2. /\ t \notin eased => Now(t) >= AtOpening(t)
        /\ Now(t) <= AtOpening(t)
        /\ Now(t) \in Int /\ AtOpening(t) \in Int
    BY <1>7
  <2> HIDE DEF TriggerInv
  <2> QED BY <1>1, <1>6, <2>1, <2>2
<1>9. Found'
  <2>1. /\ pc \in PastMCS /\ pc \in PastWarnInvoice /\ pc \notin PastWarnDue
        /\ pc \notin PastWarnTurnover /\ pc \notin PastSevereDue /\ pc \notin Ended
        /\ pc' \in PastMCS /\ pc' \in PastWarnInvoice /\ pc' \in PastWarnDue
        /\ pc' \notin PastWarnTurnover /\ pc' \notin PastSevereDue /\ pc' \notin Ended
    BY <1>1 DEF PastMCS, PastWarnInvoice, PastWarnDue, PastWarnTurnover,
                PastSevereDue, Ended, Steps
  <2>2. \A t \in Triggers \ eased : AtOpening(t) > 0 =>
          /\ Now(t) = 1 \/ Now(t) = 2
          /\ AtOpening(t) = 2 => Now(t) = 2
          /\ t[2] \in {"mcs", "turnover"} => Now(t) = 1
    BY <1>7
  <2>3. Found
    OBVIOUS
  <2> HIDE DEF TriggerInv
  <2>4. CaughtOnce("mcs", PastMCS, info)'
    BY <1>1, <1>2, <1>5, <1>6, <2>1, <2>2, <2>3 DEF Found, CaughtOnce
  <2>5. CaughtOnce("turnover", PastWarnTurnover, warning)'
    BY <1>1, <1>2, <1>5, <1>6, <2>1, <2>2, <2>3 DEF Found, CaughtOnce
  <2>6. Caught("invoice", PastWarnInvoice, Ended)'
    BY <1>1, <1>2, <1>5, <1>6, <2>1, <2>2, <2>3 DEF Found, Caught
  <2>7. Caught("due", PastWarnDue, PastSevereDue)'
    BY <1>1, <1>2, <1>5, <1>6, <2>1, <2>2, <2>3 DEF Found, Caught
  <2> QED BY <2>4, <2>5, <2>6, <2>7 DEF Found
<1> QED BY <1>3, <1>4, <1>8, <1>9

\* A passed turnover is filed.
LEMMA TurnoversKeep ==
    ASSUME TriggerInv, LookForTurnovers
    PROVE  TriggerInv'
<1> USE DEF TriggerInv
<1>1. /\ pc = "warnTurnover" /\ pc' = "severeDue" /\ warning' = warning \cup Hits(FetchWarningTurnover, "turnover")
      /\ UNCHANGED <<today, rows, info, severe, ghosts>>
  BY DEF LookForTurnovers, NextStep
<1>2. UNCHANGED <<opened, openedDay, eased, raised, crossed>>
  BY <1>1 DEF ghosts
<1>3. TypeOK'
  <2>1. Hits(FetchWarningTurnover, "turnover") \subseteq Triggers
    BY DEF Hits, FetchWarningTurnover, Triggers, Kinds
  <2> QED BY <1>1, <1>2, <2>1 DEF TypeOK, Loader, Steps
<1>4. Holding' /\ NotGrowing'
  BY <1>1, ReadingKeepsLevels DEF Loading, Steps
<1>5. \A t \in Triggers : Now(t)' = Now(t) /\ AtOpening(t)' = AtOpening(t) /\ (Calm(t)' <=> Calm(t))
  BY <1>1, <1>2 DEF Now, AtOpening, Calm
<1>6. \A t \in Triggers : t \in warning' <=> t \in warning \/ (t[2] = "turnover" /\ Now(t) = 1)
  BY <1>1, HitsAreLevels
<1>7. \A t \in Triggers :
        /\ t \notin eased => Now(t) >= AtOpening(t)
        /\ Calm(t) => Now(t) <= AtOpening(t)
        /\ Now(t) \in {0, 1, 2} /\ AtOpening(t) \in {0, 1, 2}
        /\ t[2] \in {"mcs", "turnover"} => AtOpening(t) # 2 /\ Now(t) # 2
  BY <1>1, LevelsOfTriggers DEF Holding, NotGrowing, Loading, Steps
<1>8. Grounded'
  <2> SUFFICES ASSUME NEW t \in Triggers, Calm(t)
               PROVE  /\ t \in info' \cup warning' \cup severe' => AtOpening(t) > 0
                      /\ t \in severe' /\ t \notin eased => AtOpening(t) = 2
                      /\ t \in warning' /\ t \notin eased => AtOpening(t) = 1 /\ t[2] # "mcs"
                      /\ t \in info' /\ t \notin eased => AtOpening(t) = 1 /\ t[2] = "mcs"
    BY <1>2, <1>5 DEF Grounded
  <2>1. /\ t \in info \cup warning \cup severe => AtOpening(t) > 0
        /\ t \in severe /\ t \notin eased => AtOpening(t) = 2
        /\ t \in warning /\ t \notin eased => AtOpening(t) = 1 /\ t[2] # "mcs"
        /\ t \in info /\ t \notin eased => AtOpening(t) = 1 /\ t[2] = "mcs"
    BY <1>1 DEF Grounded, Live, Loading, Steps
  <2>2. /\ t \notin eased => Now(t) >= AtOpening(t)
        /\ Now(t) <= AtOpening(t)
        /\ Now(t) \in Int /\ AtOpening(t) \in Int
    BY <1>7
  <2> HIDE DEF TriggerInv
  <2> QED BY <1>1, <1>6, <2>1, <2>2
<1>9. Found'
  <2>1. /\ pc \in PastMCS /\ pc \in PastWarnInvoice /\ pc \in PastWarnDue
        /\ pc \notin PastWarnTurnover /\ pc \notin PastSevereDue /\ pc \notin Ended
        /\ pc' \in PastMCS /\ pc' \in PastWarnInvoice /\ pc' \in PastWarnDue
        /\ pc' \in PastWarnTurnover /\ pc' \notin PastSevereDue /\ pc' \notin Ended
    BY <1>1 DEF PastMCS, PastWarnInvoice, PastWarnDue, PastWarnTurnover,
                PastSevereDue, Ended, Steps
  <2>2. \A t \in Triggers \ eased : AtOpening(t) > 0 =>
          /\ Now(t) = 1 \/ Now(t) = 2
          /\ AtOpening(t) = 2 => Now(t) = 2
          /\ t[2] \in {"mcs", "turnover"} => Now(t) = 1
    BY <1>7
  <2>3. Found
    OBVIOUS
  <2> HIDE DEF TriggerInv
  <2>4. CaughtOnce("mcs", PastMCS, info)'
    BY <1>1, <1>2, <1>5, <1>6, <2>1, <2>2, <2>3 DEF Found, CaughtOnce
  <2>5. CaughtOnce("turnover", PastWarnTurnover, warning)'
    BY <1>1, <1>2, <1>5, <1>6, <2>1, <2>2, <2>3 DEF Found, CaughtOnce
  <2>6. Caught("invoice", PastWarnInvoice, Ended)'
    BY <1>1, <1>2, <1>5, <1>6, <2>1, <2>2, <2>3 DEF Found, Caught
  <2>7. Caught("due", PastWarnDue, PastSevereDue)'
    BY <1>1, <1>2, <1>5, <1>6, <2>1, <2>2, <2>3 DEF Found, Caught
  <2> QED BY <2>4, <2>5, <2>6, <2>7 DEF Found
<1> QED BY <1>3, <1>4, <1>8, <1>9

\* The due dates the warning query left are still passed.
LEMMA PassedDueDatesKeep ==
    ASSUME TriggerInv, LookForPassedDueDates
    PROVE  TriggerInv'
<1> USE DEF TriggerInv
<1>1. /\ pc = "severeDue" /\ pc' = "severeInvoice" /\ severe' = severe \cup Hits(FetchSevereDue, "due")
      /\ UNCHANGED <<today, rows, info, warning, ghosts>>
  BY DEF LookForPassedDueDates, NextStep
<1>2. UNCHANGED <<opened, openedDay, eased, raised, crossed>>
  BY <1>1 DEF ghosts
<1>3. TypeOK'
  <2>1. Hits(FetchSevereDue, "due") \subseteq Triggers
    BY DEF Hits, FetchSevereDue, Triggers, Kinds
  <2> QED BY <1>1, <1>2, <2>1 DEF TypeOK, Loader, Steps
<1>4. Holding' /\ NotGrowing'
  BY <1>1, ReadingKeepsLevels DEF Loading, Steps
<1>5. \A t \in Triggers : Now(t)' = Now(t) /\ AtOpening(t)' = AtOpening(t) /\ (Calm(t)' <=> Calm(t))
  BY <1>1, <1>2 DEF Now, AtOpening, Calm
<1>6. \A t \in Triggers : t \in severe' <=> t \in severe \/ (t[2] = "due" /\ Now(t) = 2)
  BY <1>1, HitsAreLevels
<1>7. \A t \in Triggers :
        /\ t \notin eased => Now(t) >= AtOpening(t)
        /\ Calm(t) => Now(t) <= AtOpening(t)
        /\ Now(t) \in {0, 1, 2} /\ AtOpening(t) \in {0, 1, 2}
        /\ t[2] \in {"mcs", "turnover"} => AtOpening(t) # 2 /\ Now(t) # 2
  BY <1>1, LevelsOfTriggers DEF Holding, NotGrowing, Loading, Steps
<1>8. Grounded'
  <2> SUFFICES ASSUME NEW t \in Triggers, Calm(t)
               PROVE  /\ t \in info' \cup warning' \cup severe' => AtOpening(t) > 0
                      /\ t \in severe' /\ t \notin eased => AtOpening(t) = 2
                      /\ t \in warning' /\ t \notin eased => AtOpening(t) = 1 /\ t[2] # "mcs"
                      /\ t \in info' /\ t \notin eased => AtOpening(t) = 1 /\ t[2] = "mcs"
    BY <1>2, <1>5 DEF Grounded
  <2>1. /\ t \in info \cup warning \cup severe => AtOpening(t) > 0
        /\ t \in severe /\ t \notin eased => AtOpening(t) = 2
        /\ t \in warning /\ t \notin eased => AtOpening(t) = 1 /\ t[2] # "mcs"
        /\ t \in info /\ t \notin eased => AtOpening(t) = 1 /\ t[2] = "mcs"
    BY <1>1 DEF Grounded, Live, Loading, Steps
  <2>2. /\ t \notin eased => Now(t) >= AtOpening(t)
        /\ Now(t) <= AtOpening(t)
        /\ Now(t) \in Int /\ AtOpening(t) \in Int
    BY <1>7
  <2> HIDE DEF TriggerInv
  <2> QED BY <1>1, <1>6, <2>1, <2>2
<1>9. Found'
  <2>1. /\ pc \in PastMCS /\ pc \in PastWarnInvoice /\ pc \in PastWarnDue
        /\ pc \in PastWarnTurnover /\ pc \notin PastSevereDue /\ pc \notin Ended
        /\ pc' \in PastMCS /\ pc' \in PastWarnInvoice /\ pc' \in PastWarnDue
        /\ pc' \in PastWarnTurnover /\ pc' \in PastSevereDue /\ pc' \notin Ended
    BY <1>1 DEF PastMCS, PastWarnInvoice, PastWarnDue, PastWarnTurnover,
                PastSevereDue, Ended, Steps
  <2>2. \A t \in Triggers \ eased : AtOpening(t) > 0 =>
          /\ Now(t) = 1 \/ Now(t) = 2
          /\ AtOpening(t) = 2 => Now(t) = 2
          /\ t[2] \in {"mcs", "turnover"} => Now(t) = 1
    BY <1>7
  <2>3. Found
    OBVIOUS
  <2> HIDE DEF TriggerInv
  <2>4. CaughtOnce("mcs", PastMCS, info)'
    BY <1>1, <1>2, <1>5, <1>6, <2>1, <2>2, <2>3 DEF Found, CaughtOnce
  <2>5. CaughtOnce("turnover", PastWarnTurnover, warning)'
    BY <1>1, <1>2, <1>5, <1>6, <2>1, <2>2, <2>3 DEF Found, CaughtOnce
  <2>6. Caught("invoice", PastWarnInvoice, Ended)'
    BY <1>1, <1>2, <1>5, <1>6, <2>1, <2>2, <2>3 DEF Found, Caught
  <2>7. Caught("due", PastWarnDue, PastSevereDue)'
    BY <1>1, <1>2, <1>5, <1>6, <2>1, <2>2, <2>3 DEF Found, Caught
  <2> QED BY <2>4, <2>5, <2>6, <2>7 DEF Found
<1> QED BY <1>3, <1>4, <1>8, <1>9

\* The gaps the warning query left are still large; the load is complete.
LEMMA LargeGapsKeep ==
    ASSUME TriggerInv, LookForLargeGaps
    PROVE  TriggerInv'
<1> USE DEF TriggerInv
<1>1. /\ pc = "severeInvoice" /\ pc' = "shown" /\ severe' = severe \cup Hits(FetchSevereInvoice, "invoice")
      /\ UNCHANGED <<today, rows, info, warning, ghosts>>
  BY DEF LookForLargeGaps, NextStep
<1>2. UNCHANGED <<opened, openedDay, eased, raised, crossed>>
  BY <1>1 DEF ghosts
<1>3. TypeOK'
  <2>1. Hits(FetchSevereInvoice, "invoice") \subseteq Triggers
    BY DEF Hits, FetchSevereInvoice, Triggers, Kinds
  <2> QED BY <1>1, <1>2, <2>1 DEF TypeOK, Loader, Steps
<1>4. Holding' /\ NotGrowing'
  BY <1>1, ReadingKeepsLevels DEF Loading, Steps
<1>5. \A t \in Triggers : Now(t)' = Now(t) /\ AtOpening(t)' = AtOpening(t) /\ (Calm(t)' <=> Calm(t))
  BY <1>1, <1>2 DEF Now, AtOpening, Calm
<1>6. \A t \in Triggers : t \in severe' <=> t \in severe \/ (t[2] = "invoice" /\ Now(t) = 2)
  BY <1>1, HitsAreLevels
<1>7. \A t \in Triggers :
        /\ t \notin eased => Now(t) >= AtOpening(t)
        /\ Calm(t) => Now(t) <= AtOpening(t)
        /\ Now(t) \in {0, 1, 2} /\ AtOpening(t) \in {0, 1, 2}
        /\ t[2] \in {"mcs", "turnover"} => AtOpening(t) # 2 /\ Now(t) # 2
  BY <1>1, LevelsOfTriggers DEF Holding, NotGrowing, Loading, Steps
<1>8. Grounded'
  <2> SUFFICES ASSUME NEW t \in Triggers, Calm(t)
               PROVE  /\ t \in info' \cup warning' \cup severe' => AtOpening(t) > 0
                      /\ t \in severe' /\ t \notin eased => AtOpening(t) = 2
                      /\ t \in warning' /\ t \notin eased => AtOpening(t) = 1 /\ t[2] # "mcs"
                      /\ t \in info' /\ t \notin eased => AtOpening(t) = 1 /\ t[2] = "mcs"
    BY <1>2, <1>5 DEF Grounded
  <2>1. /\ t \in info \cup warning \cup severe => AtOpening(t) > 0
        /\ t \in severe /\ t \notin eased => AtOpening(t) = 2
        /\ t \in warning /\ t \notin eased => AtOpening(t) = 1 /\ t[2] # "mcs"
        /\ t \in info /\ t \notin eased => AtOpening(t) = 1 /\ t[2] = "mcs"
    BY <1>1 DEF Grounded, Live, Loading, Steps
  <2>2. /\ t \notin eased => Now(t) >= AtOpening(t)
        /\ Now(t) <= AtOpening(t)
        /\ Now(t) \in Int /\ AtOpening(t) \in Int
    BY <1>7
  <2> HIDE DEF TriggerInv
  <2> QED BY <1>1, <1>6, <2>1, <2>2
<1>9. Found'
  <2>1. /\ pc \in PastMCS /\ pc \in PastWarnInvoice /\ pc \in PastWarnDue
        /\ pc \in PastWarnTurnover /\ pc \in PastSevereDue /\ pc \notin Ended
        /\ pc' \in PastMCS /\ pc' \in PastWarnInvoice /\ pc' \in PastWarnDue
        /\ pc' \in PastWarnTurnover /\ pc' \in PastSevereDue /\ pc' \in Ended
    BY <1>1 DEF PastMCS, PastWarnInvoice, PastWarnDue, PastWarnTurnover,
                PastSevereDue, Ended, Steps
  <2>2. \A t \in Triggers \ eased : AtOpening(t) > 0 =>
          /\ Now(t) = 1 \/ Now(t) = 2
          /\ AtOpening(t) = 2 => Now(t) = 2
          /\ t[2] \in {"mcs", "turnover"} => Now(t) = 1
    BY <1>7
  <2>3. Found
    OBVIOUS
  <2> HIDE DEF TriggerInv
  <2>4. CaughtOnce("mcs", PastMCS, info)'
    BY <1>1, <1>2, <1>5, <1>6, <2>1, <2>2, <2>3 DEF Found, CaughtOnce
  <2>5. CaughtOnce("turnover", PastWarnTurnover, warning)'
    BY <1>1, <1>2, <1>5, <1>6, <2>1, <2>2, <2>3 DEF Found, CaughtOnce
  <2>6. Caught("invoice", PastWarnInvoice, Ended)'
    BY <1>1, <1>2, <1>5, <1>6, <2>1, <2>2, <2>3 DEF Found, Caught
  <2>7. Caught("due", PastWarnDue, PastSevereDue)'
    BY <1>1, <1>2, <1>5, <1>6, <2>1, <2>2, <2>3 DEF Found, Caught
  <2> QED BY <2>4, <2>5, <2>6, <2>7 DEF Found
<1> QED BY <1>3, <1>4, <1>8, <1>9

-----------------------------------------------------------------------------
(* The other steps. *)

\* The screen appears: now is the opening, and the lists are empty.
LEMMA AppearKeeps ==
    ASSUME TriggerInv, Appear
    PROVE  TriggerInv'
<1> USE DEF TriggerInv
<1>1. TypeOK'
  <2>1. today \in Int /\ today >= 0
    BY DayAssumption DEF TypeOK
  <2>2. openedDay' \in 0..today'
    BY <2>1 DEF Appear
  <2> QED BY <2>2 DEF Appear, TypeOK, Loader, Steps
<1>2. \A t \in Triggers : Now(t)' = Now(t) /\ AtOpening(t)' = Now(t) /\ Now(t) \in Int
  BY LevelsOfTriggers DEF Appear, Now, AtOpening
<1>3. Holding' /\ NotGrowing'
  BY <1>2 DEF Holding, NotGrowing
<1>4. Grounded'
  BY DEF Appear, Grounded
<1>5. Found'
  BY DEF Appear, Found, CaughtOnce, Caught, PastMCS, PastWarnInvoice, PastWarnDue,
         PastWarnTurnover, PastSevereDue, Ended, Steps
<1> QED BY <1>1, <1>3, <1>4, <1>5

\* The screen goes, by a crash or by the user: nothing is claimed of it.
LEMMA GoneKeeps ==
    ASSUME TriggerInv, Gone
    PROVE  TriggerInv'
<1> USE DEF TriggerInv
<1>1. TypeOK'
  BY DEF Gone, TypeOK, Loader, Steps, ghosts
<1>2. ~Loading' /\ ~Live'
  BY DEF Gone, Loading, Live, Complete, Steps
<1>3. Holding' /\ NotGrowing' /\ Grounded'
  BY <1>2 DEF Holding, NotGrowing, Grounded
<1>4. Found'
  BY DEF Gone, Found, CaughtOnce, Caught, PastMCS, PastWarnInvoice, PastWarnDue,
         PastWarnTurnover, PastSevereDue, Ended, Steps
<1> QED BY <1>1, <1>3, <1>4

\* A project opened from the list leaves the list as it is.
LEMMA PickKeeps ==
    ASSUME TriggerInv, PickTrigger
    PROVE  TriggerInv'
<1> USE DEF TriggerInv
<1>1. /\ pc = "shown" /\ pc' = "project"
      /\ UNCHANGED <<today, rows, info, warning, severe, opened, openedDay, eased,
                     raised, crossed>>
  BY DEF PickTrigger, lists, ghosts
<1>2. TypeOK'
  BY <1>1 DEF TypeOK, Loader, Steps
<1>3. Holding' /\ NotGrowing'
  BY <1>1 DEF Holding, NotGrowing, Loading, Steps
<1>4. Grounded'
  BY <1>1 DEF Grounded, Live, Complete, Calm, AtOpening
<1>5. \A t \in Triggers : Now(t)' = Now(t) /\ AtOpening(t)' = AtOpening(t)
  BY <1>1 DEF Now, AtOpening
<1>6. /\ pc \in Ended /\ pc' \in Ended
      /\ pc' \in PastMCS <=> pc \in PastMCS
      /\ pc' \in PastWarnTurnover <=> pc \in PastWarnTurnover
      /\ pc' \in PastSevereDue <=> pc \in PastSevereDue
  BY <1>1 DEF PastMCS, PastWarnInvoice, PastWarnDue, PastWarnTurnover, PastSevereDue,
              Ended, Steps
<1>7. CaughtOnce("mcs", PastMCS, info)' /\ CaughtOnce("turnover", PastWarnTurnover, warning)'
  BY <1>1, <1>5, <1>6 DEF Found, CaughtOnce
<1>8. Caught("invoice", PastWarnInvoice, Ended)'
  BY <1>1, <1>5, <1>6 DEF Found, Caught
<1>9. pc \in PastSevereDue /\ pc' \in PastSevereDue
  BY <1>1 DEF PastMCS, PastWarnInvoice, PastWarnDue, PastWarnTurnover, PastSevereDue,
              Ended, Steps
<1>10. Caught("due", PastWarnDue, PastSevereDue)'
  BY <1>1, <1>5, <1>9 DEF Found, Caught
<1> QED BY <1>2, <1>3, <1>4, <1>7, <1>8, <1>10 DEF Found

\* A step that changes no list and forgets no save, and in which a trigger
\* that counts as unlowered does not fall, loses nothing that was found.
LEMMA FoundStays ==
    ASSUME TypeOK, TypeOK', Found,
           UNCHANGED <<pc, info, warning, severe, opened, openedDay>>,
           eased \subseteq eased',
           Loading => \A t \in Triggers \ eased' : Now(t)' >= Now(t)
    PROVE  Found'
<1>1. \A t \in Triggers : AtOpening(t)' = AtOpening(t)
  BY DEF AtOpening
<1>2. \A t \in Triggers \ eased' : Loading /\ Now(t) = 2 => Now(t)' = 2
  <2> SUFFICES ASSUME NEW t \in Triggers \ eased', Loading, Now(t) = 2
               PROVE  Now(t)' = 2
    OBVIOUS
  <2>1. Now(t)' >= Now(t)
    OBVIOUS
  <2>2. Now(t)' \in {0, 1, 2}
    BY LevelsAfter
  <2>3. Now(t) \in {0, 1, 2}
    BY LevelsOfTriggers
  <2> QED BY <2>1, <2>2, <2>3
<1>3. /\ PastWarnInvoice \ Ended \subseteq Steps
      /\ PastWarnDue \ PastSevereDue \subseteq Steps
  BY DEF PastMCS, PastWarnInvoice, PastWarnDue, PastWarnTurnover, PastSevereDue,
         Ended, Steps
<1>4. CaughtOnce("mcs", PastMCS, info)' /\ CaughtOnce("turnover", PastWarnTurnover, warning)'
  BY <1>1 DEF Found, CaughtOnce
<1>5. Caught("invoice", PastWarnInvoice, Ended)'
  BY <1>1, <1>2, <1>3 DEF Found, Caught, Loading
<1>6. Caught("due", PastWarnDue, PastSevereDue)'
  BY <1>1, <1>2, <1>3 DEF Found, Caught, Loading
<1> QED BY <1>4, <1>5, <1>6 DEF Found

\* A save counts against the triggers it lowers or raises, and only those.
LEMMA SaveKeeps ==
    ASSUME TriggerInv, NEW p \in Projects, NEW r \in Rows, Save(p, r)
    PROVE  TriggerInv'
<1> USE DEF TriggerInv
<1>1. UNCHANGED <<today, pc, info, warning, severe, opened, openedDay, crossed>>
  BY DEF Save, lists
<1>2. TypeOK'
  BY DEF Save, TypeOK, lists, Lowered, Heightened
<1>3. eased \subseteq eased' /\ raised \subseteq raised'
  BY DEF Save
<1>4. ASSUME NEW t \in Triggers, Loading
      PROVE  /\ t \notin eased' => Now(t)' >= Now(t)
             /\ t \notin raised' => Now(t)' <= Now(t)
  <2>1. Now(t) \in Int /\ Now(t)' \in Int
    BY <1>2, LevelsOfTriggers, LevelsAfter
  <2>2. CASE t[1] = p
    <3>1. Now(t)' = Level(t[2], r, today) /\ Now(t) = Level(t[2], rows[p], today)
      BY <1>1, <2>2 DEF Save, Now, TypeOK
    <3>2. /\ t \notin eased' => ~(Level(t[2], r, today) < Level(t[2], rows[p], today))
          /\ t \notin raised' => ~(Level(t[2], r, today) > Level(t[2], rows[p], today))
      BY <1>4, <2>2 DEF Save, Lowered, Heightened, Loading
    <3> QED BY <2>1, <3>1, <3>2
  <2>3. CASE t[1] # p
    <3>1. Now(t)' = Now(t)
      BY <1>1, <2>3 DEF Save, Now, TypeOK, Triggers
    <3> QED BY <2>1, <3>1
  <2> QED BY <2>2, <2>3
<1>5. \A t \in Triggers : AtOpening(t)' = AtOpening(t) /\ (Calm(t)' => Calm(t) /\ t \notin raised')
  BY <1>1, <1>3 DEF AtOpening, Calm
<1>6. \A t \in Triggers : Now(t) \in Int /\ Now(t)' \in Int /\ AtOpening(t) \in Int
  BY <1>2, LevelsOfTriggers, LevelsAfter
<1>7. Holding'
  <2> SUFFICES ASSUME Loading, NEW t \in Triggers, t \notin eased'
               PROVE  Now(t)' >= AtOpening(t)
    BY <1>1, <1>5 DEF Holding, Loading
  <2>1. Now(t)' >= Now(t) /\ Now(t) >= AtOpening(t)
    BY <1>3, <1>4 DEF Holding
  <2> QED BY <1>6, <2>1
<1>8. NotGrowing'
  <2> SUFFICES ASSUME Loading, NEW t \in Triggers, Calm(t)'
               PROVE  Now(t)' <= AtOpening(t)
    BY <1>1, <1>5 DEF NotGrowing, Loading
  <2>1. Now(t)' <= Now(t) /\ Now(t) <= AtOpening(t)
    BY <1>4, <1>5 DEF NotGrowing
  <2> QED BY <1>6, <2>1
<1>9. Grounded'
  BY <1>1, <1>3, <1>5 DEF Grounded, Live, Loading, Complete
<1>10. Found'
  BY <1>1, <1>2, <1>3, <1>4, FoundStays
<1> QED BY <1>2, <1>7, <1>8, <1>9, <1>10

\* Midnight raises levels and lowers none.
LEMMA MidnightKeeps ==
    ASSUME TriggerInv, Midnight
    PROVE  TriggerInv'
<1> USE DEF TriggerInv
<1>1. /\ UNCHANGED <<rows, pc, info, warning, severe, opened, openedDay, eased, raised>>
      /\ today' = today + 1
      /\ Loading => crossed'
      /\ ~crossed' => ~crossed
  BY DEF Midnight, lists, Loading
<1>2. TypeOK'
  BY DayAssumption DEF Midnight, TypeOK, lists
<1>3. \A t \in Triggers :
        /\ Now(t)' >= Now(t)
        /\ t[2] \in Timeless => Now(t)' = Now(t)
        /\ Now(t) \in Int /\ Now(t)' \in Int /\ AtOpening(t) \in Int
  <2> SUFFICES ASSUME NEW t \in Triggers
               PROVE  /\ Now(t)' >= Now(t)
                      /\ t[2] \in Timeless => Now(t)' = Now(t)
                      /\ Now(t) \in Int /\ Now(t)' \in Int /\ AtOpening(t) \in Int
    OBVIOUS
  <2>1. Now(t) \in Int /\ Now(t)' \in Int /\ AtOpening(t) \in Int
    BY <1>2, LevelsOfTriggers, LevelsAfter
  <2>2. t[2] \in Kinds /\ rows[t[1]] \in RowType /\ today \in Int
    BY LevelsOfTriggers, DayAssumption DEF TypeOK
  <2>3. Now(t)' = Level(t[2], rows[t[1]], today + 1) /\ Now(t) = Level(t[2], rows[t[1]], today)
    BY <1>1 DEF Now
  <2>4. /\ Level(t[2], rows[t[1]], today) <= Level(t[2], rows[t[1]], today + 1)
        /\ t[2] \in Timeless =>
             Level(t[2], rows[t[1]], today) = Level(t[2], rows[t[1]], today + 1)
    BY <2>2, TimeOnlyRaises
  <2> QED BY <2>1, <2>3, <2>4
<1>4. \A t \in Triggers : AtOpening(t)' = AtOpening(t) /\ (Calm(t)' => Calm(t))
  BY <1>1 DEF AtOpening, Calm
<1>5. Holding'
  <2> SUFFICES ASSUME Loading, NEW t \in Triggers, t \notin eased
               PROVE  Now(t)' >= AtOpening(t)
    BY <1>1, <1>4 DEF Holding, Loading
  <2>1. Now(t)' >= Now(t) /\ Now(t) >= AtOpening(t)
    BY <1>3 DEF Holding
  <2> QED BY <1>3, <2>1
<1>6. NotGrowing'
  <2> SUFFICES ASSUME Loading, NEW t \in Triggers, Calm(t)'
               PROVE  Now(t)' <= AtOpening(t)
    BY <1>1, <1>4 DEF NotGrowing, Loading
  <2>1. Now(t)' = Now(t)
    BY <1>1, <1>3 DEF Calm
  <2>2. Now(t) <= AtOpening(t)
    BY <1>4 DEF NotGrowing
  <2> QED BY <2>1, <2>2
<1>7. Grounded'
  BY <1>1, <1>4 DEF Grounded, Live, Loading, Complete
<1>8. Found'
  BY <1>1, <1>2, <1>3, FoundStays
<1> QED BY <1>2, <1>5, <1>6, <1>7, <1>8

-----------------------------------------------------------------------------

LEMMA InitEstablishes == Init => TriggerInv
<1> SUFFICES ASSUME Init PROVE TriggerInv
  OBVIOUS
<1>1. TypeOK
  <2>1. today \in 0..LastDay /\ openedDay \in 0..today
    BY DayAssumption DEF Init
  <2> QED BY <2>1 DEF Init, TypeOK, Loader
<1>2. ~Loading /\ ~Live
  BY DEF Init, Loading, Live, Complete, Steps
<1>3. Found
  BY DEF Init, Found, CaughtOnce, Caught, PastMCS, PastWarnInvoice, PastWarnDue,
         PastWarnTurnover, PastSevereDue, Ended, Steps
<1> QED BY <1>1, <1>2, <1>3 DEF TriggerInv, Holding, NotGrowing, Grounded

LEMMA StutterKeeps ==
    ASSUME TriggerInv, UNCHANGED vars
    PROVE  TriggerInv'
BY DEF TriggerInv, vars, TypeOK, Holding, NotGrowing, Grounded, Found, CaughtOnce,
       Caught, Loading, Live, Complete, Calm, Now, AtOpening

\* At the end of a load everything that was found is on the screen.
LEMMA AlarmsFromInv == TriggerInv => AlarmsNeverMissed
<1> SUFFICES ASSUME TriggerInv, Complete, NEW t \in Triggers \ eased
             PROVE  /\ AtOpening(t) > 0 => t \in info \cup warning \cup severe
                    /\ AtOpening(t) = 2 => t \in severe
  BY DEF AlarmsNeverMissed
<1>1. pc \in Ended /\ pc \in PastMCS /\ pc \in PastWarnTurnover /\ pc \in PastSevereDue
  BY DEF Complete, PastMCS, PastWarnInvoice, PastWarnDue, PastWarnTurnover,
         PastSevereDue, Ended, Steps
<1>2. /\ t[2] = "mcs" \/ t[2] = "invoice" \/ t[2] = "due" \/ t[2] = "turnover"
      /\ t[2] \in {"mcs", "turnover"} => AtOpening(t) # 2
      /\ AtOpening(t) = 2 => AtOpening(t) > 0
  BY LevelsOfTriggers DEF TriggerInv, Kinds
<1>3. Found
  BY DEF TriggerInv
<1> QED BY <1>1, <1>2, <1>3 DEF Found, CaughtOnce, Caught

\* The invariant of the trigger screen holds in every behaviour.
THEOREM LoaderInvariance == Spec => []TriggerInv
<1>1. TriggerInv /\ [Next]_vars => TriggerInv'
  <2> SUFFICES ASSUME TriggerInv, [Next]_vars PROVE TriggerInv'
    OBVIOUS
  <2>1. CASE Appear BY <2>1, AppearKeeps
  <2>2. CASE LookForMCSNumbers BY <2>2, MCSNumbersKeep
  <2>3. CASE LookForSmallGaps BY <2>3, SmallGapsKeep
  <2>4. CASE LookForNearDueDates BY <2>4, NearDueDatesKeep
  <2>5. CASE LookForTurnovers BY <2>5, TurnoversKeep
  <2>6. CASE LookForPassedDueDates BY <2>6, PassedDueDatesKeep
  <2>7. CASE LookForLargeGaps BY <2>7, LargeGapsKeep
  <2>8. CASE Crash BY <2>8, GoneKeeps DEF Crash
  <2>9. CASE PickTrigger BY <2>9, PickKeeps
  <2>10. CASE Leave BY <2>10, GoneKeeps DEF Leave
  <2>11. CASE \E p \in Projects, r \in Rows : Save(p, r) BY <2>11, SaveKeeps
  <2>12. CASE Midnight BY <2>12, MidnightKeeps
  <2>13. CASE UNCHANGED vars BY <2>13, StutterKeeps
  <2> QED BY <2>1, <2>2, <2>3, <2>4, <2>5, <2>6, <2>7, <2>8, <2>9, <2>10, <2>11,
             <2>12, <2>13 DEF Next
<1> QED BY <1>1, InitEstablishes, PTL DEF Spec

\* The state of the screen, of the table and of the clock keep their types.
THEOREM TriggersTyped == Spec => []TypeOK
BY LoaderInvariance, PTL DEF TriggerInv

\* No alarm that was due at the opening of the screen and that nobody eased
\* is missing, whatever is saved and whenever midnight falls during the load.
THEOREM NoAlarmLost == Spec => []AlarmsNeverMissed
BY AlarmsFromInv, LoaderInvariance, PTL

\* What is on the screen was due at the opening, unless it was raised since.
THEOREM NoAlarmInvented == Spec => []NoFalseAlarm
<1>1. TriggerInv => NoFalseAlarm
  BY DEF TriggerInv, TypeOK, NoFalseAlarm, Grounded, Live, Calm
<1> QED BY <1>1, LoaderInvariance, PTL

\* An undisturbed trigger is in exactly the list of its level.
THEOREM EachFiledOnce == Spec => []FiledOnce
<1>1. TriggerInv => FiledOnce
  <2> SUFFICES ASSUME TriggerInv, Complete, NEW t \in Triggers \ (eased \cup raised),
                      ~crossed \/ t[2] \in {"mcs", "invoice"}
               PROVE  /\ t \in severe <=> AtOpening(t) = 2
                      /\ t \in warning <=> AtOpening(t) = 1 /\ t[2] # "mcs"
                      /\ t \in info <=> AtOpening(t) = 1 /\ t[2] = "mcs"
    BY DEF FiledOnce
  <2>1. /\ t \in severe => AtOpening(t) = 2
        /\ t \in warning => AtOpening(t) = 1 /\ t[2] # "mcs"
        /\ t \in info => AtOpening(t) = 1 /\ t[2] = "mcs"
    BY DEF TriggerInv, Grounded, Live, Calm, Timeless
  <2>2. pc \in Ended /\ pc \in PastMCS
    BY DEF Complete, PastMCS, Ended, Steps
  <2>3. t[2] = "mcs" /\ AtOpening(t) > 0 => t \in info
    BY <2>2 DEF TriggerInv, Found, CaughtOnce
  <2>4. AtOpening(t) > 0 => t \in info \cup warning \cup severe
    BY AlarmsFromInv DEF AlarmsNeverMissed
  <2>5. AtOpening(t) = 2 => t \in severe
    BY AlarmsFromInv DEF AlarmsNeverMissed
  <2>6. AtOpening(t) \in {0, 1, 2}
    BY LevelsOfTriggers DEF TriggerInv
  <2> QED BY <2>1, <2>3, <2>4, <2>5, <2>6
<1> QED BY <1>1, LoaderInvariance, PTL
=============================================================================
