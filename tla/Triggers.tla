------------------------------ MODULE Triggers ------------------------------
(***************************************************************************)
(* The trigger screen.  Each time the screen appears it builds a new       *)
(* helper and runs six queries, one after the other, with no transaction   *)
(* around them: the projects without an MCS number (info, green), then     *)
(* the small invoice gaps, the near Costco due dates and the passed        *)
(* turnovers (warning, yellow), then the passed due dates and the large    *)
(* invoice gaps (severe, red).  Other devices save projects between two    *)
(* queries, and the day of the server, which the queries read through      *)
(* curdate(), may change between two queries.                              *)
(*                                                                         *)
(* A row holds the columns the queries read.  Row values come from the     *)
(* constant Rows, days are integers and LastDay bounds the clock.          *)
(***************************************************************************)
EXTENDS Integers

CONSTANTS
    Projects,   \* the projects of the database
    Rows,       \* the row values a save may write
    NoDate,     \* SQL NULL in a date column: no comparison with it holds
    LastDay     \* bound: the last day of the server's clock

\* What a row holds: whether mcsNumber differs from -1, whether stage_id is 2
\* (Active), whether status_id is 28 (Complete), the two dates the triggers
\* look at, and the two invoice percentages.
RowType == [assigned : BOOLEAN, active : BOOLEAN, complete : BOOLEAN,
            due : Int \cup {NoDate}, turnover : Int \cup {NoDate},
            should : Int, invoiced : Int]

ASSUME RowsAssumption == Rows \subseteq RowType /\ NoDate \notin Int
ASSUME DayAssumption == LastDay \in Nat

Kinds == {"mcs", "invoice", "due", "turnover"}
Triggers == Projects \X Kinds

\* The queries of lookForTriggers, and where the loader is: a query that runs
\* next, or no load.
Steps == {"mcs", "warnInvoice", "warnDue", "warnTurnover",
          "severeDue", "severeInvoice"}
Loader == Steps \cup {"away", "shown", "project"}

\* Mutant of NextStep: lookForSevereTriggers is called before
\* lookForWarningTriggers.
NextStepSevereFirst ==
    [mcs |-> "severeDue", severeDue |-> "severeInvoice",
     severeInvoice |-> "warnInvoice", warnInvoice |-> "warnDue",
     warnDue |-> "warnTurnover", warnTurnover |-> "shown"]

\* The order in which lookForTriggers runs the queries.
NextStep == [mcs           |-> "warnInvoice",
             warnInvoice   |-> "warnDue",
             warnDue       |-> "warnTurnover",
             warnTurnover  |-> "severeDue",
             severeDue     |-> "severeInvoice",
             severeInvoice |-> "shown"]

VARIABLES
    today,      \* curdate() of the server
    rows,       \* the project table
    pc,         \* the loader of the screen
    info,       \* infoTriggers, as <<project, kind>>
    warning,    \* warningTriggers
    severe,     \* severeTriggers
    opened,     \* ghost: the table when the last load began
    openedDay,  \* ghost: the day it began
    eased,      \* ghost: triggers that a save lowered during the load
    raised,     \* ghost: triggers that a save raised during the load
    crossed     \* ghost: midnight passed during the load

lists == <<info, warning, severe>>
ghosts == <<opened, openedDay, eased, raised, crossed>>
vars == <<today, rows, pc, info, warning, severe,
          opened, openedDay, eased, raised, crossed>>

-----------------------------------------------------------------------------
(* The WHERE clauses. *)

InfoMCS(r, d) == ~r.assigned /\ r.active

\* Mutant of WarningInvoice: a gap of 20 taken as well.
WarningInvoiceInclusive(r, d) ==
    r.should > r.invoiced /\ r.should <= r.invoiced + 20

WarningInvoice(r, d) ==
    r.should > r.invoiced /\ r.should < r.invoiced + 20

WarningDue(r, d) ==
    /\ r.due # NoDate
    /\ r.due <= d + 3
    /\ r.due >= d
    /\ r.assigned
    /\ r.active

WarningTurnover(r, d) ==
    /\ r.turnover # NoDate
    /\ r.turnover < d
    /\ ~r.complete
    /\ r.assigned

SevereDue(r, d) ==
    /\ r.due # NoDate
    /\ r.due < d
    /\ r.assigned
    /\ r.active

SevereInvoice(r, d) == r.should >= r.invoiced + 20

(* The projects each query returns. *)

FetchInfoMCS == {p \in Projects : InfoMCS(rows[p], today)}
FetchWarningInvoice == {p \in Projects : WarningInvoice(rows[p], today)}
FetchWarningDue == {p \in Projects : WarningDue(rows[p], today)}
FetchWarningTurnover == {p \in Projects : WarningTurnover(rows[p], today)}
FetchSevereDue == {p \in Projects : SevereDue(rows[p], today)}
FetchSevereInvoice == {p \in Projects : SevereInvoice(rows[p], today)}

\* Mutant of Hits: the arguments of the trigger's initialiser swapped.
HitsSwapped(found, k) == {k} \X found

\* The trigger objects that the rows of one query add to a list.
Hits(found, k) == found \X {k}

-----------------------------------------------------------------------------
(* The urgency of a kind of trigger for a row on a day: 0 for none, 1 and 2 *)
(* for the two lists it can be in.  The thresholds are stated by distances, *)
(* independently of the queries; which projects count at all, by number,   *)
(* stage and status, is taken from the queries.  The comments on five of   *)
(* the six in DatabaseConnector.m say something else:                      *)
(*   1045  "all the projects with an MCS Number of -1": the query (1050)   *)
(*         asks for the Active stage too, and so does MCSLevel;            *)
(*   1058  "should invoice < 20": the query (1063) has invoiced + 20, and  *)
(*         InvoiceLevel the gap;                                           *)
(*   1071  "a Costco Due Date within 3 days", and 1097 "past the current   *)
(*         date": the queries (1076, 1102) ask for a number and the Active *)
(*         stage too, and so does DueLevel;                                *)
(*   1084  "a scheduled turn over date prior to the current date and       *)
(*         project status not equal complete": the query (1089) asks for a *)
(*         number too, and so does TurnoverLevel.                          *)
(* So "due" below means due by Level, not by these comments, of which the  *)
(* specification has a row against each.                                   *)

Gap(r) == r.should - r.invoiced
Slack(r, d) == r.due - d

InvoiceLevel(r) == IF Gap(r) <= 0 THEN 0 ELSE IF Gap(r) < 20 THEN 1 ELSE 2

DueLevel(r, d) ==
    IF ~r.assigned \/ ~r.active \/ r.due = NoDate THEN 0
    ELSE IF Slack(r, d) > 3 THEN 0
    ELSE IF Slack(r, d) >= 0 THEN 1 ELSE 2

TurnoverLevel(r, d) ==
    IF r.assigned /\ ~r.complete /\ r.turnover # NoDate /\ d > r.turnover
    THEN 1 ELSE 0

MCSLevel(r) == IF r.active /\ ~r.assigned THEN 1 ELSE 0

Level(k, r, d) ==
    IF k = "mcs" THEN MCSLevel(r)
    ELSE IF k = "invoice" THEN InvoiceLevel(r)
    ELSE IF k = "due" THEN DueLevel(r, d)
    ELSE TurnoverLevel(r, d)

-----------------------------------------------------------------------------
(* The screen. *)

Init ==
    /\ today = 0
    /\ rows \in [Projects -> Rows]
    /\ pc = "away"
    /\ info = {} /\ warning = {} /\ severe = {}
    /\ opened = rows
    /\ openedDay = 0
    /\ eased = {} /\ raised = {}
    /\ crossed = FALSE

\* Mutant of Appear: the helper is made once and its lists are kept.
AppearKeepingLists ==
    /\ pc \in {"away", "project"}
    /\ pc' = "mcs"
    /\ opened' = rows
    /\ openedDay' = today
    /\ eased' = {} /\ raised' = {}
    /\ crossed' = FALSE
    /\ UNCHANGED <<today, rows, lists>>

\* viewDidAppear: a new helper with empty lists, a connection, and the first
\* query follows.  The screen appears from the menu and when the user comes
\* back from a project.
Appear ==
    /\ pc \in {"away", "project"}
    /\ pc' = "mcs"
    /\ info' = {} /\ warning' = {} /\ severe' = {}
    /\ opened' = rows
    /\ openedDay' = today
    /\ eased' = {} /\ raised' = {}
    /\ crossed' = FALSE
    /\ UNCHANGED <<today, rows>>

LookForMCSNumbers ==
    /\ pc = "mcs"
    /\ info' = info \cup Hits(FetchInfoMCS, "mcs")
    /\ pc' = NextStep[pc]
    /\ UNCHANGED <<today, rows, warning, severe, ghosts>>

LookForSmallGaps ==
    /\ pc = "warnInvoice"
    /\ warning' = warning \cup Hits(FetchWarningInvoice, "invoice")
    /\ pc' = NextStep[pc]
    /\ UNCHANGED <<today, rows, info, severe, ghosts>>

LookForNearDueDates ==
    /\ pc = "warnDue"
    /\ warning' = warning \cup Hits(FetchWarningDue, "due")
    /\ pc' = NextStep[pc]
    /\ UNCHANGED <<today, rows, info, severe, ghosts>>

LookForTurnovers ==
    /\ pc = "warnTurnover"
    /\ warning' = warning \cup Hits(FetchWarningTurnover, "turnover")
    /\ pc' = NextStep[pc]
    /\ UNCHANGED <<today, rows, info, severe, ghosts>>

LookForPassedDueDates ==
    /\ pc = "severeDue"
    /\ severe' = severe \cup Hits(FetchSevereDue, "due")
    /\ pc' = NextStep[pc]
    /\ UNCHANGED <<today, rows, info, warning, ghosts>>

\* The last query; the connection is released and the table is drawn.
LookForLargeGaps ==
    /\ pc = "severeInvoice"
    /\ severe' = severe \cup Hits(FetchSevereInvoice, "invoice")
    /\ pc' = NextStep[pc]
    /\ UNCHANGED <<today, rows, info, warning, ghosts>>

\* The screen and its helper are gone, and with them the lists.
Gone ==
    /\ pc' = "away"
    /\ info' = {} /\ warning' = {} /\ severe' = {}
    /\ UNCHANGED <<today, rows, ghosts>>

\* A query or the connection fails: nothing catches the exception.
Crash == pc \in Steps /\ Gone

\* The user taps a row of one of the three sections: the project opens.
PickTrigger ==
    /\ pc = "shown"
    /\ info \cup warning \cup severe # {}
    /\ pc' = "project"
    /\ UNCHANGED <<today, rows, lists, ghosts>>

Leave == pc \in {"shown", "project"} /\ Gone

-----------------------------------------------------------------------------
(* The rest of the world. *)

\* The triggers of a project whose urgency a new row lowers, or raises.
Lowered(p, r) ==
    {t \in Triggers : t[1] = p /\ Level(t[2], r, today) < Level(t[2], rows[p], today)}
Heightened(p, r) ==
    {t \in Triggers : t[1] = p /\ Level(t[2], r, today) > Level(t[2], rows[p], today)}

\* A device writes a project's row (the project screen of this device is one
\* of them).
Save(p, r) ==
    /\ rows' = [rows EXCEPT ![p] = r]
    /\ eased' = IF pc \in Steps THEN eased \cup Lowered(p, r) ELSE eased
    /\ raised' = IF pc \in Steps THEN raised \cup Heightened(p, r) ELSE raised
    /\ UNCHANGED <<today, pc, lists, opened, openedDay, crossed>>

Midnight ==
    /\ today < LastDay
    /\ today' = today + 1
    /\ crossed' = (crossed \/ pc \in Steps)
    /\ UNCHANGED <<rows, pc, lists, opened, openedDay, eased, raised>>

Next ==
    \/ Appear
    \/ LookForMCSNumbers
    \/ LookForSmallGaps
    \/ LookForNearDueDates
    \/ LookForTurnovers
    \/ LookForPassedDueDates
    \/ LookForLargeGaps
    \/ Crash
    \/ PickTrigger
    \/ Leave
    \/ \E p \in Projects, r \in Rows : Save(p, r)
    \/ Midnight

Spec == Init /\ [][Next]_vars

-----------------------------------------------------------------------------
(* Properties. *)

TypeOK ==
    /\ today \in 0..LastDay
    /\ rows \in [Projects -> Rows]
    /\ pc \in Loader
    /\ info \subseteq Triggers
    /\ warning \subseteq Triggers
    /\ severe \subseteq Triggers
    /\ opened \in [Projects -> Rows]
    /\ openedDay \in 0..today
    /\ eased \subseteq Triggers
    /\ raised \subseteq Triggers
    /\ crossed \in BOOLEAN

Complete == pc \in {"shown", "project"}
AtOpening(t) == Level(t[2], opened[t[1]], openedDay)

\* A trigger that was due (by Level) when the load began, and that no save has
\* lowered while it ran, is on the screen; a severe one is in the severe list.  The
\* six queries are not one snapshot: this rests on their order, the warnings
\* before the severe ones, because time only moves a due date from the first
\* to the second.
AlarmsNeverMissed ==
    Complete =>
      \A t \in Triggers \ eased :
        /\ AtOpening(t) > 0 => t \in info \cup warning \cup severe
        /\ AtOpening(t) = 2 => t \in severe

\* A trigger on the screen was due (by Level) when the load began, unless a save raised
\* it or midnight passed while it ran: nothing is left over from an earlier
\* appearance of the screen.
NoFalseAlarm ==
    Complete /\ ~crossed =>
      \A t \in (info \cup warning \cup severe) \ raised : AtOpening(t) > 0

\* A trigger no save has touched is in the one list its Level at the opening
\* calls for, and in no other; only those of a date may differ, and only when
\* midnight passed during the load.  This is about where the queries put what
\* counts for them, the pairs of which meet without gap or overlap; it does
\* not say that every project the comments on the queries describe is listed,
\* which is not so (see Level).
FiledOnce ==
    Complete =>
      \A t \in Triggers \ (eased \cup raised) :
        ~crossed \/ t[2] \in {"mcs", "invoice"} =>
          /\ t \in severe <=> AtOpening(t) = 2
          /\ t \in warning <=> AtOpening(t) = 1 /\ t[2] # "mcs"
          /\ t \in info <=> AtOpening(t) = 1 /\ t[2] = "mcs"
=============================================================================
