---------------------------- MODULE Statements -----------------------------
(***************************************************************************)
(* The statements the application fetches with: the columns each selects,  *)
(* in their order, and the keys with which its readers look them up.       *)
(* Statements that select the same columns stand here once.                *)
(***************************************************************************)
EXTENDS Sequences, TLC

\* The table of a key without one.
NoTable == ""

\* Fields of one table, in a row; keys with one prefix; a name of each table.
From(table, fields) == [i \in DOMAIN fields |-> <<table, fields[i]>>]
Keys(prefix, fields) == {<<prefix, field>> : field \in fields}
Name(table) == <<<<table, "name">>>>
Names(tables) == {<<table, "name">> : table \in tables}

Project(fields) == From("project", fields)
Warehouse(fields) == From("warehouse", fields)
Closeout(fields) == From("closeoutdetails", fields)

-----------------------------------------------------------------------------
(* The lists, the login and the forms. *)

Place == Warehouse(<<"state", "warehouseID">>) \o Name("city")
PlaceKeys == Keys("warehouse", {"state", "warehouseID"}) \cup Names({"city"})

FormColumns ==
    [user |-> From("user", <<"id">>),
     password |-> From("user", <<"password">>),
     list |-> From("person", <<"id", "name">>),
     warehouses |-> Warehouse(<<"id", "state", "warehouseID">>) \o Name("city"),
     search |-> Name("projectitem") \o Project(<<"id">>),
     required |-> Project(<<"mcsNumber">>) \o Place \o Name("projectclass")
         \o Name("projectitem") \o Name("projectstage") \o Name("projectstatus")
         \o Name("projecttype") \o Project(<<"scope">>),
     person |-> Name("person"),
     optional |->
         Project(<<"projectInitiatedDate", "siteSurvey", "costcoDueDate",
                   "proposalSubmitted">>)
         \o Closeout(<<"asBuilts", "punchList", "alarmHvacForm",
                       "verisaeShutdownReport", "closeoutNotes">>)
         \o Project(<<"scheduledStartDate", "scheduledTurnover", "actualTurnover">>)
         \o Closeout(<<"airGas">>) \o Project(<<"permitApplication">>)
         \o Closeout(<<"permitsClosed">>)
         \o Project(<<"shouldInvoice", "invoiced", "projectNotes", "zachUpdates",
                      "cost", "customerNumber">>),
     salvage |-> From("salvagevalue", <<"date", "value">>),
     salvageLink |-> Closeout(<<"salvageValue_id">>),
     closeoutLink |-> Project(<<"closeoutDetails_id">>)]

FormReads ==
    [user |-> {},
     password |-> Keys(NoTable, {"password"}),
     list |-> Keys(NoTable, {"id", "name"}),
     warehouses |-> Keys(NoTable, {"id", "state", "warehouseID"}) \cup Names({"city"}),
     search |-> Keys(NoTable, {"name"}) \cup Keys("project", {"id"}),
     required |-> Keys(NoTable, {"mcsNumber"}) \cup PlaceKeys \cup Keys("project", {"scope"})
         \cup Names({"projectclass", "projectitem", "projectstage", "projectstatus",
                     "projecttype"}),
     person |-> Keys(NoTable, {"name"}),
     optional |->
         Keys(NoTable, {"projectInitiatedDate", "siteSurvey", "costcoDueDate",
                     "proposalSubmitted"})
         \cup Keys("closeoutdetails",
                   {"asBuilts", "punchList", "alarmHvacForm", "verisaeShutdownReport",
                    "closeoutNotes", "airGas", "permitsClosed"})
         \cup Keys("project",
                   {"scheduledStartDate", "scheduledTurnover", "actualTurnover",
                    "permitApplication", "shouldInvoice", "invoiced", "projectNotes",
                    "zachUpdates", "cost", "customerNumber"}),
     salvage |-> Keys(NoTable, {"date", "value"}),
     salvageLink |-> Keys(NoTable, {"salvageValue_id"}),
     closeoutLink |-> Keys(NoTable, {"closeoutDetails_id"})]

-----------------------------------------------------------------------------
(* The reports. *)

Site == Warehouse(<<"warehouseID", "state">>) \o Name("city") \o Name("projectitem")
            \o Project(<<"scope">>)
Classified == Name("projectclass") \o Warehouse(<<"region">>) \o Name("projectstatus")
Region == Warehouse(<<"region">>) \o Name("projectstatus")
Scheduled == Project(<<"scheduledStartDate", "scheduledTurnover">>)
Proposed == Project(<<"projectInitiatedDate", "proposalSubmitted">>)

ReportColumns ==
    [active |-> Project(<<"mcsNumber">>) \o Name("projectstage") \o Site \o Classified
         \o Scheduled \o Project(<<"actualTurnover">>) \o Name("projecttype")
         \o Closeout(<<"asBuilts", "punchList", "alarmHvacForm", "airGas",
                       "permitsClosed", "verisaeShutdownReport">>)
         \o Project(<<"invoiced", "shouldInvoice", "projectNotes">>),
     proposal |-> Name("projectstage") \o Site \o Classified
         \o Project(<<"projectInitiatedDate", "siteSurvey", "costcoDueDate",
                      "proposalSubmitted">>)
         \o Name("projecttype") \o Project(<<"projectNotes">>),
     inactive |-> Name("projectstage") \o Name("projectitem") \o Project(<<"scope">>)
         \o Name("projectstatus"),
     closed |-> Project(<<"mcsNumber">>) \o Name("projectstage") \o Site \o Region
         \o Project(<<"projectInitiatedDate">>) \o Name("projecttype")
         \o Project(<<"costcoDueDate", "proposalSubmitted">>) \o Scheduled
         \o Closeout(<<"asBuilts", "punchList", "alarmHvacForm", "airGas",
                       "permitsClosed">>)
         \o Project(<<"shouldInvoice", "invoiced", "projectNotes">>),
     northEastActive |-> Project(<<"mcsNumber">>) \o Site \o Classified \o Scheduled,
     northEastProposal |-> Warehouse(<<"region">>) \o Name("projectitem") \o Place
         \o Project(<<"scope">>) \o Name("projectclass") \o Name("projectstatus")
         \o Proposed,
     active2 |-> Site \o Region \o Project(<<"permitApplication">>) \o Scheduled
         \o Closeout(<<"asBuilts", "alarmHvacForm">>) \o Project(<<"projectNotes">>),
     proposal2 |-> Site \o Region
         \o Project(<<"permitApplication", "projectInitiatedDate", "costcoDueDate",
                      "proposalSubmitted", "projectNotes">>),
     active3 |-> Project(<<"mcsNumber">>) \o Place \o Name("projectitem")
         \o Project(<<"scope">>) \o Classified \o Scheduled,
     proposal3 |-> Place \o Name("projectitem") \o Project(<<"scope">>) \o Classified
         \o Proposed,
     invoice |-> Project(<<"mcsNumber">>) \o Warehouse(<<"warehouseID", "state">>)
         \o Name("city") \o Name("projectitem") \o Name("projectclass") \o Scheduled
         \o Project(<<"invoiced", "shouldInvoice", "projectNotes">>),
     completed |-> Project(<<"mcsNumber">>) \o Site \o Warehouse(<<"region">>) \o Scheduled
         \o Closeout(<<"asBuilts", "punchList", "alarmHvacForm", "permitsClosed">>)
         \o Project(<<"shouldInvoice", "invoiced", "projectNotes">>)]

SiteKeys == PlaceKeys \cup Names({"projectitem"}) \cup Keys("project", {"scope"})
NumberedKeys == Keys(NoTable, {"mcsNumber"}) \cup SiteKeys
RegionKeys == Names({"projectstatus"}) \cup Keys("warehouse", {"region"})
ClassifiedKeys == Names({"projectclass"}) \cup RegionKeys
CloseoutKeys ==
    Keys("closeoutdetails", {"asBuilts", "punchList", "alarmHvacForm", "permitsClosed"})
ScheduledKeys == Keys("project", {"scheduledStartDate", "scheduledTurnover"})
InvoiceKeys == Keys("project", {"invoiced", "shouldInvoice", "projectNotes"})
ProposedKeys == Keys("project", {"projectInitiatedDate", "proposalSubmitted"})
BareSiteKeys == Keys(NoTable, {"warehouseID", "state"}) \cup Names({"city", "projectitem"})
                    \cup Keys("project", {"scope"})

ReportReads ==
    [active |-> NumberedKeys \cup ClassifiedKeys \cup CloseoutKeys \cup ScheduledKeys
         \cup Names({"projectstage", "projecttype"}) \cup InvoiceKeys
         \cup Keys("closeoutdetails", {"airGas", "verisaeShutdownReport"})
         \cup Keys("project", {"actualTurnover"}),
     proposal |-> Keys(NoTable, {"name"}) \cup SiteKeys \cup ClassifiedKeys
         \cup Names({"projecttype"}) \cup ProposedKeys
         \cup Keys("project", {"siteSurvey", "costcoDueDate", "projectNotes"}),
     inactive |-> Keys(NoTable, {"name"}) \cup Names({"projectitem", "projectstatus"})
         \cup Keys("project", {"scope"}),
     closed |-> NumberedKeys \cup RegionKeys \cup ProposedKeys \cup CloseoutKeys
         \cup Names({"projectstage", "projecttype"}) \cup ScheduledKeys \cup InvoiceKeys
         \cup Keys("closeoutdetails", {"airGas"}) \cup Keys("project", {"costcoDueDate"}),
     northEastActive |-> NumberedKeys \cup ClassifiedKeys \cup ScheduledKeys,
     northEastProposal |-> Keys(NoTable, {"region"}) \cup SiteKeys \cup ProposedKeys
         \cup Names({"projectclass", "projectstatus"}),
     active2 |-> BareSiteKeys \cup RegionKeys \cup ScheduledKeys
         \cup Keys("closeoutdetails", {"asBuilts", "alarmHvacForm"})
         \cup Keys("project", {"permitApplication", "projectNotes"}),
     proposal2 |-> BareSiteKeys \cup RegionKeys \cup ProposedKeys
         \cup Keys("project", {"permitApplication", "costcoDueDate", "projectNotes"}),
     active3 |-> NumberedKeys \cup ClassifiedKeys \cup ScheduledKeys,
     proposal3 |-> BareSiteKeys \cup ClassifiedKeys \cup ProposedKeys,
     invoice |-> Keys(NoTable, {"mcsNumber"}) \cup PlaceKeys \cup ScheduledKeys
         \cup Names({"projectitem", "projectclass"}) \cup InvoiceKeys,
     completed |-> NumberedKeys \cup CloseoutKeys \cup ScheduledKeys \cup InvoiceKeys
         \cup Keys("warehouse", {"region"})]

-----------------------------------------------------------------------------
(* The triggers. *)

TriggerColumns ==
    LET row == Project(<<"mcsNumber">>) \o Name("city") \o Name("projectitem")
                   \o Project(<<"id">>)
    IN  [triggers |-> row, dueTriggers |-> row \o Project(<<"costcoDueDate">>)]

TriggerReads ==
    LET row == Keys(NoTable, {"mcsNumber"}) \cup Names({"city", "projectitem"})
                   \cup Keys("project", {"id"})
    IN  [triggers |-> row, dueTriggers |-> row \cup Keys(NoTable, {"costcoDueDate"})]

-----------------------------------------------------------------------------

Selected == FormColumns @@ ReportColumns @@ TriggerColumns
Read == FormReads @@ ReportReads @@ TriggerReads
=============================================================================
