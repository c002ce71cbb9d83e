------------------------------- MODULE Login -------------------------------
(***************************************************************************)
(* The login screen and the menu behind it, on every device, against the   *)
(* table of users and the connections of the server.                       *)
(*                                                                         *)
(* Login blocks the main thread: it connects, asks for the user's id, asks *)
(* for the password in a second query, and gives its verdict.  One second  *)
(* later the HUD that swallows touches goes, two seconds later the answer  *)
(* comes: the menu, or an alert.  In the second between them the user can  *)
(* press again.  The answers come in the order in which they were put off. *)
(*                                                                         *)
(* Time is counted in seconds, as the age of each answer that is to come.  *)
(* What is in the two text fields is the input of Press.  One name stands  *)
(* for all: an attempt reads the rows of one name only.                    *)
(***************************************************************************)
EXTENDS Connections, Sequences

CONSTANTS
    Password,   \* the hashes a user may have
    Typed,      \* the hashes of what is typed
    NoUser,     \* the table has no such user
    MaxDrops    \* bound: connections of a device that the server ends

ASSUME UserAssumption == NoUser \notin Password \cup Typed
ASSUME DropsAssumption == MaxDrops \in Nat

VARIABLES
    user,       \* the row of the name in the table of users
    pc,         \* where the main thread of each device is
    shared,     \* the shared connector exists
    typed,      \* the hash of the attempt
    hud,        \* the HUD is over the login screen
    pending,    \* the answers to come: [age, verdict], the next one first
    alert,      \* an alert is on the screen
    seen,       \* ghost: the rows the table had for the name in the attempt
    handlers,   \* ghost: handlers ended since the launch
    dropped     \* ghost: connections the server ended since the launch

screens == <<shared, typed, hud, pending, alert>>
counts == <<handlers, dropped>>
vars == <<connections, user, pc, screens, seen, counts>>

UserLoginType == {"SuccessfulLogin", "IncorrectPassword", "WrongUsername"}

ButtonTag == {"CreateNewProjectTag", "ViewExistingProjectTag",
              "GenerateReportTag", "ViewTriggersTag"}

\* The main thread inside a handler, and between two.
Attempt == {"init", "connect", "name", "password"}
Busy == Attempt \cup {"open", "work"}
Idle == {"login", "menu", "screen"}
Where == Busy \cup Idle \cup {"off"}

\* The seconds after which the HUD goes and the answer comes.
HudDelay == 1

\* Mutant of AnswerDelay: the answer put off by three seconds.
AnswerDelayThree == 3

AnswerDelay == 2

\* No answer is late by more than the main thread is busy; ages stop counting.
MaxAge == 3

AnswerType == [age : 0..MaxAge, verdict : UserLoginType]

TypeOK ==
    /\ ConnTypeOK
    /\ user \in Password \cup {NoUser}
    /\ pc \in [Device -> Where]
    /\ shared \in [Device -> BOOLEAN]
    /\ typed \in [Device -> Typed \cup {NULL}]
    /\ hud \in [Device -> BOOLEAN]
    /\ pending \in [Device -> Seq(AnswerType)]
    /\ alert \in [Device -> BOOLEAN]
    /\ seen \in [Device -> SUBSET (Password \cup {NoUser})]
    /\ handlers \in [Device -> Nat]
    /\ dropped \in [Device -> 0..MaxDrops]

Init ==
    /\ ConnInit
    /\ user \in Password \cup {NoUser}
    /\ pc = [d \in Device |-> "off"]
    /\ shared = [d \in Device |-> FALSE]
    /\ typed = [d \in Device |-> NULL]
    /\ hud = [d \in Device |-> FALSE]
    /\ pending = [d \in Device |-> <<>>]
    /\ alert = [d \in Device |-> FALSE]
    /\ seen = [d \in Device |-> {}]
    /\ handlers = [d \in Device |-> 0]
    /\ dropped = [d \in Device |-> 0]

Goto(d, where) == pc' = [pc EXCEPT ![d] = where]

\* An answer or the end of the HUD is due, and comes before the next touch.
AnswerDue(d) == pending[d] # <<>> /\ Head(pending[d]).age >= AnswerDelay
HudDue(d) == hud[d] /\ pending[d] # <<>> /\ pending[d][Len(pending[d])].age >= HudDelay
Quiet(d) == pc[d] \in Idle /\ ~AnswerDue(d) /\ ~HudDue(d)

-----------------------------------------------------------------------------
(* The process. *)

Launch(d) ==
    /\ pc[d] = "off"
    /\ Goto(d, "login")
    /\ UNCHANGED <<connections, user, screens, seen, counts>>

\* The process ends: the user or the system ends it, or an exception that
\* nothing catches.
Exit(d) ==
    /\ Goto(d, "off")
    /\ HangUp(d)
    /\ shared' = [shared EXCEPT ![d] = FALSE]
    /\ typed' = [typed EXCEPT ![d] = NULL]
    /\ hud' = [hud EXCEPT ![d] = FALSE]
    /\ pending' = [pending EXCEPT ![d] = <<>>]
    /\ alert' = [alert EXCEPT ![d] = FALSE]
    /\ seen' = [seen EXCEPT ![d] = {}]
    /\ handlers' = [handlers EXCEPT ![d] = 0]
    /\ dropped' = [dropped EXCEPT ![d] = 0]
    /\ UNCHANGED user

Kill(d) == pc[d] # "off" /\ Exit(d)

\* mysql_real_connect fails, at the latest when the server has no connection
\* left, or mysql_query does: the exception ends the process.
CallRaises(d) == pc[d] \in Busy /\ Exit(d)

-----------------------------------------------------------------------------
(* The login screen. *)

\* Mutant of Press: the password is not hashed.
PressPlain(d, w) ==
    /\ pc[d] = "login" /\ Quiet(d)
    /\ ~hud[d] /\ ~alert[d]
    /\ Goto(d, IF shared[d] THEN "connect" ELSE "init")
    /\ hud' = [hud EXCEPT ![d] = TRUE]
    /\ typed' = [typed EXCEPT ![d] = <<w>>]
    /\ seen' = [seen EXCEPT ![d] = {user}]
    /\ UNCHANGED <<connections, user, shared, pending, alert, counts>>

\* login: the HUD comes up, the text fields are read and the password hashed.
\* The first press makes the shared connector.
Press(d, w) ==
    /\ pc[d] = "login" /\ Quiet(d)
    /\ ~hud[d] /\ ~alert[d]
    /\ Goto(d, IF shared[d] THEN "connect" ELSE "init")
    /\ hud' = [hud EXCEPT ![d] = TRUE]
    /\ typed' = [typed EXCEPT ![d] = w]
    /\ seen' = [seen EXCEPT ![d] = {user}]
    /\ UNCHANGED <<connections, user, shared, pending, alert, counts>>

\* init of the connector, which connects before loginUserToDatabase does.
CreateConnector(d) ==
    /\ pc[d] = "init"
    /\ Connect(d)
    /\ shared' = [shared EXCEPT ![d] = TRUE]
    /\ Goto(d, "connect")
    /\ UNCHANGED <<user, typed, hud, pending, alert, seen, counts>>

ConnectForLogin(d) ==
    /\ pc[d] = "connect"
    /\ Connect(d)
    /\ Goto(d, "name")
    /\ UNCHANGED <<user, screens, seen, counts>>

\* The verdict returns through the handler: the HUD and the answer are timed
\* from here, and the main thread is free.
Conclude(d, verdict) ==
    /\ pending' = [pending EXCEPT ![d] = Append(@, [age |-> 0, verdict |-> verdict])]
    /\ handlers' = [handlers EXCEPT ![d] = @ + 1]
    /\ typed' = [typed EXCEPT ![d] = NULL]
    /\ seen' = [seen EXCEPT ![d] = {}]
    /\ Goto(d, "login")
    /\ UNCHANGED <<user, shared, hud, alert, dropped>>

\* Mutant of NameUnknown: the early return leaves the connection in place.
NameUnknownConnected(d) ==
    /\ pc[d] = "name" /\ Connected(d)
    /\ user = NoUser
    /\ UNCHANGED connections
    /\ Conclude(d, "WrongUsername")

\* Mutant of NameUnknown: no alert for a name that is not recognized.
NameUnknownSilent(d) ==
    /\ pc[d] = "name" /\ Connected(d)
    /\ user = NoUser
    /\ Release(d)
    /\ handlers' = [handlers EXCEPT ![d] = @ + 1]
    /\ typed' = [typed EXCEPT ![d] = NULL]
    /\ seen' = [seen EXCEPT ![d] = {}]
    /\ Goto(d, "login")
    /\ UNCHANGED <<user, shared, hud, pending, alert, dropped>>

\* The id is asked for and the name is not in the table.
NameUnknown(d) ==
    /\ pc[d] = "name" /\ Connected(d)
    /\ user = NoUser
    /\ Release(d)
    /\ Conclude(d, "WrongUsername")

NameKnown(d) ==
    /\ pc[d] = "name" /\ Connected(d)
    /\ user # NoUser
    /\ Goto(d, "password")
    /\ UNCHANGED <<connections, user, screens, seen, counts>>

\* Mutant of ComparePasswords: the BOOL of isPasswordEqual: is returned as the
\* UserLoginType, whose values 0 and 1 are SuccessfulLogin and IncorrectPassword.
ComparePasswordsBool(d) ==
    /\ pc[d] = "password" /\ Connected(d)
    /\ Release(d)
    /\ Conclude(d, IF user = typed[d] THEN "IncorrectPassword" ELSE "SuccessfulLogin")

\* The password is asked for in a query of its own; the row may be gone, and
\* then nil is compared.
ComparePasswords(d) ==
    /\ pc[d] = "password" /\ Connected(d)
    /\ Release(d)
    /\ Conclude(d, IF user = typed[d] THEN "SuccessfulLogin" ELSE "IncorrectPassword")

\* The HUD goes one second after the verdict.
DismissHud(d) ==
    /\ pc[d] \in Idle /\ HudDue(d)
    /\ hud' = [hud EXCEPT ![d] = FALSE]
    /\ UNCHANGED <<connections, user, pc, shared, typed, pending, alert, seen, counts>>

\* The answer comes two seconds after the verdict.  The menu is presented over
\* the login screen; a second presentation is refused.
Answer(d) ==
    /\ pc[d] \in Idle /\ AnswerDue(d)
    /\ pending' = [pending EXCEPT ![d] = Tail(@)]
    /\ IF Head(pending[d]).verdict = "SuccessfulLogin"
       THEN /\ Goto(d, IF pc[d] = "login" THEN "menu" ELSE pc[d])
            /\ UNCHANGED alert
       ELSE /\ alert' = [alert EXCEPT ![d] = TRUE]
            /\ UNCHANGED pc
    /\ UNCHANGED <<connections, user, shared, typed, hud, seen, counts>>

CloseAlert(d) ==
    /\ Quiet(d) /\ alert[d]
    /\ alert' = [alert EXCEPT ![d] = FALSE]
    /\ UNCHANGED <<connections, user, pc, shared, typed, hud, pending, seen, counts>>

-----------------------------------------------------------------------------
(* The menu. *)

\* A button of the menu: its screen appears, and the handlers of all but the
\* criteria of a report begin with a connection.
OpenScreen(d, button) ==
    /\ pc[d] = "menu" /\ Quiet(d) /\ ~alert[d]
    /\ Goto(d, IF button = "GenerateReportTag" THEN "screen" ELSE "open")
    /\ UNCHANGED <<connections, user, screens, seen, counts>>

\* A screen goes on to another handler that talks to the server: a search, a
\* save, a report, a project, a screen that appears again.
RunHandler(d) ==
    /\ pc[d] = "screen" /\ Quiet(d) /\ ~alert[d]
    /\ Goto(d, "open")
    /\ UNCHANGED <<connections, user, screens, seen, counts>>

\* Each of them connects for itself.
ConnectForScreen(d) ==
    /\ pc[d] = "open"
    /\ Connect(d)
    /\ Goto(d, "work")
    /\ UNCHANGED <<user, screens, seen, counts>>

\* Its queries are done; the other modules say what they are.
FinishScreen(d) ==
    /\ pc[d] = "work" /\ Connected(d)
    /\ Release(d)
    /\ handlers' = [handlers EXCEPT ![d] = @ + 1]
    /\ Goto(d, "screen")
    /\ UNCHANGED <<user, screens, seen, dropped>>

Back(d) ==
    /\ pc[d] = "screen" /\ Quiet(d) /\ ~alert[d]
    /\ Goto(d, "menu")
    /\ UNCHANGED <<connections, user, screens, seen, counts>>

-----------------------------------------------------------------------------
(* The rest of the world. *)

Older(answers) ==
    [i \in DOMAIN answers |->
        [answers[i] EXCEPT !.age = IF @ < AnswerDelay THEN @ + 1 ELSE @]]

\* A second passes.  What is due waits only for a busy main thread.
Tick(d) ==
    /\ pc[d] \in Busy \/ Quiet(d)
    /\ \E i \in DOMAIN pending[d] : pending[d][i].age < AnswerDelay
    /\ pending' = [pending EXCEPT ![d] = Older(@)]
    /\ UNCHANGED <<connections, user, pc, shared, typed, hud, alert, seen, counts>>

\* Somebody adds or removes the user, or changes the password.
ChangeUser(u) ==
    /\ user' = u
    /\ seen' = [d \in Device |-> IF pc[d] \in Attempt THEN seen[d] \cup {u} ELSE seen[d]]
    /\ UNCHANGED <<connections, pc, screens, counts>>

ServerDrops(c) ==
    /\ Drop(c)
    /\ dropped[owner[c]] < MaxDrops
    /\ dropped' = [dropped EXCEPT ![owner[c]] = @ + 1]
    /\ UNCHANGED <<user, pc, screens, seen, handlers>>

-----------------------------------------------------------------------------

\* What the main thread and the clock of a device do without the user.
Step(d) ==
    \/ CallRaises(d)
    \/ CreateConnector(d)
    \/ ConnectForLogin(d)
    \/ NameUnknown(d)
    \/ NameKnown(d)
    \/ ComparePasswords(d)
    \/ DismissHud(d)
    \/ Answer(d)
    \/ ConnectForScreen(d)
    \/ FinishScreen(d)
    \/ Tick(d)

Next ==
    \/ \E d \in Device : Launch(d)
    \/ \E d \in Device : Kill(d)
    \/ \E d \in Device, w \in Typed : Press(d, w)
    \/ \E d \in Device : Step(d)
    \/ \E d \in Device : CloseAlert(d)
    \/ \E d \in Device, button \in ButtonTag : OpenScreen(d, button)
    \/ \E d \in Device : RunHandler(d)
    \/ \E d \in Device : Back(d)
    \/ \E u \in Password \cup {NoUser} : ChangeUser(u)
    \/ \E c \in Conn : ServerDrops(c)

Spec == Init /\ [][Next]_vars /\ \A d \in Device : WF_vars(Step(d))

-----------------------------------------------------------------------------
(* Properties. *)

\* What one look at the table would have answered.
Judge(u, w) ==
    IF u = NoUser THEN "WrongUsername"
    ELSE IF u = w THEN "SuccessfulLogin" ELSE "IncorrectPassword"

Concludes(d) == Len(pending'[d]) > Len(pending[d])

\* The two queries of loginUserToDatabase answer like one look at the table, at
\* some moment of the attempt, although the user may be changed between them;
\* the one exception is a user who is removed during the attempt, who may be
\* told that the right password is wrong.
VerdictTrue ==
    [][\A d \in Device : Concludes(d) =>
         LET verdict == pending'[d][Len(pending'[d])].verdict
         IN  \/ \E u \in seen[d] : verdict = Judge(u, typed[d])
             \/ verdict = "IncorrectPassword" /\ {typed[d], NoUser} \subseteq seen[d]]_vars

\* The second between the end of the HUD and the answer lets the user press
\* again, but never a third time: at most two answers are on their way, and
\* once the menu is up at most one comes late, over whatever screen is there.
TwoAnswersAtMost ==
    \A d \in Device :
        /\ Len(pending[d]) <= 2
        /\ pc[d] \notin Attempt \cup {"login"} => Len(pending[d]) <= 1

\* The place of the shared connector is filled while a handler queries and empty
\* between handlers, on every path through loginUserToDatabase: no query finds
\* nil, and none runs on what an earlier handler left behind.
ConnectionPerHandler ==
    \A d \in Device :
        slot[d] # NULL <=> \/ pc[d] \in {"name", "password", "work"}
                           \/ pc[d] = "connect" /\ handlers[d] = 0

\* What nil does not close adds up: between handlers a device holds one
\* connection for every handler it has ended and one for the making of the
\* connector, except those the server has ended.
EveryHandlerCostsOne ==
    \A d \in Device :
        pc[d] \in Idle =>
            Cardinality(Held(d)) + dropped[d] =
                IF handlers[d] = 0 THEN 0 ELSE handlers[d] + 1

\* The HUD swallows every touch, so it must never outlive its end: whenever it
\* is over the login screen between two handlers, the end of it is still to come,
\* although login leaves on three paths and answers of an earlier attempt come
\* in between.
HudHasTimer ==
    \A d \in Device :
        hud[d] /\ pc[d] = "login" =>
            /\ pending[d] # <<>>
            /\ pending[d][Len(pending[d])].age <= HudDelay

\* Login is answered: the menu or an alert follows, or the process ends.
LoginAnswered(d) ==
    pc[d] \in Attempt ~> alert[d] \/ pc[d] \notin Attempt \cup {"login"}
=============================================================================
