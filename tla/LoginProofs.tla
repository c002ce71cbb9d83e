---------------------------- MODULE LoginProofs ----------------------------
(***************************************************************************)
(* Proofs about Login, for any devices, connections, hashes and bounds:    *)
(* answers never pile up, a handler always has a connection of its own,    *)
(* none is given back, and the two queries judge like one.                 *)
(***************************************************************************)
EXTENDS Login, FiniteSetTheorems, TLAPS

\* A second more: every answer that is not due is one older.
LEMMA OlderAnswers ==
    ASSUME NEW answers \in Seq(AnswerType)
    PROVE  /\ Older(answers) \in Seq(AnswerType)
           /\ Len(Older(answers)) = Len(answers)
           /\ \A i \in 1..Len(answers) :
                Older(answers)[i].age = IF answers[i].age < AnswerDelay
                                        THEN answers[i].age + 1 ELSE answers[i].age
<1>1. DOMAIN answers = 1..Len(answers) /\ Len(answers) \in Nat
  OBVIOUS
<1>2. \A i \in 1..Len(answers) : answers[i] \in AnswerType
  OBVIOUS
<1>3. \A i \in 1..Len(answers) :
        [answers[i] EXCEPT !.age = IF @ < AnswerDelay THEN @ + 1 ELSE @] \in AnswerType
  BY <1>2 DEF AnswerType, AnswerDelay, MaxAge
<1>4. Older(answers) \in [1..Len(answers) -> AnswerType]
  BY <1>1, <1>3 DEF Older
<1>5. Older(answers) \in Seq(AnswerType) /\ Len(Older(answers)) = Len(answers)
  BY <1>1, <1>4
<1>6. \A i \in 1..Len(answers) :
        Older(answers)[i] = [answers[i] EXCEPT !.age = IF @ < AnswerDelay THEN @ + 1 ELSE @]
  BY <1>1 DEF Older
<1> QED
  BY <1>2, <1>5, <1>6 DEF AnswerType

\* A new connection is one that nobody held.
LEMMA NextFreeIsFree == ASSUME Free # {} PROVE NextFree \in Conn /\ owner[NextFree] = NULL
BY DEF NextFree, Free

\* What the three ways to change the connections do to their types.
LEMMA ConnectionsTyped ==
    ASSUME ConnTypeOK, NEW d \in Device,
           \/ Connect(d) \/ Release(d) \/ HangUp(d) \/ UNCHANGED connections
           \/ \E c \in Conn : Drop(c)
    PROVE  ConnTypeOK'
<1>1. CASE Connect(d)
  BY <1>1, NextFreeIsFree DEF Connect, ConnTypeOK
<1>2. CASE Release(d) \/ HangUp(d) \/ UNCHANGED connections \/ \E c \in Conn : Drop(c)
  BY <1>2 DEF Release, HangUp, Drop, connections, ConnTypeOK
<1> QED
  BY <1>1, <1>2

\* Screens, answers and counts keep to their types.
THEOREM LoginTyped == Spec => []TypeOK
<1>1. Init => TypeOK
  BY DropsAssumption DEF Init, TypeOK, ConnInit, ConnTypeOK, Where
<1>2. TypeOK /\ [Next]_vars => TypeOK'
  <2> SUFFICES ASSUME TypeOK, [Next]_vars PROVE TypeOK'
    OBVIOUS
  <2> USE DEF Goto, Where, Busy, Idle, Attempt
  <2>1. ASSUME NEW d \in Device, Launch(d) PROVE TypeOK'
    BY <2>1, ConnectionsTyped DEF Launch, TypeOK, screens, counts
  <2>2. ASSUME NEW d \in Device, Exit(d) PROVE TypeOK'
    <3>1. ConnTypeOK'
      BY <2>2, ConnectionsTyped DEF Exit, TypeOK
    <3>2. pending' \in [Device -> Seq(AnswerType)]
      BY <2>2 DEF Exit, TypeOK
    <3>3. seen' \in [Device -> SUBSET (Password \cup {NoUser})]
      BY <2>2 DEF Exit, TypeOK
    <3>4. handlers' \in [Device -> Nat] /\ dropped' \in [Device -> 0..MaxDrops]
      BY <2>2, DropsAssumption DEF Exit, TypeOK
    <3> QED
      BY <2>2, <3>1, <3>2, <3>3, <3>4 DEF Exit, TypeOK
  <2>3. ASSUME NEW d \in Device, NEW w \in Typed, Press(d, w) PROVE TypeOK'
    BY <2>3, ConnectionsTyped DEF Press, TypeOK, counts
  <2>4. ASSUME NEW d \in Device,
               CreateConnector(d) \/ ConnectForLogin(d) \/ ConnectForScreen(d)
        PROVE  TypeOK'
    BY <2>4, ConnectionsTyped DEF CreateConnector, ConnectForLogin, ConnectForScreen, TypeOK,
                                  screens, counts
  <2>5. ASSUME NEW d \in Device, NameUnknown(d) \/ ComparePasswords(d) PROVE TypeOK'
    <3>1. PICK verdict \in UserLoginType : Conclude(d, verdict)
      BY <2>5 DEF NameUnknown, ComparePasswords, UserLoginType
    <3>2. ConnTypeOK'
      BY <2>5, ConnectionsTyped DEF NameUnknown, ComparePasswords, TypeOK
    <3>3. [age |-> 0, verdict |-> verdict] \in AnswerType
      BY DEF MaxAge, AnswerType
    <3>4. Append(pending[d], [age |-> 0, verdict |-> verdict]) \in Seq(AnswerType)
      BY <3>3 DEF TypeOK
    <3>5. pending' \in [Device -> Seq(AnswerType)]
      BY <3>1, <3>4 DEF Conclude, TypeOK
    <3>6. handlers' \in [Device -> Nat] /\ pc' \in [Device -> Where]
      BY <3>1 DEF Conclude, TypeOK
    <3>7. seen' \in [Device -> SUBSET (Password \cup {NoUser})]
      BY <3>1 DEF Conclude, TypeOK
    <3> QED
      BY <3>1, <3>2, <3>5, <3>6, <3>7 DEF Conclude, TypeOK
  <2>6. ASSUME NEW d \in Device, NameKnown(d) \/ DismissHud(d) \/ CloseAlert(d) \/ RunHandler(d) \/ Back(d)
        PROVE  TypeOK'
    BY <2>6, ConnectionsTyped DEF NameKnown, DismissHud, CloseAlert, RunHandler, Back, TypeOK,
                                  screens, counts
  <2>7. ASSUME NEW d \in Device, Answer(d) PROVE TypeOK'
    <3>1. pending[d] \in Seq(AnswerType) /\ pending[d] # <<>>
      BY <2>7 DEF Answer, AnswerDue, TypeOK
    <3>2. Tail(pending[d]) \in Seq(AnswerType)
      BY <3>1
    <3>3. pending' \in [Device -> Seq(AnswerType)]
      BY <2>7, <3>2 DEF Answer, TypeOK
    <3> QED
      BY <2>7, <3>3, ConnectionsTyped DEF Answer, TypeOK, counts
  <2>8. ASSUME NEW d \in Device, NEW button \in ButtonTag, OpenScreen(d, button) PROVE TypeOK'
    BY <2>8, ConnectionsTyped DEF OpenScreen, TypeOK, screens, counts
  <2>9. ASSUME NEW d \in Device, FinishScreen(d) PROVE TypeOK'
    <3>1. ConnTypeOK'
      BY <2>9, ConnectionsTyped DEF FinishScreen, TypeOK
    <3>2. handlers' \in [Device -> Nat] /\ pc' \in [Device -> Where]
      BY <2>9 DEF FinishScreen, TypeOK
    <3> QED
      BY <2>9, <3>1, <3>2 DEF FinishScreen, TypeOK, screens
  <2>10. ASSUME NEW d \in Device, Tick(d) PROVE TypeOK'
    <3>1. pending' \in [Device -> Seq(AnswerType)]
      BY <2>10, OlderAnswers DEF Tick, TypeOK
    <3> QED
      BY <2>10, <3>1, ConnectionsTyped DEF Tick, TypeOK, counts
  <2>11. ASSUME NEW u \in Password \cup {NoUser}, ChangeUser(u) PROVE TypeOK'
    BY <2>11 DEF ChangeUser, TypeOK, ConnTypeOK, connections, screens, counts
  <2>12. ASSUME NEW c \in Conn, ServerDrops(c) PROVE TypeOK'
    <3>1. owner[c] \in Device
      BY <2>12 DEF ServerDrops, Drop, TypeOK, ConnTypeOK
    <3>2. ConnTypeOK'
      BY <2>12, <3>1, ConnectionsTyped DEF ServerDrops, TypeOK
    <3>3. dropped[owner[c]] + 1 \in 0..MaxDrops
      BY <2>12, <3>1, DropsAssumption DEF ServerDrops, TypeOK
    <3>4. dropped' \in [Device -> 0..MaxDrops]
      BY <2>12, <3>1, <3>3 DEF ServerDrops, TypeOK
    <3> QED
      BY <2>12, <3>2, <3>4 DEF ServerDrops, TypeOK, screens
  <2>13. CASE UNCHANGED vars
    BY <2>13 DEF vars, TypeOK, ConnTypeOK, connections, screens, counts
  <2> QED
    BY <2>1, <2>2, <2>3, <2>4, <2>5, <2>6, <2>7, <2>8, <2>9, <2>10, <2>11, <2>12, <2>13
       DEF Next, Step, Kill, CallRaises
<1> QED
  BY <1>1, <1>2, PTL DEF Spec

-----------------------------------------------------------------------------
(* Answers on their way. *)

Count(answers) == Len(answers)
Age(answers, i) == answers[i].age

\* A second answer is behind the first by as much as the HUD was up, an attempt
\* begins with at most one to come, and without the HUD the last is a second old.
Spaced(d) ==
    LET n == Count(pending[d])
        age(i) == Age(pending[d], i)
    IN  /\ n <= 2
        /\ n = 2 => /\ pc[d] = "login"
                    /\ age(1) >= AnswerDelay \/ age(1) > age(2)
        /\ pc[d] \in Attempt => /\ hud[d]
                                /\ n = 1 => age(1) >= HudDelay
        /\ ~hud[d] /\ n > 0 => age(n) >= HudDelay

\* Counting and ages under the operations on the answers to come.
LEMMA CountTyped ==
    ASSUME NEW q \in Seq(AnswerType)
    PROVE  /\ Count(q) \in Nat
           /\ q = <<>> <=> Count(q) = 0
           /\ \A i \in 1..Count(q) : Age(q, i) \in Nat
           /\ q # <<>> => Head(q).age = Age(q, 1)
<1>1. \A i \in 1..Len(q) : q[i] \in AnswerType
  OBVIOUS
<1> QED
  BY <1>1 DEF Count, Age, AnswerType, MaxAge

LEMMA AppendAges ==
    ASSUME NEW q \in Seq(AnswerType), NEW r \in AnswerType
    PROVE  /\ Count(Append(q, r)) = Count(q) + 1
           /\ Age(Append(q, r), Count(q) + 1) = r.age
           /\ \A i \in 1..Count(q) : Age(Append(q, r), i) = Age(q, i)
BY DEF Count, Age

LEMMA TailAges ==
    ASSUME NEW q \in Seq(AnswerType), q # <<>>
    PROVE  /\ Count(Tail(q)) = Count(q) - 1
           /\ \A i \in 1..(Count(q) - 1) : Age(Tail(q), i) = Age(q, i + 1)
BY DEF Count, Age

LEMMA OlderAges ==
    ASSUME NEW q \in Seq(AnswerType)
    PROVE  /\ Count(Older(q)) = Count(q)
           /\ \A i \in 1..Count(q) :
                Age(Older(q), i) = IF Age(q, i) < AnswerDelay THEN Age(q, i) + 1 ELSE Age(q, i)
BY OlderAnswers DEF Count, Age

\* The spacing of the answers is kept by presses, verdicts, seconds and answers.
LEMMA SpacedInvariance == Spec => [](\A d \in Device : Spaced(d))
<1> USE DEF HudDelay, AnswerDelay, Goto, Busy, Idle, Attempt
<1>1. Init => \A d \in Device : Spaced(d)
  BY DEF Init, Spaced, Count
<1>2. TypeOK /\ (\A d \in Device : Spaced(d)) /\ [Next]_vars => (\A d \in Device : Spaced(d))'
  <2> SUFFICES ASSUME TypeOK, \A d \in Device : Spaced(d), [Next]_vars, NEW e \in Device
               PROVE  Spaced(e)'
    OBVIOUS
  <2> DEFINE q == pending[e]
  <2>0. q \in Seq(AnswerType) /\ Spaced(e) /\ hud[e] \in BOOLEAN
    BY DEF TypeOK
  <2>1. /\ Count(q) \in Nat /\ (q = <<>> <=> Count(q) = 0)
        /\ \A i \in 1..Count(q) : Age(q, i) \in Nat
        /\ q # <<>> => Head(q).age = Age(q, 1)
    BY <2>0, CountTyped
  <2> HIDE DEF q
  <2>2. /\ Count(q) <= 2
        /\ Count(q) = 2 => /\ pc[e] = "login"
                           /\ Age(q, 1) >= AnswerDelay \/ Age(q, 1) > Age(q, 2)
        /\ pc[e] \in Attempt => hud[e] /\ (Count(q) = 1 => Age(q, 1) >= HudDelay)
        /\ ~hud[e] /\ Count(q) > 0 => Age(q, Count(q)) >= HudDelay
    BY <2>0 DEF q, Spaced
  <2>3. ASSUME pending'[e] = pending[e], hud'[e] = hud[e],
               \/ pc'[e] = pc[e]
               \/ pc'[e] \notin Attempt /\ pc[e] # "login"
               \/ pc'[e] \in Attempt /\ pc[e] \in Attempt
        PROVE  Spaced(e)'
    BY <2>2, <2>3 DEF q, Spaced
  <2>4. ASSUME NEW d \in Device, Exit(d) PROVE Spaced(e)'
    <3>1. CASE e = d
      <4>1. pending'[e] = <<>> /\ pc'[e] = "off"
        BY <2>4, <3>1 DEF Exit, TypeOK
      <4>2. Count(<<>>) = 0
        BY DEF Count
      <4> QED
        BY <4>1, <4>2 DEF Spaced
    <3>2. CASE e # d
      BY <2>3, <2>4, <3>2 DEF Exit, TypeOK
    <3> QED
      BY <3>1, <3>2
  <2>5. ASSUME NEW d \in Device, NEW w \in Typed, Press(d, w) PROVE Spaced(e)'
    <3>1. CASE e = d
      <4>1. /\ ~hud[e] /\ pending'[e] = q /\ hud'[e] /\ pc[e] = "login"
            /\ q # <<>> => ~(Age(q, 1) >= AnswerDelay)
        BY <2>1, <2>5, <3>1 DEF q, Press, Quiet, AnswerDue, TypeOK
      <4>2. Count(q) <= 1 /\ (Count(q) = 1 => Age(q, 1) >= HudDelay)
        BY <2>1, <2>2, <4>1
      <4> QED
        BY <2>1, <4>1, <4>2 DEF Spaced
    <3>2. CASE e # d
      BY <2>3, <2>5, <3>2 DEF Press, TypeOK
    <3> QED
      BY <3>1, <3>2
  <2>6. ASSUME NEW d \in Device, NameUnknown(d) \/ ComparePasswords(d) PROVE Spaced(e)'
    <3>1. PICK verdict \in UserLoginType : Conclude(d, verdict)
      BY <2>6 DEF NameUnknown, ComparePasswords, UserLoginType
    <3>2. CASE e = d
      <4> DEFINE r == [age |-> 0, verdict |-> verdict]
      <4>1. pending'[e] = Append(q, r) /\ pc'[e] = "login" /\ hud'[e] = hud[e] /\ pc[e] \in Attempt
        BY <2>6, <3>1, <3>2 DEF q, NameUnknown, ComparePasswords, Conclude, TypeOK
      <4>2. hud[e] /\ Count(q) <= 1 /\ (Count(q) = 1 => Age(q, 1) >= HudDelay)
        BY <2>1, <2>2, <4>1
      <4>3. r \in AnswerType /\ r.age = 0
        BY DEF AnswerType, MaxAge
      <4> HIDE DEF r
      <4>4. /\ Count(Append(q, r)) = Count(q) + 1 /\ Age(Append(q, r), Count(q) + 1) = 0
            /\ \A i \in 1..Count(q) : Age(Append(q, r), i) = Age(q, i)
        BY <2>0, <4>3, AppendAges DEF q
      <4> QED
        BY <2>1, <4>1, <4>2, <4>4 DEF Spaced
    <3>3. CASE e # d
      BY <2>3, <3>1, <3>3 DEF Conclude, TypeOK
    <3> QED
      BY <3>2, <3>3
  <2>7. ASSUME NEW d \in Device, DismissHud(d) PROVE Spaced(e)'
    <3>1. CASE e = d
      <4>1. /\ pending'[e] = q /\ pc'[e] = pc[e] /\ pc[e] \in Idle /\ q # <<>>
            /\ Age(q, Count(q)) >= HudDelay
        BY <2>7, <3>1 DEF q, DismissHud, HudDue, TypeOK, Age, Count
      <4> QED
        BY <2>1, <2>2, <4>1 DEF Spaced
    <3>2. CASE e # d
      BY <2>3, <2>7, <3>2 DEF DismissHud, TypeOK
    <3> QED
      BY <3>1, <3>2
  <2>8. ASSUME NEW d \in Device, Answer(d) PROVE Spaced(e)'
    <3>1. CASE e = d
      <4>1. /\ pending'[e] = Tail(q) /\ hud'[e] = hud[e] /\ q # <<>>
            /\ pc'[e] \notin Attempt
        BY <2>8, <3>1 DEF q, Answer, AnswerDue, TypeOK
      <4>2. /\ Count(Tail(q)) = Count(q) - 1
            /\ \A i \in 1..(Count(q) - 1) : Age(Tail(q), i) = Age(q, i + 1)
        BY <2>0, <4>1, TailAges DEF q
      <4>3. Count(q) = 1 \/ Count(q) = 2
        BY <2>1, <2>2, <4>1
      <4>4. CASE Count(q) = 1
        BY <4>1, <4>2, <4>4 DEF Spaced
      <4>5. CASE Count(q) = 2
        <5>1. Count(Tail(q)) = 1 /\ Age(Tail(q), 1) = Age(q, 2)
          BY <4>2, <4>5
        <5> QED
          BY <2>2, <4>1, <4>5, <5>1 DEF Spaced
      <4> QED
        BY <4>3, <4>4, <4>5
    <3>2. CASE e # d
      BY <2>3, <2>8, <3>2 DEF Answer, TypeOK
    <3> QED
      BY <3>1, <3>2
  <2>9. ASSUME NEW d \in Device, Tick(d) PROVE Spaced(e)'
    <3>1. CASE e = d
      <4>1. pending'[e] = Older(q) /\ hud'[e] = hud[e] /\ pc'[e] = pc[e]
        BY <2>9, <3>1 DEF q, Tick, TypeOK
      <4>2. /\ Count(Older(q)) = Count(q)
            /\ \A i \in 1..Count(q) :
                 Age(Older(q), i) = IF Age(q, i) < AnswerDelay THEN Age(q, i) + 1 ELSE Age(q, i)
        BY <2>0, OlderAges DEF q
      <4>3. Count(q) = 0 \/ Count(q) = 1 \/ Count(q) = 2
        BY <2>1, <2>2
      <4>4. CASE Count(q) = 0
        BY <2>2, <4>1, <4>2, <4>4 DEF Spaced
      <4>5. CASE Count(q) = 1
        BY <2>1, <2>2, <4>1, <4>2, <4>5 DEF Spaced
      <4>6. CASE Count(q) = 2
        BY <2>1, <2>2, <4>1, <4>2, <4>6 DEF Spaced
      <4> QED
        BY <4>3, <4>4, <4>5, <4>6
    <3>2. CASE e # d
      BY <2>3, <2>9, <3>2 DEF Tick, TypeOK
    <3> QED
      BY <3>1, <3>2
  <2>10. ASSUME NEW d \in Device,
                \/ Launch(d) \/ CreateConnector(d) \/ ConnectForLogin(d) \/ NameKnown(d)
                \/ CloseAlert(d) \/ RunHandler(d) \/ Back(d) \/ ConnectForScreen(d) \/ FinishScreen(d)
                \/ \E button \in ButtonTag : OpenScreen(d, button)
         PROVE  Spaced(e)'
    <3>1. pending' = pending /\ hud' = hud
      BY <2>10 DEF Launch, CreateConnector, ConnectForLogin, NameKnown, CloseAlert, RunHandler,
                   Back, ConnectForScreen, FinishScreen, OpenScreen, screens
    <3>2. \/ pc'[e] = pc[e]
          \/ pc'[e] \notin Attempt /\ pc[e] # "login"
          \/ pc'[e] \in Attempt /\ pc[e] \in Attempt
      BY <2>10 DEF TypeOK, Launch, CreateConnector, ConnectForLogin, NameKnown, CloseAlert,
                   RunHandler, Back, ConnectForScreen, FinishScreen, OpenScreen
    <3> QED
      BY <2>3, <3>1, <3>2
  <2>11. ASSUME \/ \E u \in Password \cup {NoUser} : ChangeUser(u)
                \/ \E c \in Conn : ServerDrops(c)
                \/ UNCHANGED vars
         PROVE  Spaced(e)'
    BY <2>3, <2>11 DEF ChangeUser, ServerDrops, vars, screens
  <2> QED
    BY <2>4, <2>5, <2>6, <2>7, <2>8, <2>9, <2>10, <2>11 DEF Next, Step, Kill, CallRaises
<1> QED
  BY <1>1, <1>2, LoginTyped, PTL DEF Spec

\* A third press before the first answer is out of reach, on every device.
THEOREM AnswersBounded == Spec => []TwoAnswersAtMost
<1>1. TypeOK /\ (\A d \in Device : Spaced(d)) => TwoAnswersAtMost
  <2> SUFFICES ASSUME TypeOK, NEW d \in Device, Spaced(d)
               PROVE  /\ Len(pending[d]) <= 2
                      /\ pc[d] \notin Attempt \cup {"login"} => Len(pending[d]) <= 1
    BY DEF TwoAnswersAtMost
  <2>1. pending[d] \in Seq(AnswerType)
    BY DEF TypeOK
  <2>2. Count(pending[d]) \in Nat
    BY <2>1, CountTyped
  <2>3. /\ Count(pending[d]) <= 2
        /\ pc[d] \notin Attempt \cup {"login"} => Count(pending[d]) <= 1
    BY <2>2 DEF Spaced
  <2> QED
    BY <2>3 DEF Count
<1> QED
  BY <1>1, LoginTyped, SpacedInvariance, PTL

-----------------------------------------------------------------------------
(* The end of the HUD. *)

\* The last answer to come is the one of the attempt that put up the HUD, and it
\* is no older than the HUD may be.
Timed(d) ==
    LET n == Count(pending[d])
    IN  /\ hud[d] /\ pc[d] = "login" => n > 0 /\ Age(pending[d], n) <= HudDelay
        /\ pc[d] = "off" => ~hud[d]

\* Time stops for what is due, and an answer that comes is older than the last.
LEMMA TimedInvariance == Spec => [](\A d \in Device : Timed(d))
<1> USE DEF HudDelay, AnswerDelay, Goto, Busy, Idle, Attempt
<1>1. Init => \A d \in Device : Timed(d)
  BY DEF Init, Timed
<1>2. TypeOK /\ (\A d \in Device : Timed(d)) /\ [Next]_vars => (\A d \in Device : Timed(d))'
  <2> SUFFICES ASSUME TypeOK, \A d \in Device : Timed(d), [Next]_vars, NEW e \in Device
               PROVE  Timed(e)'
    OBVIOUS
  <2> DEFINE q == pending[e]
  <2>0. q \in Seq(AnswerType) /\ Timed(e) /\ hud[e] \in BOOLEAN
    BY DEF TypeOK
  <2>1. /\ Count(q) \in Nat /\ (q = <<>> <=> Count(q) = 0)
        /\ \A i \in 1..Count(q) : Age(q, i) \in Nat
        /\ q # <<>> => Head(q).age = Age(q, 1)
    BY <2>0, CountTyped
  <2> HIDE DEF q
  <2>2. /\ hud[e] /\ pc[e] = "login" => Count(q) > 0 /\ Age(q, Count(q)) <= HudDelay
        /\ pc[e] = "off" => ~hud[e]
    BY <2>0 DEF q, Timed
  <2>3. ASSUME pending'[e] = pending[e], hud'[e] => hud[e],
               \/ pc'[e] = pc[e]
               \/ pc'[e] \notin {"login", "off"}
               \/ pc'[e] = "login" /\ pc[e] = "off"
        PROVE  Timed(e)'
    BY <2>2, <2>3 DEF q, Timed
  <2>4. ASSUME NEW d \in Device, Exit(d) PROVE Timed(e)'
    <3>1. CASE e = d
      BY <2>4, <3>1 DEF Exit, TypeOK, Timed
    <3>2. CASE e # d
      BY <2>3, <2>4, <3>2 DEF Exit, TypeOK
    <3> QED
      BY <3>1, <3>2
  <2>5. ASSUME NEW d \in Device, NEW w \in Typed, Press(d, w) PROVE Timed(e)'
    <3>1. CASE e = d
      BY <2>5, <3>1 DEF Press, TypeOK, Timed
    <3>2. CASE e # d
      BY <2>3, <2>5, <3>2 DEF Press, TypeOK
    <3> QED
      BY <3>1, <3>2
  <2>6. ASSUME NEW d \in Device, NameUnknown(d) \/ ComparePasswords(d) PROVE Timed(e)'
    <3>1. PICK verdict \in UserLoginType : Conclude(d, verdict)
      BY <2>6 DEF NameUnknown, ComparePasswords, UserLoginType
    <3>2. CASE e = d
      <4> DEFINE r == [age |-> 0, verdict |-> verdict]
      <4>1. pending'[e] = Append(q, r) /\ pc'[e] = "login"
        BY <3>1, <3>2 DEF q, Conclude, TypeOK
      <4>2. r \in AnswerType /\ r.age = 0
        BY DEF AnswerType, MaxAge
      <4> HIDE DEF r
      <4>3. Count(Append(q, r)) = Count(q) + 1 /\ Age(Append(q, r), Count(q) + 1) = 0
        BY <2>0, <4>2, AppendAges DEF q
      <4> QED
        BY <2>1, <4>1, <4>3 DEF Timed
    <3>3. CASE e # d
      BY <2>3, <3>1, <3>3 DEF Conclude, TypeOK
    <3> QED
      BY <3>2, <3>3
  <2>7. ASSUME NEW d \in Device, Answer(d) PROVE Timed(e)'
    <3>1. CASE e = d
      <4>1. /\ pending'[e] = Tail(q) /\ hud'[e] = hud[e] /\ q # <<>>
            /\ Age(q, 1) >= AnswerDelay
            /\ pc[e] \in Idle /\ (pc'[e] = pc[e] \/ pc'[e] = "menu")
        BY <2>1, <2>7, <3>1 DEF q, Answer, AnswerDue, TypeOK
      <4>2. /\ Count(Tail(q)) = Count(q) - 1
            /\ \A i \in 1..(Count(q) - 1) : Age(Tail(q), i) = Age(q, i + 1)
        BY <2>0, <4>1, TailAges DEF q
      <4>3. CASE hud[e] /\ pc'[e] = "login"
        <5>1. Count(q) > 1 /\ Age(q, Count(q)) <= HudDelay
          BY <2>1, <2>2, <4>1, <4>3
        <5>2. Age(Tail(q), Count(q) - 1) = Age(q, Count(q))
          BY <2>1, <4>2, <5>1
        <5> QED
          BY <2>1, <4>1, <4>2, <4>3, <5>1, <5>2 DEF Timed
      <4>4. CASE ~(hud[e] /\ pc'[e] = "login")
        BY <4>1, <4>4 DEF Timed
      <4> QED
        BY <4>3, <4>4
    <3>2. CASE e # d
      BY <2>3, <2>7, <3>2 DEF Answer, TypeOK
    <3> QED
      BY <3>1, <3>2
  <2>8. ASSUME NEW d \in Device, Tick(d) PROVE Timed(e)'
    <3>1. CASE e = d
      <4>1. /\ pending'[e] = Older(q) /\ hud'[e] = hud[e] /\ pc'[e] = pc[e]
            /\ pc[e] = "login" /\ hud[e] => ~HudDue(e)
            /\ pc[e] # "off"
        BY <2>8, <3>1 DEF q, Tick, Quiet, TypeOK
      <4>2. /\ Count(Older(q)) = Count(q)
            /\ \A i \in 1..Count(q) :
                 Age(Older(q), i) = IF Age(q, i) < AnswerDelay THEN Age(q, i) + 1 ELSE Age(q, i)
        BY <2>0, OlderAges DEF q
      <4>3. CASE hud[e] /\ pc[e] = "login"
        <5>1. Count(q) > 0 /\ Age(q, Count(q)) \in Nat /\ Age(q, Count(q)) < HudDelay
          BY <2>1, <2>2, <4>1, <4>3 DEF q, HudDue, Age, Count
        <5> QED
          BY <2>1, <4>1, <4>2, <4>3, <5>1 DEF Timed
      <4>4. CASE ~(hud[e] /\ pc[e] = "login")
        BY <4>1, <4>4 DEF Timed
      <4> QED
        BY <4>3, <4>4
    <3>2. CASE e # d
      BY <2>3, <2>8, <3>2 DEF Tick, TypeOK
    <3> QED
      BY <3>1, <3>2
  <2>9. ASSUME NEW d \in Device,
               \/ Launch(d) \/ CreateConnector(d) \/ ConnectForLogin(d) \/ NameKnown(d)
               \/ DismissHud(d) \/ CloseAlert(d) \/ RunHandler(d) \/ Back(d)
               \/ ConnectForScreen(d) \/ FinishScreen(d)
               \/ \E button \in ButtonTag : OpenScreen(d, button)
        PROVE  Timed(e)'
    <3>1. pending' = pending /\ (hud'[e] => hud[e])
      BY <2>9 DEF Launch, CreateConnector, ConnectForLogin, NameKnown, DismissHud, CloseAlert,
                  RunHandler, Back, ConnectForScreen, FinishScreen, OpenScreen, TypeOK, screens
    <3>2. \/ pc'[e] = pc[e]
          \/ pc'[e] \notin {"login", "off"}
          \/ pc'[e] = "login" /\ pc[e] = "off"
      BY <2>9 DEF TypeOK, Launch, CreateConnector, ConnectForLogin, NameKnown, DismissHud,
                  CloseAlert, RunHandler, Back, ConnectForScreen, FinishScreen, OpenScreen
    <3> QED
      BY <2>3, <3>1, <3>2
  <2>10. ASSUME \/ \E u \in Password \cup {NoUser} : ChangeUser(u)
                \/ \E c \in Conn : ServerDrops(c)
                \/ UNCHANGED vars
         PROVE  Timed(e)'
    BY <2>3, <2>10 DEF ChangeUser, ServerDrops, vars, screens
  <2> QED
    BY <2>4, <2>5, <2>6, <2>7, <2>8, <2>9, <2>10 DEF Next, Step, Kill, CallRaises
<1> QED
  BY <1>1, <1>2, LoginTyped, PTL DEF Spec

\* The HUD of every attempt goes, however its verdict and the answers of the
\* attempt before it fall in time.
THEOREM HudEnds == Spec => []HudHasTimer
<1>1. TypeOK /\ (\A d \in Device : Timed(d)) => HudHasTimer
  <2> SUFFICES ASSUME TypeOK, NEW d \in Device, Timed(d), hud[d], pc[d] = "login"
               PROVE  /\ pending[d] # <<>>
                      /\ pending[d][Len(pending[d])].age <= HudDelay
    BY DEF HudHasTimer
  <2>1. pending[d] \in Seq(AnswerType)
    BY DEF TypeOK
  <2>2. Count(pending[d]) > 0 /\ Age(pending[d], Count(pending[d])) <= HudDelay
    BY DEF Timed
  <2>3. pending[d] # <<>>
    BY <2>1, <2>2, CountTyped
  <2> QED
    BY <2>2, <2>3 DEF Count, Age
<1> QED
  BY <1>1, LoginTyped, TimedInvariance, PTL

-----------------------------------------------------------------------------
(* Connections. *)

\* The shared connector exists from the middle of the first attempt on, and its
\* place is filled exactly while a handler is at its queries.
Connector(d) ==
    /\ pending[d] # <<>> => shared[d]
    /\ pc[d] \in {"connect", "name", "password", "menu", "screen", "open", "work"} => shared[d]
    /\ ~shared[d] => handlers[d] = 0
    /\ shared[d] /\ pc[d] \notin {"connect", "name", "password"} => handlers[d] > 0
    /\ pc[d] = "init" => ~shared[d]
    /\ slot[d] # NULL <=> \/ pc[d] \in {"name", "password", "work"}
                          \/ pc[d] = "connect" /\ handlers[d] = 0

\* The first attempt fills the place twice and empties it once, the others fill
\* and empty it once.
LEMMA ConnectorInvariance == Spec => [](\A d \in Device : Connector(d))
<1> USE DEF Goto, Busy, Idle, Attempt
<1>1. Init => \A d \in Device : Connector(d)
  BY DEF Init, ConnInit, Connector
<1>2. TypeOK /\ (\A d \in Device : Connector(d)) /\ [Next]_vars => (\A d \in Device : Connector(d))'
  <2> SUFFICES ASSUME TypeOK, \A d \in Device : Connector(d), [Next]_vars, NEW e \in Device
               PROVE  Connector(e)'
    OBVIOUS
  <2>0. Connector(e) /\ handlers[e] \in Nat /\ shared[e] \in BOOLEAN
    BY DEF TypeOK
  <2>1. ASSUME pending'[e] = pending[e], shared'[e] = shared[e], pc'[e] = pc[e],
               handlers'[e] = handlers[e], slot'[e] = slot[e]
        PROVE  Connector(e)'
    BY <2>0, <2>1 DEF Connector
  <2>2. ASSUME NEW d \in Device, Connect(d)
        PROVE  slot'[d] # NULL /\ \A f \in Device \ {d} : slot'[f] = slot[f]
    BY <2>2, NextFreeIsFree, NullAssumption DEF Connect, TypeOK, ConnTypeOK
  <2>3. ASSUME NEW d \in Device, Release(d) \/ HangUp(d)
        PROVE  slot'[d] = NULL /\ \A f \in Device \ {d} : slot'[f] = slot[f]
    BY <2>3 DEF Release, HangUp, TypeOK, ConnTypeOK
  <2>4. ASSUME NEW d \in Device, Exit(d) PROVE Connector(e)'
    <3>1. CASE e = d
      BY <2>3, <2>4, <3>1 DEF Exit, TypeOK, Connector
    <3>2. CASE e # d
      BY <2>1, <2>3, <2>4, <3>2 DEF Exit, TypeOK
    <3> QED
      BY <3>1, <3>2
  <2>5. ASSUME NEW d \in Device, NEW w \in Typed, Press(d, w) PROVE Connector(e)'
    <3>1. CASE e = d
      BY <2>0, <2>5, <3>1 DEF Press, TypeOK, connections, counts, Connector
    <3>2. CASE e # d
      BY <2>1, <2>5, <3>2 DEF Press, TypeOK, connections, counts
    <3> QED
      BY <3>1, <3>2
  <2>6. ASSUME NEW d \in Device,
               CreateConnector(d) \/ ConnectForLogin(d) \/ ConnectForScreen(d)
        PROVE  Connector(e)'
    <3>1. CASE e = d
      <4>1. CASE CreateConnector(d)
        BY <2>0, <2>2, <3>1, <4>1 DEF CreateConnector, TypeOK, counts, Connector
      <4>2. CASE ConnectForLogin(d)
        BY <2>0, <2>2, <3>1, <4>2 DEF ConnectForLogin, TypeOK, screens, counts, Connector
      <4>3. CASE ConnectForScreen(d)
        BY <2>0, <2>2, <3>1, <4>3 DEF ConnectForScreen, TypeOK, screens, counts, Connector
      <4> QED
        BY <2>6, <4>1, <4>2, <4>3
    <3>2. CASE e # d
      BY <2>1, <2>2, <2>6, <3>2
         DEF CreateConnector, ConnectForLogin, ConnectForScreen, TypeOK, screens, counts
    <3> QED
      BY <3>1, <3>2
  <2>7. ASSUME NEW d \in Device, NameUnknown(d) \/ ComparePasswords(d) PROVE Connector(e)'
    <3>1. PICK verdict \in UserLoginType : Conclude(d, verdict)
      BY <2>7 DEF NameUnknown, ComparePasswords, UserLoginType
    <3>2. Release(d) /\ pc[d] \in {"name", "password"}
      BY <2>7 DEF NameUnknown, ComparePasswords
    <3>3. CASE e = d
      <4>1. /\ pc'[e] = "login" /\ shared'[e] = shared[e] /\ handlers'[e] = handlers[e] + 1
            /\ slot'[e] = NULL
        BY <2>3, <3>1, <3>2, <3>3 DEF Conclude, TypeOK
      <4> QED
        BY <2>0, <3>2, <3>3, <4>1 DEF Connector
    <3>4. CASE e # d
      BY <2>1, <2>3, <3>1, <3>2, <3>4 DEF Conclude, TypeOK
    <3> QED
      BY <3>3, <3>4
  <2>8. ASSUME NEW d \in Device, FinishScreen(d) PROVE Connector(e)'
    <3>1. CASE e = d
      <4>1. /\ pc[e] = "work" /\ pc'[e] = "screen" /\ shared'[e] = shared[e]
            /\ handlers'[e] = handlers[e] + 1 /\ slot'[e] = NULL
        BY <2>3, <2>8, <3>1 DEF FinishScreen, TypeOK, screens
      <4> QED
        BY <2>0, <4>1 DEF Connector
    <3>2. CASE e # d
      BY <2>1, <2>3, <2>8, <3>2 DEF FinishScreen, TypeOK, screens
    <3> QED
      BY <3>1, <3>2
  <2>9. ASSUME NEW d \in Device, Answer(d) PROVE Connector(e)'
    <3>1. CASE e = d
      <4>1. /\ pending[e] # <<>> /\ pc[e] \in Idle /\ pc'[e] \in {pc[e], "menu"}
            /\ shared'[e] = shared[e] /\ handlers'[e] = handlers[e] /\ slot'[e] = slot[e]
        BY <2>9, <3>1 DEF Answer, AnswerDue, TypeOK, connections, counts
      <4> QED
        BY <2>0, <4>1 DEF Connector
    <3>2. CASE e # d
      BY <2>1, <2>9, <3>2 DEF Answer, TypeOK, connections, counts
    <3> QED
      BY <3>1, <3>2
  <2>10. ASSUME NEW d \in Device, Tick(d) PROVE Connector(e)'
    <3>1. /\ pc'[e] = pc[e] /\ shared'[e] = shared[e] /\ handlers'[e] = handlers[e]
          /\ slot'[e] = slot[e]
          /\ pending'[e] # <<>> => pending[e] # <<>>
      <4>1. pending[d] # <<>>
        BY <2>10 DEF Tick
      <4> QED
        BY <2>10, <4>1 DEF Tick, TypeOK, connections, counts
    <3> QED
      BY <2>0, <3>1 DEF Connector
  <2>11. ASSUME NEW d \in Device,
                \/ Launch(d) \/ NameKnown(d) \/ DismissHud(d) \/ CloseAlert(d)
                \/ RunHandler(d) \/ Back(d) \/ \E button \in ButtonTag : OpenScreen(d, button)
         PROVE  Connector(e)'
    <3>1. /\ UNCHANGED <<slot, shared, pending, handlers>>
          /\ \/ pc'[e] = pc[e]
             \/ pc[e] = "off" /\ pc'[e] = "login"
             \/ pc[e] = "name" /\ pc'[e] = "password"
             \/ pc[e] \in {"menu", "screen"} /\ pc'[e] \in {"menu", "screen", "open"}
      BY <2>11 DEF Launch, NameKnown, DismissHud, CloseAlert, RunHandler, Back, OpenScreen,
                   TypeOK, connections, screens, counts
    <3> QED
      BY <2>0, <3>1 DEF Connector
  <2>12. ASSUME \/ \E u \in Password \cup {NoUser} : ChangeUser(u)
                \/ \E c \in Conn : ServerDrops(c)
                \/ UNCHANGED vars
         PROVE  Connector(e)'
    BY <2>1, <2>12 DEF ChangeUser, ServerDrops, Drop, vars, connections, screens, counts
  <2> QED
    BY <2>4, <2>5, <2>6, <2>7, <2>8, <2>9, <2>10, <2>11, <2>12 DEF Next, Step, Kill, CallRaises
<1> QED
  BY <1>1, <1>2, LoginTyped, PTL DEF Spec

\* No handler queries through nil or through what another one left.
THEOREM HandlersConnected == Spec => []ConnectionPerHandler
<1>1. (\A d \in Device : Connector(d)) => ConnectionPerHandler
  BY DEF Connector, ConnectionPerHandler
<1> QED
  BY <1>1, ConnectorInvariance, PTL

-----------------------------------------------------------------------------
(* What the handlers leave open. *)

\* The connections a device has been given: one for the connector, one for each
\* handler that has ended, and one for the handler that is at its queries.
Given(d) ==
    IF shared[d]
    THEN handlers[d] + 1 + (IF pc[d] \in {"name", "password", "work"} THEN 1 ELSE 0)
    ELSE 0

Counted(d) == IsFiniteSet(Held(d)) /\ Cardinality(Held(d)) + dropped[d] = Given(d)

\* A device that connects holds one more, and the others hold what they held.
LEMMA ConnectHolds ==
    ASSUME TypeOK, NEW d \in Device, Connect(d), IsFiniteSet(Held(d))
    PROVE  /\ IsFiniteSet(Held(d)') /\ Cardinality(Held(d)') = Cardinality(Held(d)) + 1
           /\ \A f \in Device \ {d} : Held(f)' = Held(f)
<1>1. /\ NextFree \in Conn /\ owner[NextFree] = NULL /\ NULL \notin Device
      /\ owner' = [owner EXCEPT ![NextFree] = d]
  BY NextFreeIsFree, NullAssumption DEF Connect
<1> HIDE DEF NextFree
<1>2. NextFree \notin Held(d) /\ Held(d)' = Held(d) \cup {NextFree}
  BY <1>1 DEF Held, TypeOK, ConnTypeOK
<1>3. \A f \in Device \ {d} : Held(f)' = Held(f)
  BY <1>1 DEF Held, TypeOK, ConnTypeOK
<1> QED
  BY <1>2, <1>3, FS_AddElement

\* A process that ends holds nothing, and the others hold what they held.
LEMMA HangUpHolds ==
    ASSUME TypeOK, NEW d \in Device, HangUp(d)
    PROVE  /\ Held(d)' = {}
           /\ \A f \in Device \ {d} : Held(f)' = Held(f)
BY NullAssumption DEF HangUp, Held, TypeOK, ConnTypeOK

\* A connection that the server ends is one that its device held.
LEMMA DropHolds ==
    ASSUME TypeOK, NEW d \in Device, NEW c \in Conn, owner[c] = d, Drop(c), IsFiniteSet(Held(d))
    PROVE  /\ IsFiniteSet(Held(d)') /\ Cardinality(Held(d)') = Cardinality(Held(d)) - 1
           /\ \A f \in Device \ {d} : Held(f)' = Held(f)
<1>1. NULL \notin Device /\ owner' = [owner EXCEPT ![c] = NULL]
  BY NullAssumption DEF Drop
<1>2. c \in Held(d) /\ Held(d)' = Held(d) \ {c}
  BY <1>1 DEF Held, TypeOK, ConnTypeOK
<1>3. \A f \in Device \ {d} : Held(f)' = Held(f)
  BY <1>1 DEF Held, TypeOK, ConnTypeOK
<1> QED
  BY <1>2, <1>3, FS_RemoveElement

\* Every change of the connections keeps the count.
LEMMA CountedInvariance == Spec => [](\A d \in Device : Counted(d))
<1> USE DEF Goto, Busy, Idle, Attempt
<1>1. Init => \A d \in Device : Counted(d)
  <2> SUFFICES ASSUME Init, NEW d \in Device PROVE Counted(d)
    OBVIOUS
  <2>1. Held(d) = {} /\ ~shared[d] /\ dropped[d] = 0
    BY NullAssumption DEF Init, ConnInit, Held
  <2> QED
    BY <2>1, FS_EmptySet DEF Counted, Given
<1>2. /\ TypeOK /\ (\A d \in Device : Connector(d)) /\ (\A d \in Device : Counted(d))
      /\ [Next]_vars
      => (\A d \in Device : Counted(d))'
  <2> SUFFICES ASSUME TypeOK, \A d \in Device : Connector(d), \A d \in Device : Counted(d),
                      [Next]_vars, NEW e \in Device
               PROVE  Counted(e)'
    OBVIOUS
  <2>0. /\ Connector(e) /\ Counted(e) /\ IsFiniteSet(Held(e)) /\ Cardinality(Held(e)) \in Nat
        /\ handlers[e] \in Nat /\ shared[e] \in BOOLEAN /\ dropped[e] \in Nat
    BY FS_CardinalityType, DropsAssumption DEF TypeOK, Counted
  <2>1. ASSUME Held(e)' = Held(e), dropped'[e] = dropped[e], Given(e)' = Given(e)
        PROVE  Counted(e)'
    BY <2>0, <2>1 DEF Counted
  <2>2. ASSUME shared'[e] = shared[e], handlers'[e] = handlers[e],
               pc'[e] \in {"name", "password", "work"} <=> pc[e] \in {"name", "password", "work"}
        PROVE  Given(e)' = Given(e)
    BY <2>2 DEF Given
  <2>3. ASSUME UNCHANGED owner PROVE Held(e)' = Held(e)
    BY <2>3 DEF Held
  <2>4. ASSUME NEW d \in Device, Exit(d) PROVE Counted(e)'
    <3>1. CASE e = d
      <4>1. Held(e)' = {} /\ dropped'[e] = 0 /\ ~shared'[e]
        BY <2>4, <3>1, HangUpHolds DEF Exit, TypeOK
      <4> QED
        BY <4>1, FS_EmptySet DEF Counted, Given
    <3>2. CASE e # d
      BY <2>1, <2>2, <2>4, <3>2, HangUpHolds DEF Exit, TypeOK
    <3> QED
      BY <3>1, <3>2
  <2>5. ASSUME NEW d \in Device,
               CreateConnector(d) \/ ConnectForLogin(d) \/ ConnectForScreen(d)
        PROVE  Counted(e)'
    <3>1. CASE e = d
      <4>1. /\ dropped'[e] = dropped[e] /\ handlers'[e] = handlers[e] /\ shared'[e]
            /\ Given(e)' = Given(e) + 1
        <5>1. CASE CreateConnector(d)
          BY <2>0, <3>1, <5>1 DEF CreateConnector, Connector, TypeOK, counts, Given
        <5>2. CASE ConnectForLogin(d)
          BY <2>0, <3>1, <5>2 DEF ConnectForLogin, Connector, TypeOK, screens, counts, Given
        <5>3. CASE ConnectForScreen(d)
          BY <2>0, <3>1, <5>3 DEF ConnectForScreen, Connector, TypeOK, screens, counts, Given
        <5> QED
          BY <2>5, <5>1, <5>2, <5>3
      <4>2. Connect(d)
        BY <2>5 DEF CreateConnector, ConnectForLogin, ConnectForScreen
      <4>3. IsFiniteSet(Held(d))
        BY <2>0, <3>1
      <4>4. IsFiniteSet(Held(d)') /\ Cardinality(Held(d)') = Cardinality(Held(d)) + 1
        BY <4>2, <4>3, ConnectHolds
      <4>5. Given(e) \in Nat
        BY <2>0 DEF Given
      <4> QED
        BY <2>0, <3>1, <4>1, <4>4, <4>5 DEF Counted
    <3>2. CASE e # d
      <4>1. Held(e)' = Held(e)
        BY <2>5, <3>2, ConnectHolds
           DEF CreateConnector, ConnectForLogin, ConnectForScreen, Counted
      <4> QED
        BY <2>1, <2>2, <2>5, <3>2, <4>1
           DEF CreateConnector, ConnectForLogin, ConnectForScreen, TypeOK, screens, counts
    <3> QED
      BY <3>1, <3>2
  <2>6. ASSUME NEW d \in Device, NameUnknown(d) \/ ComparePasswords(d) \/ FinishScreen(d)
        PROVE  Counted(e)'
    <3>1. /\ UNCHANGED <<owner, shared, dropped>> /\ pc[d] \in {"name", "password", "work"}
          /\ pc' = [pc EXCEPT ![d] = IF pc[d] = "work" THEN "screen" ELSE "login"]
          /\ handlers' = [handlers EXCEPT ![d] = @ + 1]
      BY <2>6 DEF NameUnknown, ComparePasswords, FinishScreen, Conclude, Release, screens
    <3>2. Given(e)' = Given(e)
      <4>1. CASE e = d
        BY <2>0, <3>1, <4>1 DEF TypeOK, Given
      <4>2. CASE e # d
        BY <2>2, <3>1, <4>2 DEF TypeOK
      <4> QED
        BY <4>1, <4>2
    <3> QED
      BY <2>1, <2>3, <3>1, <3>2
  <2>7. ASSUME NEW c \in Conn, ServerDrops(c) PROVE Counted(e)'
    <3>1. PICK d \in Device : owner[c] = d
      BY <2>7 DEF ServerDrops, Drop, TypeOK, ConnTypeOK
    <3>2. Drop(c) /\ UNCHANGED <<pc, shared, handlers>> /\ IsFiniteSet(Held(d))
      BY <2>7 DEF ServerDrops, screens, Counted
    <3>3. Given(e)' = Given(e)
      BY <2>2, <3>2
    <3>4. CASE e = d
      <4>1. dropped'[e] = dropped[e] + 1
        BY <2>7, <3>1, <3>4 DEF ServerDrops, TypeOK
      <4>2. IsFiniteSet(Held(d)') /\ Cardinality(Held(d)') = Cardinality(Held(d)) - 1
        BY <3>1, <3>2, DropHolds
      <4> QED
        BY <2>0, <3>3, <3>4, <4>1, <4>2 DEF Counted
    <3>5. CASE e # d
      <4>1. dropped'[e] = dropped[e]
        BY <2>7, <3>1, <3>5 DEF ServerDrops, TypeOK
      <4>2. Held(e)' = Held(e)
        BY <3>1, <3>2, <3>5, DropHolds
      <4> QED
        BY <2>1, <3>3, <4>1, <4>2
    <3> QED
      BY <3>4, <3>5
  <2>8. ASSUME NEW d \in Device,
               \/ Launch(d) \/ NameKnown(d) \/ DismissHud(d) \/ CloseAlert(d) \/ Answer(d) \/ Tick(d)
               \/ RunHandler(d) \/ Back(d) \/ \E button \in ButtonTag : OpenScreen(d, button)
               \/ \E w \in Typed : Press(d, w)
        PROVE  Counted(e)'
    <3>1. /\ UNCHANGED <<owner, shared, handlers, dropped>>
          /\ pc'[e] \in {"name", "password", "work"} <=> pc[e] \in {"name", "password", "work"}
      BY <2>8 DEF Launch, NameKnown, DismissHud, CloseAlert, Answer, Tick, RunHandler, Back,
                  OpenScreen, Press, TypeOK, connections, screens, counts
    <3> QED
      BY <2>1, <2>2, <2>3, <3>1
  <2>9. ASSUME (\E u \in Password \cup {NoUser} : ChangeUser(u)) \/ UNCHANGED vars
        PROVE  Counted(e)'
    BY <2>1, <2>2, <2>3, <2>9 DEF ChangeUser, vars, connections, screens, counts
  <2> QED
    BY <2>4, <2>5, <2>6, <2>7, <2>8, <2>9 DEF Next, Step, Kill, CallRaises
<1> QED
  BY <1>1, <1>2, LoginTyped, ConnectorInvariance, PTL DEF Spec

\* Nothing a handler opens is ever given back, however many there have been.
THEOREM HandlersCost == Spec => []EveryHandlerCostsOne
<1>1. /\ TypeOK /\ (\A d \in Device : Connector(d)) /\ (\A d \in Device : Counted(d))
      => EveryHandlerCostsOne
  <2> SUFFICES ASSUME TypeOK, NEW d \in Device, Connector(d), Counted(d), pc[d] \in Idle
               PROVE  Cardinality(Held(d)) + dropped[d] =
                          IF handlers[d] = 0 THEN 0 ELSE handlers[d] + 1
    BY DEF EveryHandlerCostsOne
  <2>1. handlers[d] \in Nat /\ shared[d] \in BOOLEAN
    BY DEF TypeOK
  <2> QED
    BY <2>1 DEF Counted, Given, Connector, Idle
<1> QED
  BY <1>1, LoginTyped, ConnectorInvariance, CountedInvariance, PTL

\* What the handlers of a device can leave open: connections that no other device
\* holds.
Within(d) == {c \in Conn : owner[c] \in {d, NULL}}

\* A device can end no more handlers than the server has connections left for it,
\* the one of the connector taken off: what ends a device that works long enough.
HandlersBounded ==
    \A d \in Device :
        pc[d] \in Idle /\ handlers[d] > 0 =>
            handlers[d] + 1 <= Cardinality(Within(d)) + dropped[d]

\* On a server with a limit, every device comes to the end of its handlers, at the
\* latest after as many as the server admits connections and ends some for it.
THEOREM HandlersRunOut ==
    IsFiniteSet(Conn) =>
        (Spec => [](HandlersBounded /\ \A d \in Device :
                        pc[d] \in Idle => handlers[d] <= Cardinality(Conn) + MaxDrops))
<1> SUFFICES ASSUME IsFiniteSet(Conn)
             PROVE  Spec => [](HandlersBounded /\ \A d \in Device :
                                   pc[d] \in Idle => handlers[d] <= Cardinality(Conn) + MaxDrops)
  OBVIOUS
<1>1. TypeOK /\ EveryHandlerCostsOne
      => HandlersBounded /\ \A d \in Device :
             pc[d] \in Idle => handlers[d] <= Cardinality(Conn) + MaxDrops
  <2> SUFFICES ASSUME TypeOK, EveryHandlerCostsOne, NEW d \in Device, pc[d] \in Idle
               PROVE  /\ handlers[d] > 0 =>
                           handlers[d] + 1 <= Cardinality(Within(d)) + dropped[d]
                      /\ handlers[d] <= Cardinality(Conn) + MaxDrops
    BY DEF HandlersBounded
  <2>1. handlers[d] \in Nat /\ dropped[d] \in 0..MaxDrops /\ MaxDrops \in Nat
    BY DropsAssumption DEF TypeOK
  <2>2. Held(d) \subseteq Within(d) /\ Within(d) \subseteq Conn
    BY DEF Held, Within
  <2>3. /\ IsFiniteSet(Within(d)) /\ Cardinality(Within(d)) <= Cardinality(Conn)
        /\ Cardinality(Within(d)) \in Nat /\ Cardinality(Conn) \in Nat
    BY <2>2, FS_Subset, FS_CardinalityType
  <2>4. Cardinality(Held(d)) \in Nat /\ Cardinality(Held(d)) <= Cardinality(Within(d))
    BY <2>2, <2>3, FS_Subset, FS_CardinalityType
  <2>5. Cardinality(Held(d)) + dropped[d] = IF handlers[d] = 0 THEN 0 ELSE handlers[d] + 1
    BY DEF EveryHandlerCostsOne
  <2> QED
    BY <2>1, <2>3, <2>4, <2>5
<1> QED
  BY <1>1, LoginTyped, HandlersCost, PTL

-----------------------------------------------------------------------------
(* The course of an attempt. *)

\* What an attempt does next, its verdict and the end of the process apart.
Later ==
    [init |-> {"connect"}, connect |-> {"name"}, name |-> {"password"}, password |-> {}]

\* An attempt only goes forward: it ends in its second query at the latest, and ends
\* in nothing but a verdict that is put off to be told, or with the process.
\* An answer that is taken is shown: an alert, or the menu or a screen behind it.
AttemptsAdvance ==
    [][\A d \in Device :
        /\ pc[d] \in Attempt =>
             \/ pc'[d] = pc[d] \/ pc'[d] \in Later[pc[d]]
             \/ pc'[d] = "login" /\ Concludes(d)
             \/ pc'[d] = "off"
        /\ Len(pending'[d]) < Len(pending[d]) =>
             alert'[d] \/ pc'[d] \in {"menu", "screen"} \/ pc'[d] = "off"]_vars

\* The steps behind "login is answered": no attempt turns back or ends unanswered,
\* whatever the other devices do; that the steps are taken is left to fairness.
THEOREM AttemptsComeForward == Spec => AttemptsAdvance
<1> USE DEF Goto, Busy, Idle, Attempt
<1> DEFINE Forward(d) ==
      /\ pc[d] \in Attempt =>
           \/ pc'[d] = pc[d] \/ pc'[d] \in Later[pc[d]]
           \/ pc'[d] = "login" /\ Concludes(d)
           \/ pc'[d] = "off"
      /\ Len(pending'[d]) < Len(pending[d]) =>
           alert'[d] \/ pc'[d] \in {"menu", "screen"} \/ pc'[d] = "off"
<1>1. TypeOK /\ [Next]_vars => \A d \in Device : Forward(d)
  <2> SUFFICES ASSUME TypeOK, [Next]_vars, NEW e \in Device PROVE Forward(e)
    OBVIOUS
  <2>0. pending[e] \in Seq(AnswerType) /\ Len(pending[e]) \in Nat
    BY DEF TypeOK
  <2>1. ASSUME Len(pending'[e]) = Len(pending[e]),
               pc'[e] = pc[e] \/ pc[e] \notin Attempt \/ pc'[e] \in Later[pc[e]]
        PROVE  Forward(e)
    BY <2>0, <2>1
  <2>2. ASSUME NEW d \in Device, Exit(d) PROVE Forward(e)
    <3>1. CASE e = d
      BY <2>2, <3>1 DEF Exit, TypeOK
    <3>2. CASE e # d
      BY <2>1, <2>2, <3>2 DEF Exit, TypeOK
    <3> QED
      BY <3>1, <3>2
  <2>3. ASSUME NEW d \in Device, NameUnknown(d) \/ ComparePasswords(d) PROVE Forward(e)
    <3>1. PICK verdict \in UserLoginType : Conclude(d, verdict)
      BY <2>3 DEF NameUnknown, ComparePasswords, UserLoginType
    <3>2. CASE e = d
      <4> DEFINE r == [age |-> 0, verdict |-> verdict]
      <4>1. pending'[e] = Append(pending[e], r) /\ pc'[e] = "login"
        BY <3>1, <3>2 DEF Conclude, TypeOK
      <4>2. Len(pending'[e]) = Len(pending[e]) + 1
        BY <2>0, <4>1
      <4> QED
        BY <2>0, <4>1, <4>2 DEF Concludes
    <3>3. CASE e # d
      BY <2>1, <3>1, <3>3 DEF Conclude, TypeOK
    <3> QED
      BY <3>2, <3>3
  <2>4. ASSUME NEW d \in Device, Answer(d) PROVE Forward(e)
    <3>1. CASE e = d
      <4>1. pc[e] \in Idle /\ (alert'[e] \/ pc'[e] \in {"menu", "screen"})
        BY <2>4, <3>1 DEF Answer, TypeOK
      <4> QED
        BY <4>1
    <3>2. CASE e # d
      BY <2>1, <2>4, <3>2 DEF Answer, TypeOK
    <3> QED
      BY <3>1, <3>2
  <2>5. ASSUME NEW d \in Device, Tick(d) PROVE Forward(e)
    <3>1. pc'[e] = pc[e] /\ pending'[e] \in {pending[e], Older(pending[e])}
      BY <2>5 DEF Tick, TypeOK
    <3>2. Len(pending'[e]) = Len(pending[e])
      BY <2>0, <3>1, OlderAnswers
    <3> QED
      BY <2>1, <3>1, <3>2
  <2>6. ASSUME NEW d \in Device,
               \/ CreateConnector(d) \/ ConnectForLogin(d) \/ NameKnown(d)
        PROVE  Forward(e)
    <3>1. UNCHANGED pending /\ (pc'[e] = pc[e] \/ pc'[e] \in Later[pc[e]])
      BY <2>6 DEF CreateConnector, ConnectForLogin, NameKnown, TypeOK, Later, screens
    <3> QED
      BY <2>1, <3>1
  <2>7. ASSUME NEW d \in Device,
               \/ Launch(d) \/ DismissHud(d) \/ CloseAlert(d) \/ RunHandler(d) \/ Back(d)
               \/ ConnectForScreen(d) \/ FinishScreen(d)
               \/ \E button \in ButtonTag : OpenScreen(d, button)
               \/ \E w \in Typed : Press(d, w)
        PROVE  Forward(e)
    <3>1. UNCHANGED pending /\ (pc'[e] = pc[e] \/ pc[e] \notin Attempt)
      BY <2>7 DEF Launch, DismissHud, CloseAlert, RunHandler, Back, ConnectForScreen, FinishScreen,
                  OpenScreen, Press, TypeOK, screens
    <3> QED
      BY <2>1, <3>1
  <2>8. ASSUME \/ \E u \in Password \cup {NoUser} : ChangeUser(u)
               \/ \E c \in Conn : ServerDrops(c)
               \/ UNCHANGED vars
        PROVE  Forward(e)
    BY <2>1, <2>8 DEF ChangeUser, ServerDrops, vars, screens
  <2> QED
    BY <2>2, <2>3, <2>4, <2>5, <2>6, <2>7, <2>8 DEF Next, Step, Kill, CallRaises
<1>2. TypeOK /\ [Next]_vars => [\A d \in Device : Forward(d)]_vars
  BY <1>1
<1> QED
  BY <1>2, LoginTyped, PTL DEF Spec, AttemptsAdvance

-----------------------------------------------------------------------------
(* Verdicts. *)

\* What has been seen of the table holds what is there now, and a user who was
\* found has been seen.
SeenOf(d) ==
    /\ pc[d] \in Attempt => user \in seen[d] /\ typed[d] \in Typed
    /\ pc[d] = "password" => \E u \in Password : u \in seen[d]

\* The table is seen at the beginning of an attempt and whenever it changes.
LEMMA SeenInvariance == Spec => [](\A d \in Device : SeenOf(d))
<1> USE DEF Goto, Busy, Idle, Attempt
<1>1. Init => \A d \in Device : SeenOf(d)
  BY DEF Init, SeenOf
<1>2. TypeOK /\ (\A d \in Device : SeenOf(d)) /\ [Next]_vars => (\A d \in Device : SeenOf(d))'
  <2> SUFFICES ASSUME TypeOK, \A d \in Device : SeenOf(d), [Next]_vars, NEW e \in Device
               PROVE  SeenOf(e)'
    OBVIOUS
  <2>0. SeenOf(e)
    OBVIOUS
  <2>1. ASSUME user' = user, typed'[e] = typed[e], seen'[e] = seen[e],
               \/ pc'[e] = pc[e]
               \/ pc'[e] \notin Attempt
               \/ pc[e] \in Attempt /\ pc'[e] \in {"connect", "name"}
        PROVE  SeenOf(e)'
    BY <2>0, <2>1 DEF SeenOf
  <2>2. ASSUME NEW d \in Device, Exit(d) \/ NameUnknown(d) \/ ComparePasswords(d)
        PROVE  SeenOf(e)'
    <3>1. CASE e = d
      <4>1. pc'[e] \notin Attempt
        BY <2>2, <3>1 DEF Exit, NameUnknown, ComparePasswords, Conclude, TypeOK
      <4> QED
        BY <4>1 DEF SeenOf
    <3>2. CASE e # d
      BY <2>1, <2>2, <3>2 DEF Exit, NameUnknown, ComparePasswords, Conclude, TypeOK
    <3> QED
      BY <3>1, <3>2
  <2>3. ASSUME NEW d \in Device, NEW w \in Typed, Press(d, w) PROVE SeenOf(e)'
    <3>1. CASE e = d
      <4>1. user' = user /\ seen'[e] = {user} /\ typed'[e] = w /\ pc'[e] \in {"init", "connect"}
        BY <2>3, <3>1 DEF Press, TypeOK
      <4> QED
        BY <4>1 DEF SeenOf
    <3>2. CASE e # d
      BY <2>1, <2>3, <3>2 DEF Press, TypeOK
    <3> QED
      BY <3>1, <3>2
  <2>4. ASSUME NEW d \in Device, NameKnown(d) PROVE SeenOf(e)'
    <3>1. CASE e = d
      <4>1. /\ user \in Password /\ user \in seen[e] /\ typed[e] \in Typed
            /\ user' = user /\ seen' = seen /\ typed' = typed /\ pc'[e] = "password"
        BY <2>0, <2>4, <3>1 DEF NameKnown, TypeOK, SeenOf, screens
      <4> QED
        BY <4>1 DEF SeenOf
    <3>2. CASE e # d
      BY <2>1, <2>4, <3>2 DEF NameKnown, TypeOK, screens
    <3> QED
      BY <3>1, <3>2
  <2>5. ASSUME NEW d \in Device,
               \/ Launch(d) \/ CreateConnector(d) \/ ConnectForLogin(d) \/ DismissHud(d)
               \/ CloseAlert(d) \/ Answer(d) \/ Tick(d) \/ ConnectForScreen(d) \/ FinishScreen(d)
               \/ RunHandler(d) \/ Back(d) \/ \E button \in ButtonTag : OpenScreen(d, button)
        PROVE  SeenOf(e)'
    <3>1. /\ UNCHANGED <<user, typed, seen>>
          /\ \/ pc'[e] = pc[e]
             \/ pc'[e] \notin Attempt
             \/ pc[e] \in Attempt /\ pc'[e] \in {"connect", "name"}
      BY <2>5 DEF Launch, CreateConnector, ConnectForLogin, DismissHud, CloseAlert, Answer, Tick,
                  ConnectForScreen, FinishScreen, RunHandler, Back, OpenScreen, TypeOK, screens
    <3> QED
      BY <2>1, <3>1
  <2>6. ASSUME NEW u \in Password \cup {NoUser}, ChangeUser(u) PROVE SeenOf(e)'
    BY <2>0, <2>6 DEF ChangeUser, SeenOf, screens
  <2>7. ASSUME (\E c \in Conn : ServerDrops(c)) \/ UNCHANGED vars PROVE SeenOf(e)'
    BY <2>1, <2>7 DEF ServerDrops, vars, screens
  <2> QED
    BY <2>2, <2>3, <2>4, <2>5, <2>6, <2>7 DEF Next, Step, Kill, CallRaises
<1> QED
  BY <1>1, <1>2, LoginTyped, PTL DEF Spec

\* The two queries judge like one look at the table, a user removed during the
\* attempt excepted, at every verdict of every device.
THEOREM VerdictsTrue == Spec => VerdictTrue
<1> DEFINE Right(d) ==
      Concludes(d) =>
        LET verdict == pending'[d][Len(pending'[d])].verdict
        IN  \/ \E u \in seen[d] : verdict = Judge(u, typed[d])
            \/ verdict = "IncorrectPassword" /\ {typed[d], NoUser} \subseteq seen[d]
<1>1. TypeOK /\ (\A d \in Device : SeenOf(d)) /\ [Next]_vars => \A d \in Device : Right(d)
  <2> SUFFICES ASSUME TypeOK, \A d \in Device : SeenOf(d), [Next]_vars, NEW e \in Device,
                      Concludes(e)
               PROVE  Right(e)
    OBVIOUS
  <2> DEFINE q == pending[e]
  <2>1. q \in Seq(AnswerType) /\ SeenOf(e) /\ user \in Password \cup {NoUser}
    BY DEF TypeOK
  <2>2. Count(q) \in Nat /\ Count(pending'[e]) > Count(q)
    BY <2>1, CountTyped DEF Concludes, Count
  <2>3. PICK d \in Device : NameUnknown(d) \/ ComparePasswords(d)
    <3> SUFFICES ASSUME \A d \in Device : ~(NameUnknown(d) \/ ComparePasswords(d)) PROVE FALSE
      OBVIOUS
    <3> HIDE DEF q
    <3>1. ASSUME pending'[e] = q PROVE FALSE
      BY <2>2, <3>1
    <3>2. ASSUME NEW d \in Device, Exit(d) PROVE FALSE
      <4>1. pending'[e] \in {q, <<>>}
        BY <3>2 DEF q, Exit, TypeOK
      <4>2. Count(<<>>) = 0
        BY DEF Count
      <4> QED
        BY <2>2, <4>1, <4>2
    <3>3. ASSUME NEW d \in Device, Answer(d) PROVE FALSE
      <4>1. CASE e = d
        <5>1. pending'[e] = Tail(q) /\ q # <<>>
          BY <3>3, <4>1 DEF q, Answer, AnswerDue, TypeOK
        <5>2. Count(Tail(q)) = Count(q) - 1
          BY <2>1, <5>1, TailAges DEF q
        <5> QED
          BY <2>2, <5>1, <5>2
      <4>2. CASE e # d
        BY <3>1, <3>3, <4>2 DEF q, Answer, TypeOK
      <4> QED
        BY <4>1, <4>2
    <3>4. ASSUME NEW d \in Device, Tick(d) PROVE FALSE
      <4>1. pending'[e] \in {q, Older(q)}
        BY <3>4 DEF q, Tick, TypeOK
      <4>2. Count(Older(q)) = Count(q)
        BY <2>1, OlderAges DEF q
      <4> QED
        BY <2>2, <4>1, <4>2
    <3>5. ASSUME NEW d \in Device,
                 \/ Launch(d) \/ CreateConnector(d) \/ ConnectForLogin(d) \/ NameKnown(d)
                 \/ DismissHud(d) \/ CloseAlert(d) \/ RunHandler(d) \/ Back(d)
                 \/ ConnectForScreen(d) \/ FinishScreen(d)
                 \/ \E button \in ButtonTag : OpenScreen(d, button)
                 \/ \E w \in Typed : Press(d, w)
          PROVE  FALSE
      BY <3>1, <3>5 DEF q, Launch, CreateConnector, ConnectForLogin, NameKnown, DismissHud,
                        CloseAlert, RunHandler, Back, ConnectForScreen, FinishScreen, OpenScreen,
                        Press, screens
    <3>6. ASSUME \/ \E u \in Password \cup {NoUser} : ChangeUser(u)
                 \/ \E c \in Conn : ServerDrops(c)
                 \/ UNCHANGED vars
          PROVE  FALSE
      BY <3>1, <3>6 DEF q, ChangeUser, ServerDrops, vars, screens
    <3> QED
      BY <3>2, <3>3, <3>4, <3>5, <3>6 DEF Next, Step, Kill, CallRaises
  <2>4. e = d
    <3>1. ASSUME e # d PROVE pending'[e] = q
      BY <2>3, <3>1 DEF NameUnknown, ComparePasswords, Conclude, TypeOK
    <3> HIDE DEF q
    <3> QED
      BY <2>2, <3>1
  <2>5. user \in seen[e] /\ typed[e] \in Typed
    BY <2>1, <2>3, <2>4 DEF NameUnknown, ComparePasswords, SeenOf, Attempt
  <2>6. ASSUME NEW verdict, Conclude(e, verdict)
        PROVE  pending'[e][Len(pending'[e])].verdict = verdict
    <3> DEFINE r == [age |-> 0, verdict |-> verdict]
    <3>1. pending'[e] = Append(q, r)
      BY <2>6 DEF Conclude, TypeOK
    <3>2. Len(Append(q, r)) = Len(q) + 1 /\ Append(q, r)[Len(q) + 1] = r
      BY <2>1
    <3> QED
      BY <3>1, <3>2
  <2>7. CASE NameUnknown(d)
    BY <2>4, <2>5, <2>6, <2>7 DEF NameUnknown, Judge
  <2>8. CASE ComparePasswords(d)
    <3> DEFINE verdict == IF user = typed[e] THEN "SuccessfulLogin" ELSE "IncorrectPassword"
    <3>1. pending'[e][Len(pending'[e])].verdict = verdict
      BY <2>4, <2>6, <2>8 DEF ComparePasswords
    <3>2. PICK u \in Password : u \in seen[e]
      BY <2>1, <2>4, <2>8 DEF ComparePasswords, SeenOf
    <3>3. CASE user # NoUser
      BY <2>5, <3>1, <3>3 DEF Judge
    <3>4. CASE user = NoUser /\ u # typed[e]
      BY <2>5, <3>1, <3>2, <3>4, UserAssumption DEF Judge
    <3>5. CASE user = NoUser /\ u = typed[e]
      BY <2>5, <3>1, <3>2, <3>5, UserAssumption
    <3> QED
      BY <3>3, <3>4, <3>5
  <2> QED
    BY <2>3, <2>7, <2>8
<1>2. TypeOK /\ (\A d \in Device : SeenOf(d)) /\ [Next]_vars => [\A d \in Device : Right(d)]_vars
  BY <1>1
<1> QED
  BY <1>2, LoginTyped, SeenInvariance, PTL DEF Spec, VerdictTrue
=============================================================================
