------------------------ MODULE PublicServicesProofs ------------------------
(***************************************************************************)
(* Proofs about PublicServices, for any number of threads, tokens,         *)
(* messages and requests.                                                  *)
(***************************************************************************)
EXTENDS PublicServices, TLAPS

-----------------------------------------------------------------------------
(* Types. *)

LEMMA RequestKinds ==
    ASSUME NEW r \in Requests
    PROVE  /\ r.op \in {"CreateToken", "GetMessages"} => r.app \in Apps
           /\ r.op = "SwitchActiveStatus" => r.id \in TokenIds
           /\ r.op \in {"EditMessage", "DeleteMessage"} => r.id \in MessageIds
           /\ r.op \in {"CreateMessage", "EditMessage"} => r.body \in Body
           /\ r.op \in {"CreateToken", "SwitchActiveStatus", "CreateMessage",
                        "EditMessage", "DeleteMessage", "GetMessages"}
  BY PublicServicesAssumption DEF Request

LEMMA HistoriesAreEntries ==
    ASSUME TypeInv, Remember
    PROVE  /\ throughout' \in [Threads -> SUBSET Entry]
           /\ sometime' \in [Threads -> SUBSET Entry]
  <1>1. \A r, rows, time : ToShow(r, rows, time) \subseteq Entry
    BY DEF ToShow
  <1> QED
    BY <1>1 DEF Remember, TypeInv, TypeOK

\* What the queries find.
LEMMA ShownAreEntries ==
    ASSUME TypeInv, NEW to
    PROVE  /\ to \in Apps \cup {Everyone} =>
                  Shown(messages, now, to) \subseteq Entry
           /\ \A e \in Shown(messages, now, to) : e.to = to
  BY DEF Shown, Entry, TypeInv, TypeOK, Message, Body

\* The end of a request leaves nothing of it.
LEMMA EndRequestKeepsType ==
    ASSUME TypeInv, NEW t \in Threads, EndRequest(t),
           tokens' \subseteq Token, messages' \subseteq Message,
           given' \subseteq TokenIds \cup MessageIds
    PROVE  TypeInv'
  <1>1. TypeOK'
    BY HistoriesAreEntries DEF TypeInv, TypeOK, EndRequest
  <1>2. HandlersKeepToTheirSteps'
    BY DEF TypeInv, TypeOK, HandlersKeepToTheirSteps, EndRequest
  <1> QED
    BY <1>1, <1>2 DEF TypeInv

LEMMA RollbackKeepsType ==
    ASSUME TypeInv, NEW t \in Threads, Rollback(t)
    PROVE  TypeInv'
  BY EndRequestKeepsType DEF Rollback, tables, TypeInv, TypeOK

LEMMA CommitKeepsType ==
    ASSUME TypeInv, NEW t \in Threads, Commit(t)
    PROVE  TypeInv'
  <1> DEFINE r == request[t]
  <1>1. r \in Requests /\ pc[t] = "commit"
    BY DEF Commit, TypeInv, HandlersKeepToTheirSteps
  <1>2. tokens' \subseteq Token
    <2>1. tokens' \in TokensAfter(t) /\ tokens \subseteq Token
      BY DEF Commit, TypeInv, TypeOK
    <2>2. CASE r.op = "CreateToken"
      <3>1. PICK id \in TokenIds \ given :
                 tokens' = tokens \cup
                     {[id |-> id, app |-> r.app, active |-> TRUE]}
        BY <2>1, <2>2 DEF TokensAfter
      <3>2. [id |-> id, app |-> r.app, active |-> TRUE] \in Token
        BY <1>1, <2>2, RequestKinds DEF Token
      <3> QED
        BY <2>1, <3>1, <3>2
    <2>3. CASE r.op = "SwitchActiveStatus"
      <3>1. PICK row \in Token : loaded[t] = {row}
        BY <1>1, <2>3 DEF TypeInv, HandlersKeepToTheirSteps
      <3>2. (CHOOSE x \in loaded[t] : TRUE) = row
        BY <3>1
      <3>3. \A x \in tokens : Switched(t, x) \in Token
        BY <2>1, <3>1, <3>2 DEF Switched, Token
      <3>4. tokens' = {Switched(t, x) : x \in tokens}
        BY <2>1, <2>3 DEF TokensAfter
      <3> QED
        BY <3>3, <3>4
    <2>4. CASE r.op \notin {"CreateToken", "SwitchActiveStatus"}
      BY <2>1, <2>4 DEF TokensAfter
    <2> QED
      BY <2>2, <2>3, <2>4
  <1>3. messages' \subseteq Message
    <2>1. messages' \in MessagesAfter(t) /\ messages \subseteq Message
      BY DEF Commit, TypeInv, TypeOK
    <2>2. CASE r.op = "CreateMessage"
      <3>1. PICK id \in MessageIds \ given :
                 messages' = messages \cup {[id |-> id, body |-> r.body]}
        BY <2>1, <2>2 DEF MessagesAfter
      <3> QED
        BY <1>1, <2>1, <2>2, <3>1, RequestKinds DEF Message
    <2>3. CASE r.op = "EditMessage"
      <3>1. Edited(t) \in Message
        BY <1>1, <2>3, RequestKinds DEF Edited, Message
      <3>2. messages' \subseteq messages \cup {Edited(t)}
        BY <2>1, <2>3 DEF MessagesAfter, Written
      <3> QED
        BY <2>1, <3>1, <3>2
    <2>4. CASE r.op = "DeleteMessage"
      BY <2>1, <2>4 DEF MessagesAfter
    <2>5. CASE r.op \notin {"CreateMessage", "EditMessage", "DeleteMessage"}
      BY <2>1, <2>5 DEF MessagesAfter
    <2> QED
      BY <2>2, <2>3, <2>4, <2>5
  <1>4. given' \subseteq TokenIds \cup MessageIds
    BY <1>2, <1>3 DEF Commit, IdsOf, Token, Message, TypeInv, TypeOK
  <1> QED
    BY <1>2, <1>3, <1>4, EndRequestKeepsType DEF Commit

LEMMA FindKeepsType ==
    ASSUME TypeInv, NEW t \in Threads, Find(t)
    PROVE  TypeInv'
  <1>1. CASE Rollback(t)
    BY <1>1, RollbackKeepsType
  <1>2. ASSUME NEW row \in tokens \cup messages, row.id = request[t].id,
               pc[t] = "find", loaded' = [loaded EXCEPT ![t] = {row}],
               answer' = answer, Continue(t, "commit")
        PROVE  TypeInv'
    <2>1. request[t] \in Requests /\ row \in Token \cup Message
      BY <1>2 DEF TypeInv, TypeOK, HandlersKeepToTheirSteps
    <2>2. TypeOK'
      BY <1>2, <2>1, HistoriesAreEntries
         DEF Continue, tables, TypeInv, TypeOK
    <2>3. /\ request[t].op = "SwitchActiveStatus" => row \in Token
          /\ request[t].op \in {"EditMessage", "DeleteMessage"} => row \in Message
      BY <1>2, <2>1, RequestKinds, PublicServicesAssumption DEF Token, Message
    <2>4. request[t].op \notin {"CreateToken", "CreateMessage", "GetMessages"}
      BY <1>2 DEF TypeInv, HandlersKeepToTheirSteps
    <2>5. HandlersKeepToTheirSteps'
      BY <1>2, <2>1, <2>3, <2>4
         DEF Continue, TypeInv, TypeOK, HandlersKeepToTheirSteps
    <2> QED
      BY <2>2, <2>5 DEF TypeInv
  <1> QED
    BY <1>1, <1>2 DEF Find

LEMMA QueriesKeepType ==
    ASSUME TypeInv, NEW t \in Threads, FindGlobal(t) \/ FindApplication(t)
    PROVE  TypeInv'
  <1>1. request[t] \in Requests /\ request[t].op = "GetMessages"
    BY DEF FindGlobal, FindApplication, TypeInv, HandlersKeepToTheirSteps
  <1>2. request[t].app \in Apps
    BY <1>1, RequestKinds
  <1>3. PICK next \in {"application", "answered"}, found \in SUBSET Entry :
             /\ Continue(t, next) /\ loaded' = loaded
             /\ answer' = [answer EXCEPT ![t] = found]
    <2>1. CASE FindGlobal(t)
      BY <2>1, ShownAreEntries DEF FindGlobal
    <2>2. CASE FindApplication(t)
      <3>1. answer[t] \cup Shown(messages, now, request[t].app) \in SUBSET Entry
        BY <1>2, ShownAreEntries DEF TypeInv, TypeOK
      <3> QED
        BY <2>2, <3>1 DEF FindApplication, TypeInv, TypeOK
    <2> QED
      BY <2>1, <2>2
  <1>4. TypeOK'
    BY <1>3, HistoriesAreEntries DEF Continue, tables, TypeInv, TypeOK
  <1>5. HandlersKeepToTheirSteps'
    BY <1>1, <1>3 DEF Continue, TypeInv, TypeOK, HandlersKeepToTheirSteps
  <1> QED
    BY <1>4, <1>5 DEF TypeInv

LEMMA TypeNext == TypeInv /\ [Next]_vars => TypeInv'
  <1> SUFFICES ASSUME TypeInv, [Next]_vars
               PROVE  TypeInv'
    OBVIOUS
  <1>1. ASSUME NEW t \in Threads, Submit(t)
        PROVE  TypeInv'
    <2>1. PICK r \in Requests :
               /\ pc[t] = "idle"
               /\ pc' = [pc EXCEPT ![t] = FirstStep(r)]
               /\ request' = [request EXCEPT ![t] = r]
               /\ UNCHANGED <<tables, now, loaded, answer>>
               /\ Remember
      BY <1>1 DEF Submit
    <2>2. /\ FirstStep(r) \in {"find", "commit", "global"}
          /\ FirstStep(r) = "commit" => r.op \in {"CreateToken", "CreateMessage"}
          /\ FirstStep(r) = "find" =>
                r.op \notin {"CreateToken", "CreateMessage", "GetMessages"}
          /\ FirstStep(r) = "global" => r.op = "GetMessages"
      BY DEF FirstStep
    <2>3. TypeOK'
      BY <2>1, <2>2, HistoriesAreEntries DEF tables, TypeInv, TypeOK
    <2>4. HandlersKeepToTheirSteps'
      BY <2>1, <2>2 DEF TypeInv, TypeOK, HandlersKeepToTheirSteps
    <2> QED
      BY <2>3, <2>4 DEF TypeInv
  <1>2. ASSUME NEW t \in Threads, Handle(t) \/ Abort(t)
        PROVE  TypeInv'
    BY <1>2, FindKeepsType, QueriesKeepType, CommitKeepsType, RollbackKeepsType
       DEF Handle, Abort, Answer, CommitFails
  <1>3. CASE Tick
    <2>1. TypeOK'
      BY <1>3, HistoriesAreEntries, PublicServicesAssumption
         DEF Tick, tables, TypeInv, TypeOK
    <2>2. HandlersKeepToTheirSteps'
      BY <1>3 DEF Tick, TypeInv, HandlersKeepToTheirSteps
    <2> QED
      BY <2>1, <2>2 DEF TypeInv
  <1>4. CASE UNCHANGED vars
    BY <1>4 DEF vars, TypeInv, TypeOK, HandlersKeepToTheirSteps
  <1> QED
    BY <1>1, <1>2, <1>3, <1>4 DEF Next

\* A session has loaded the row its request names, and every answer holds entries
\* of messages there are ids of.
THEOREM TypeCorrect == Spec => []TypeInv
  <1>1. Init => TypeInv
    BY PublicServicesAssumption
       DEF Init, TypeInv, TypeOK, HandlersKeepToTheirSteps, IdsOf, Token, Message
  <1> QED
    BY <1>1, TypeNext, PTL DEF Spec


-----------------------------------------------------------------------------
(* Answers. *)

\* The condition of the queries is the one of what there is to show.
LEMMA ShownIsToShow ==
    ASSUME TypeInv, NEW r \in Requests, r.op = "GetMessages"
    PROVE  /\ \A e \in ToShow(r, messages, now) :
                 /\ e.to \in {Everyone, r.app}
                 /\ e \in Shown(messages, now, e.to)
           /\ Shown(messages, now, Everyone) \subseteq ToShow(r, messages, now)
           /\ Shown(messages, now, r.app) \subseteq ToShow(r, messages, now)
  <1>1. ASSUME NEW e \in ToShow(r, messages, now)
        PROVE  e.to \in {Everyone, r.app} /\ e \in Shown(messages, now, e.to)
    <2>1. /\ e \in Entry /\ e.to \in {Everyone, r.app}
          /\ \E m \in messages :
                 /\ m.id = e.id /\ m.body.to = e.to /\ m.body.active
                 /\ m.body.begin < now /\ now < m.body.end
      BY DEF ToShow
    <2>2. e = [id |-> e.id, to |-> e.to]
      BY <2>1 DEF Entry
    <2> QED
      BY <2>1, <2>2 DEF Shown
  <1>2. ASSUME NEW to \in {Everyone, r.app}
        PROVE  Shown(messages, now, to) \subseteq ToShow(r, messages, now)
    <2>1. to \in Apps \cup {Everyone}
      BY RequestKinds
    <2>2. Shown(messages, now, to) \subseteq Entry
      BY <2>1, ShownAreEntries
    <2>3. ASSUME NEW e \in Shown(messages, now, to)
          PROVE  /\ e.to = to
                 /\ \E m \in messages :
                        /\ m.id = e.id /\ m.body.to = e.to /\ m.body.active
                        /\ m.body.begin < now /\ now < m.body.end
      BY DEF Shown
    <2> QED
      BY <2>2, <2>3 DEF ToShow
  <1> QED
    BY <1>1, <1>2

\* What the histories say at every step of a request: what there is to show now
\* lies between them.
HistoriesFit ==
    \A t \in Threads :
        pc[t] # "idle" =>
            /\ throughout[t] \subseteq ToShow(request[t], messages, now)
            /\ ToShow(request[t], messages, now) \subseteq sometime[t]

\* What a program has been told so far: nothing that never was, and of what was
\* there all the time already the part for everyone.
AnswersSoFar ==
    \A t \in Threads :
        /\ pc[t] \in {"application", "answered"} =>
              answer[t] \subseteq sometime[t]
        /\ pc[t] = "application" =>
              \A e \in throughout[t] : e.to = Everyone => e \in answer[t]

\* The inductive invariant behind AnswersAreOfTheCall.
AnswersInv == TypeInv /\ HistoriesFit /\ AnswersSoFar /\ AnswersAreOfTheCall

LEMMA RememberFits ==
    ASSUME TypeInv, TypeInv', Remember
    PROVE  /\ HistoriesFit'
           /\ \A t \in Threads :
                 pc[t] # "idle" /\ pc'[t] # "idle" =>
                     /\ throughout'[t] \subseteq throughout[t]
                     /\ sometime[t] \subseteq sometime'[t]
  <1> DEFINE shown(t) == ToShow(request'[t], messages', now')
  <1>1. \A t \in Threads :
            /\ throughout'[t] = IF pc[t] = "idle" THEN shown(t)
                                ELSE throughout[t] \cap shown(t)
            /\ sometime'[t] = IF pc'[t] = "idle" THEN {}
                              ELSE sometime[t] \cup shown(t)
    BY DEF Remember
  <1> QED
    BY <1>1 DEF HistoriesFit

\* A step that leaves the answers alone, or closes them.
LEMMA OtherStepsKeepAnswers ==
    ASSUME AnswersInv, TypeInv', Remember,
           \A t \in Threads :
               pc'[t] \in {"application", "answered"} =>
                   pc'[t] = pc[t] /\ answer'[t] = answer[t]
    PROVE  AnswersInv'
  <1>1. HistoriesFit'
    BY RememberFits DEF AnswersInv
  <1>2. \A t \in Threads :
            pc'[t] \in {"application", "answered"} =>
                /\ throughout'[t] \subseteq throughout[t]
                /\ sometime[t] \subseteq sometime'[t]
    BY RememberFits DEF AnswersInv
  <1>3. AnswersSoFar' /\ AnswersAreOfTheCall'
    BY <1>2 DEF AnswersInv, AnswersSoFar, AnswersAreOfTheCall
  <1> QED
    BY <1>1, <1>3 DEF AnswersInv

LEMMA EndKeepsAnswers ==
    ASSUME AnswersInv, TypeInv', NEW t \in Threads, EndRequest(t)
    PROVE  AnswersInv'
  <1>1. \A s \in Threads :
            pc'[s] \in {"application", "answered"} =>
                pc'[s] = pc[s] /\ answer'[s] = answer[s]
    BY DEF EndRequest, AnswersInv, TypeInv, TypeOK
  <1> QED
    BY <1>1, OtherStepsKeepAnswers DEF EndRequest

LEMMA QueriesKeepAnswers ==
    ASSUME AnswersInv, TypeInv', NEW t \in Threads,
           FindGlobal(t) \/ FindApplication(t)
    PROVE  AnswersInv'
  <1> DEFINE r == request[t]
             shown == ToShow(r, messages, now)
  <1>1. r \in Requests /\ r.op = "GetMessages"
    BY DEF FindGlobal, FindApplication, AnswersInv, TypeInv,
           HandlersKeepToTheirSteps
  <1>2. /\ Remember /\ pc' \in [Threads -> {pc[s] : s \in Threads} \cup
                                            {"application", "answered"}]
        /\ pc[t] # "idle" /\ pc'[t] # "idle"
        /\ messages' = messages /\ now' = now /\ request' = request
        /\ \A s \in Threads \ {t} : pc'[s] = pc[s] /\ answer'[s] = answer[s]
    BY DEF FindGlobal, FindApplication, Continue, tables, AnswersInv, TypeInv,
           TypeOK
  <1>3. HistoriesFit'
    BY <1>2, RememberFits DEF AnswersInv
  <1>4. \A s \in Threads :
            pc[s] # "idle" /\ pc'[s] # "idle" =>
                /\ throughout'[s] \subseteq throughout[s]
                /\ sometime[s] \subseteq sometime'[s]
    BY <1>2, RememberFits DEF AnswersInv
  <1>5. /\ throughout'[t] \subseteq shown /\ shown \subseteq sometime'[t]
        /\ throughout'[t] \subseteq throughout[t]
        /\ sometime[t] \subseteq sometime'[t]
    BY <1>2, <1>3, <1>4 DEF HistoriesFit
  <1>6. /\ \A e \in shown : /\ e.to \in {Everyone, r.app}
                            /\ e \in Shown(messages, now, e.to)
        /\ Shown(messages, now, Everyone) \subseteq shown
        /\ Shown(messages, now, r.app) \subseteq shown
    BY <1>1, ShownIsToShow DEF AnswersInv
  <1>7. /\ pc'[t] \in {"application", "answered"}
        /\ answer'[t] \subseteq sometime'[t]
        /\ pc'[t] = "application" =>
              \A e \in throughout'[t] : e.to = Everyone => e \in answer'[t]
        /\ pc'[t] = "answered" => throughout'[t] \subseteq answer'[t]
    <2>1. CASE FindGlobal(t)
      <3>1. /\ pc'[t] = "application"
            /\ answer'[t] = Shown(messages, now, Everyone)
        BY <2>1 DEF FindGlobal, Continue, AnswersInv, TypeInv, TypeOK
      <3> HIDE DEF shown
      <3> QED
        BY <1>5, <1>6, <3>1
    <2>2. CASE FindApplication(t)
      <3>1. /\ pc[t] = "application" /\ pc'[t] = "answered"
            /\ answer'[t] = answer[t] \cup Shown(messages, now, r.app)
        BY <2>2 DEF FindApplication, Continue, AnswersInv, TypeInv, TypeOK
      <3>2. /\ answer[t] \subseteq sometime[t]
            /\ \A e \in throughout[t] : e.to = Everyone => e \in answer[t]
        BY <3>1 DEF AnswersInv, AnswersSoFar
      <3> HIDE DEF shown
      <3> QED
        BY <1>5, <1>6, <3>1, <3>2
    <2> QED
      BY <2>1, <2>2
  <1>8. AnswersSoFar' /\ AnswersAreOfTheCall'
    <2>1. ASSUME NEW s \in Threads \ {t}
          PROVE  /\ pc'[s] \in {"application", "answered"} =>
                       answer'[s] \subseteq sometime'[s]
                 /\ pc'[s] = "application" =>
                       \A e \in throughout'[s] :
                           e.to = Everyone => e \in answer'[s]
                 /\ pc'[s] = "answered" => throughout'[s] \subseteq answer'[s]
      BY <1>2, <1>4 DEF AnswersInv, AnswersSoFar, AnswersAreOfTheCall
    <2> QED
      BY <1>7, <2>1 DEF AnswersSoFar, AnswersAreOfTheCall
  <1> QED
    BY <1>3, <1>8 DEF AnswersInv

LEMMA AnswersNext == AnswersInv /\ [Next]_vars => AnswersInv'
  <1> SUFFICES ASSUME AnswersInv, [Next]_vars
               PROVE  AnswersInv'
    OBVIOUS
  <1>0. TypeInv'
    BY TypeNext DEF AnswersInv
  <1>1. ASSUME NEW t \in Threads, Submit(t)
        PROVE  AnswersInv'
    <2>1. /\ Remember
          /\ \E r \in Requests :
                pc' = [pc EXCEPT ![t] = FirstStep(r)] /\ answer' = answer
      BY <1>1 DEF Submit
    <2>2. \A r : FirstStep(r) \notin {"application", "answered"}
      BY DEF FirstStep
    <2> QED
      BY <1>0, <2>1, <2>2, OtherStepsKeepAnswers
         DEF AnswersInv, TypeInv, TypeOK
  <1>2. ASSUME NEW t \in Threads, Find(t)
        PROVE  AnswersInv'
    <2>1. CASE Rollback(t)
      BY <1>0, <2>1, EndKeepsAnswers DEF Rollback
    <2>2. CASE Continue(t, "commit") /\ answer' = answer
      <3>1. Remember /\ pc' = [pc EXCEPT ![t] = "commit"]
        BY <2>2 DEF Continue
      <3> QED
        BY <1>0, <2>2, <3>1, OtherStepsKeepAnswers
           DEF AnswersInv, TypeInv, TypeOK
    <2> QED
      BY <1>2, <2>1, <2>2 DEF Find
  <1>3. ASSUME NEW t \in Threads, FindGlobal(t) \/ FindApplication(t)
        PROVE  AnswersInv'
    BY <1>0, <1>3, QueriesKeepAnswers
  <1>4. ASSUME NEW t \in Threads,
               Answer(t) \/ Commit(t) \/ CommitFails(t) \/ Abort(t)
        PROVE  AnswersInv'
    BY <1>0, <1>4, EndKeepsAnswers
       DEF Answer, Commit, CommitFails, Abort, Rollback
  <1>5. CASE Tick
    BY <1>0, <1>5, OtherStepsKeepAnswers DEF Tick
  <1>6. CASE UNCHANGED vars
    BY <1>6 DEF vars, AnswersInv, TypeInv, TypeOK, HandlersKeepToTheirSteps,
                HistoriesFit, AnswersSoFar, AnswersAreOfTheCall
  <1> QED
    BY <1>1, <1>2, <1>3, <1>4, <1>5, <1>6 DEF Next, Handle

\* However many edits, deletions and days pass between the two queries, what was
\* to be shown all along is in the answer, and nothing that never was.
THEOREM AnswersAreOfTheCallHolds == Spec => []AnswersAreOfTheCall
  <1>1. Init => AnswersInv
    <2>1. Init => TypeInv
      BY PublicServicesAssumption
         DEF Init, TypeInv, TypeOK, HandlersKeepToTheirSteps, IdsOf, Token,
             Message
    <2> QED
      BY <2>1 DEF Init, AnswersInv, HistoriesFit, AnswersSoFar,
                  AnswersAreOfTheCall
  <1>2. AnswersInv => AnswersAreOfTheCall
    BY DEF AnswersInv
  <1> QED
    BY <1>1, <1>2, AnswersNext, PTL DEF Spec

-----------------------------------------------------------------------------
(* What no overlap of commits does. *)

\* Only commits write.
LEMMA OtherStepsKeepTables ==
    ASSUME [Next]_vars, \A t \in Threads : ~Commit(t)
    PROVE  UNCHANGED tables
  BY DEF Next, Submit, Handle, Find, FindGlobal, FindApplication, Answer,
         CommitFails, Abort, Rollback, Continue, Tick, tables, vars

\* A commit makes a message of an id nobody has had, or writes one that is there.
LEMMA CommitOfMessages ==
    ASSUME TypeInv, NEW t \in Threads, Commit(t),
           NEW id \in IdsOf(messages')
    PROVE  id \in IdsOf(messages) \/ id \notin given
  <1>1. PICK new \in messages' : new.id = id
    BY DEF IdsOf
  <1>2. messages' \in MessagesAfter(t)
    BY DEF Commit
  <1>3. CASE new \in messages
    BY <1>1, <1>3 DEF IdsOf
  <1>4. CASE new \notin messages /\ request[t].op = "CreateMessage"
    BY <1>1, <1>2, <1>4 DEF MessagesAfter
  <1>5. CASE new \notin messages /\ request[t].op = "EditMessage"
    <2>1. PICK row \in messages :
               /\ row.id = request[t].id
               /\ messages' = (messages \ {row}) \cup {Edited(t)}
      BY <1>1, <1>2, <1>5 DEF MessagesAfter, Written
    <2>2. new.id = row.id
      BY <1>5, <2>1 DEF Edited
    <2> QED
      BY <1>1, <2>2 DEF IdsOf
  <1>6. CASE new \notin messages
             /\ request[t].op \notin {"CreateMessage", "EditMessage"}
    BY <1>1, <1>2, <1>6 DEF MessagesAfter
  <1> QED
    BY <1>3, <1>4, <1>5, <1>6

\* No edit that overlaps its message's deletion brings it back.
THEOREM DeletedMessagesStayGoneHolds == Spec => DeletedMessagesStayGone
  <1> DEFINE Gone == \A id \in given \ IdsOf(messages) : id \notin IdsOf(messages')
  <1>1. TypeInv /\ [Next]_vars => [Gone]_vars
    <2> SUFFICES ASSUME TypeInv, [Next]_vars
                 PROVE  Gone
      OBVIOUS
    <2>1. CASE \E t \in Threads : Commit(t)
      BY <2>1, CommitOfMessages
    <2>2. CASE \A t \in Threads : ~Commit(t)
      BY <2>2, OtherStepsKeepTables DEF tables
    <2> QED
      BY <2>1, <2>2
  <1> QED
    BY <1>1, TypeCorrect, PTL DEF Spec, DeletedMessagesStayGone

\* What a step that opens the services again has found.
OpensAgain(app, id) ==
    \E t \in Threads :
        /\ pc[t] = "commit"
        /\ \/ request[t].op = "CreateToken" /\ id \notin given
           \/ /\ request[t].op = "SwitchActiveStatus"
              /\ \A row \in loaded[t] : row.id = id /\ ~row.active

LEMMA CommitOfTokens ==
    ASSUME TypeInv, NEW t \in Threads, Commit(t), NEW app, NEW id,
           ~GivenTokenExists(tokens, app, id), GivenTokenExists(tokens', app, id)
    PROVE  OpensAgain(app, id)
  <1>1. PICK new \in tokens' : new.active /\ new.app = app /\ new.id = id
    BY DEF GivenTokenExists
  <1>2. new \notin tokens
    BY <1>1 DEF GivenTokenExists
  <1>3. tokens' \in TokensAfter(t) /\ pc[t] = "commit"
    BY DEF Commit
  <1>4. CASE request[t].op = "CreateToken"
    <2>1. id \notin given
      BY <1>1, <1>2, <1>3, <1>4 DEF TokensAfter
    <2> QED
      BY <1>3, <1>4, <2>1 DEF OpensAgain
  <1>5. CASE request[t].op = "SwitchActiveStatus"
    <2>1. PICK row \in Token : loaded[t] = {row} /\ row.id = request[t].id
      BY <1>3, <1>5 DEF TypeInv, HandlersKeepToTheirSteps
    <2>2. (CHOOSE x \in loaded[t] : TRUE) = row
      BY <2>1
    <2>3. tokens' = {Switched(t, x) : x \in tokens}
      BY <1>3, <1>5 DEF TokensAfter
    <2>4. PICK old \in tokens : new = Switched(t, old)
      BY <2>3
    <2>5. new = [row EXCEPT !.active = ~@]
      BY <1>2, <2>2, <2>4 DEF Switched
    <2>6. row.id = id /\ ~row.active
      BY <1>1, <2>1, <2>5 DEF Token
    <2> QED
      BY <1>3, <1>5, <2>1, <2>6 DEF OpensAgain
  <1>6. CASE request[t].op \notin {"CreateToken", "SwitchActiveStatus"}
    BY <1>2, <1>3, <1>6 DEF TokensAfter
  <1> QED
    BY <1>4, <1>5, <1>6

\* Switches that overlap never undo each other: what opens the services again is
\* a new token, or a switch whose own request has found the token inactive.
THEOREM OnlyALaterSwitchReopensHolds == Spec => OnlyALaterSwitchReopens
  <1> DEFINE Opens == \A app \in Apps, id \in TokenIds :
                        /\ ~GivenTokenExists(tokens, app, id)
                        /\ GivenTokenExists(tokens', app, id)
                        => OpensAgain(app, id)
  <1>1. TypeInv /\ [Next]_vars => [Opens]_vars
    <2> SUFFICES ASSUME TypeInv, [Next]_vars
                 PROVE  Opens
      OBVIOUS
    <2>1. CASE \E t \in Threads : Commit(t)
      BY <2>1, CommitOfTokens
    <2>2. CASE \A t \in Threads : ~Commit(t)
      BY <2>2, OtherStepsKeepTables DEF tables, GivenTokenExists
    <2> QED
      BY <2>1, <2>2
  <1> QED
    BY <1>1, TypeCorrect, PTL
       DEF Spec, OnlyALaterSwitchReopens, OpensAgain

=============================================================================
