--------------------------- MODULE PublicServices ---------------------------
(***************************************************************************)
(* What Catbert offers to other programs, and who administers it: the      *)
(* access tokens that open its services (AccessTokenController,            *)
(* ApplicationAuthorizationValidator), and the messages their users are    *)
(* shown (MessageController, MessageService).                              *)
(*                                                                         *)
(* A request of an administrator is one transaction, as in UserManagement: *)
(* it reads a row, and writes at the commit.  GetMessages is not: its two  *)
(* queries see two states of the table, and may see two days.              *)
(***************************************************************************)
EXTENDS Naturals, FiniteSets

CONSTANTS
    Threads,      \* the server's request threads
    Apps,         \* applications
    Everyone,     \* the application of a message for all of them: NULL
    TokenIds,     \* ids, IDENTITY values given out in any order, once; the two
    MessageIds,   \* tables' are told apart
    Requests,     \* what administrators and programs may ask for
    NoRequest,    \* the request of an idle thread
    InitTokens,   \* the AccessTokens table
    InitMessages, \* and the Messages table at the start
    MaxTime       \* bound: the last moment of the clock

\* A token's text is a GUID nobody else has: its id stands for it.
Token == [id : TokenIds, app : Apps, active : BOOLEAN]

\* The form of a message, and its row.  Texts are left out.
Body == [to : Apps \cup {Everyone}, active : BOOLEAN, begin : Nat, end : Nat]
Message == [id : MessageIds, body : Body]

Request ==
    [op : {"CreateToken"}, app : Apps]
    \cup [op : {"SwitchActiveStatus"}, id : TokenIds]
    \cup [op : {"CreateMessage"}, body : Body]
    \cup [op : {"EditMessage"}, id : MessageIds, body : Body]
    \cup [op : {"DeleteMessage"}, id : MessageIds]
    \cup [op : {"GetMessages"}, app : Apps]

IdsOf(rows) == {row.id : row \in rows}

ASSUME PublicServicesAssumption ==
    /\ Requests \subseteq Request /\ NoRequest \notin Requests
    /\ Everyone \notin Apps /\ TokenIds \cap MessageIds = {}
    /\ InitTokens \subseteq Token /\ InitMessages \subseteq Message
    /\ \A x, y \in InitTokens : x.id = y.id => x = y
    /\ \A x, y \in InitMessages : x.id = y.id => x = y
    /\ MaxTime \in Nat

-----------------------------------------------------------------------------
VARIABLES
    tokens,     \* the AccessTokens table
    messages,   \* the Messages table
    given,      \* the ids ever given out
    now,        \* the clock
    pc,         \* the next step of each thread
    request,    \* the request it handles
    loaded,     \* the row its session has loaded, as a set
    answer,     \* what its queries have found for the program that asks
    throughout, \* history: what has been to show ever since it asked,
    sometime    \* and what was at any moment since

vars == <<tokens, messages, given, now, pc, request, loaded, answer,
          throughout, sometime>>
tables == <<tokens, messages, given>>

\* An entry of an answer: a message, and whom it is addressed to.
Entry == [id : MessageIds, to : Apps \cup {Everyone}]

TypeOK ==
    /\ tokens \subseteq Token
    /\ messages \subseteq Message
    /\ given \subseteq TokenIds \cup MessageIds
    /\ now \in 0..MaxTime
    /\ pc \in [Threads ->
                  {"idle", "find", "commit", "global", "application", "answered"}]
    /\ request \in [Threads -> Requests \cup {NoRequest}]
    /\ loaded \in [Threads -> SUBSET (Token \cup Message)]
    /\ answer \in [Threads -> SUBSET Entry]
    /\ throughout \in [Threads -> SUBSET Entry]
    /\ sometime \in [Threads -> SUBSET Entry]

Init ==
    /\ tokens = InitTokens
    /\ messages = InitMessages
    /\ given = IdsOf(InitTokens) \cup IdsOf(InitMessages)
    /\ now = 0
    /\ pc = [t \in Threads |-> "idle"]
    /\ request = [t \in Threads |-> NoRequest]
    /\ loaded = [t \in Threads |-> {}]
    /\ answer = [t \in Threads |-> {}]
    /\ throughout = [t \in Threads |-> {}]
    /\ sometime = [t \in Threads |-> {}]

-----------------------------------------------------------------------------
\* A slip of the condition below: inactive messages are shown as well.
ShownActiveOrNot(rows, time, to) ==
    {[id |-> m.id, to |-> to] : m \in {x \in rows :
        x.body.to = to /\ x.body.begin < time /\ time < x.body.end}}

\* The condition of both queries of GetMessages.
Shown(rows, time, to) ==
    {[id |-> m.id, to |-> to] : m \in {x \in rows :
        /\ x.body.to = to
        /\ x.body.active
        /\ x.body.begin < time /\ time < x.body.end}}

\* What there is to show to the program that makes request r.
ToShow(r, rows, time) ==
    IF r \in Requests /\ r.op = "GetMessages"
    THEN {e \in Entry : e.to \in {Everyone, r.app}
                           /\ \E m \in rows :
                                 /\ m.id = e.id /\ m.body.to = e.to
                                 /\ m.body.active
                                 /\ m.body.begin < time /\ time < m.body.end}
    ELSE {}

\* The two histories, from the step's new state.
Remember ==
    LET shown(t) == ToShow(request'[t], messages', now')
    IN  /\ throughout' = [t \in Threads |->
               IF pc[t] = "idle" THEN shown(t) ELSE throughout[t] \cap shown(t)]
        /\ sometime' = [t \in Threads |->
               IF pc'[t] = "idle" THEN {} ELSE sometime[t] \cup shown(t)]

-----------------------------------------------------------------------------
FirstStep(r) ==
    CASE r.op \in {"CreateToken", "CreateMessage"} -> "commit"
      [] r.op = "GetMessages" -> "global"
      [] OTHER -> "find"

\* [Future] EndDisplayDate
IsValid(body) == body.end > now

\* A new message that is not valid comes back and leaves nothing.
Submit(t) ==
    \E r \in Requests :
        /\ pc[t] = "idle"
        /\ r.op = "CreateMessage" => IsValid(r.body)
        /\ pc' = [pc EXCEPT ![t] = FirstStep(r)]
        /\ request' = [request EXCEPT ![t] = r]
        /\ UNCHANGED <<tables, now, loaded, answer>>
        /\ Remember

\* A slip of the step below: the session and its row outlive the request.
EndRequestKeepingRow(t) ==
    /\ pc' = [pc EXCEPT ![t] = "idle"]
    /\ request' = [request EXCEPT ![t] = NoRequest]
    /\ answer' = [answer EXCEPT ![t] = {}]
    /\ UNCHANGED <<now, loaded>>
    /\ Remember

EndRequest(t) ==
    /\ pc' = [pc EXCEPT ![t] = "idle"]
    /\ request' = [request EXCEPT ![t] = NoRequest]
    /\ loaded' = [loaded EXCEPT ![t] = {}]
    /\ answer' = [answer EXCEPT ![t] = {}]
    /\ UNCHANGED now
    /\ Remember

Rollback(t) == UNCHANGED tables /\ EndRequest(t)

Abort(t) ==
    /\ pc[t] # "idle"
    /\ Rollback(t)

Continue(t, next) ==
    /\ pc' = [pc EXCEPT ![t] = next]
    /\ UNCHANGED <<tables, now, request>>
    /\ Remember

\* GetNullableById: a row that is not there is a redirect.  An edit that is not
\* valid has changed the loaded entity already; whether that is written when the
\* request ends is up to the framework.
Find(t) ==
    LET r == request[t]
    IN  /\ pc[t] = "find"
        /\ \/ \E row \in tokens \cup messages :
                 /\ row.id = r.id
                 /\ loaded' = [loaded EXCEPT ![t] = {row}]
                 /\ UNCHANGED answer
                 /\ Continue(t, "commit")
           \/ /\ r.id \in IdsOf(tokens \cup messages) =>
                    r.op = "EditMessage" /\ ~IsValid(r.body)
              /\ Rollback(t)

\* The two queries of GetMessages.
FindGlobal(t) ==
    /\ pc[t] = "global"
    /\ answer' = [answer EXCEPT ![t] = Shown(messages, now, Everyone)]
    /\ UNCHANGED loaded
    /\ Continue(t, "application")

FindApplication(t) ==
    /\ pc[t] = "application"
    /\ answer' = [answer EXCEPT ![t] =
                     @ \cup Shown(messages, now, request[t].app)]
    /\ UNCHANGED loaded
    /\ Continue(t, "answered")

Answer(t) ==
    /\ pc[t] = "answered"
    /\ Rollback(t)

-----------------------------------------------------------------------------
(* The commits of the administrators. *)

\* A slip of the operator below: the database switches what it has by then.
SwitchedInPlace(t, row) ==
    IF row.id = request[t].id THEN [row EXCEPT !.active = ~@] ELSE row

\* Active = !Active, of the entity the session loaded, and all its columns.
Switched(t, row) ==
    IF row.id = request[t].id
    THEN [CHOOSE r \in loaded[t] : TRUE EXCEPT !.active = ~@]
    ELSE row

TokensAfter(t) ==
    CASE request[t].op = "CreateToken" ->
             {tokens \cup {[id |-> id, app |-> request[t].app, active |-> TRUE]} :
                 id \in TokenIds \ given}
      [] request[t].op = "SwitchActiveStatus" ->
             {{Switched(t, row) : row \in tokens}}
      [] OTHER -> {tokens}

\* The row an edit makes, and whether it differs from what was loaded.
Edited(t) == [id |-> request[t].id, body |-> request[t].body]
IsDirty(t) == loaded[t] # {Edited(t)}

\* A slip of the operator below: a row that is gone is written again.
WrittenAgain(t) ==
    {IF IsDirty(t)
     THEN {row \in messages : row.id # request[t].id} \cup {Edited(t)}
     ELSE messages}

\* The tables an edit may leave.  NHibernate writes the row if it differs, and
\* counts the rows it has written: if there is none, no table is right.
Written(t) ==
    IF IsDirty(t)
    THEN {(messages \ {row}) \cup {Edited(t)} :
              row \in {m \in messages : m.id = request[t].id}}
    ELSE {messages}

MessagesAfter(t) ==
    CASE request[t].op = "CreateMessage" ->
             {messages \cup {[id |-> id, body |-> request[t].body]} :
                 id \in MessageIds \ given}
      [] request[t].op = "EditMessage" -> Written(t)
      [] request[t].op = "DeleteMessage" ->
             {messages \ {row} : row \in {m \in messages : m.id = request[t].id}}
      [] OTHER -> {messages}

Commit(t) ==
    /\ pc[t] = "commit"
    /\ tokens' \in TokensAfter(t)
    /\ messages' \in MessagesAfter(t)
    /\ given' = given \cup IdsOf(tokens') \cup IdsOf(messages')
    /\ EndRequest(t)

\* The row an edit or a deletion has loaded is gone.
CommitFails(t) ==
    /\ pc[t] = "commit"
    /\ request[t].op \in {"EditMessage", "DeleteMessage"}
    /\ MessagesAfter(t) = {}
    /\ Rollback(t)

Tick ==
    /\ now < MaxTime
    /\ now' = now + 1
    /\ UNCHANGED <<tables, pc, request, loaded, answer>>
    /\ Remember

Handle(t) ==
    \/ Find(t)
    \/ FindGlobal(t)
    \/ FindApplication(t)
    \/ Answer(t)
    \/ Commit(t)
    \/ CommitFails(t)

Next ==
    \/ \E t \in Threads : Submit(t) \/ Handle(t) \/ Abort(t)
    \/ Tick

Spec == Init /\ [][Next]_vars

-----------------------------------------------------------------------------
(* Properties. *)

\* Which requests may be where, and what their sessions have loaded.
HandlersKeepToTheirSteps ==
    \A t \in Threads :
        /\ pc[t] = "idle" =>
              request[t] = NoRequest /\ loaded[t] = {} /\ answer[t] = {}
        /\ pc[t] # "idle" => request[t] \in Requests
        /\ pc[t] \in {"find", "commit"} => request[t].op # "GetMessages"
        /\ pc[t] = "find" =>
              request[t].op \notin {"CreateToken", "CreateMessage"}
        /\ pc[t] \in {"global", "application", "answered"} =>
              request[t].op = "GetMessages"
        /\ pc[t] = "commit" =>
              /\ request[t].op = "SwitchActiveStatus" =>
                    \E row \in loaded[t] :
                        /\ loaded[t] = {row} /\ row \in Token
                        /\ row.id = request[t].id
              /\ request[t].op \in {"EditMessage", "DeleteMessage"} =>
                    \E row \in loaded[t] :
                        /\ loaded[t] = {row} /\ row \in Message
                        /\ row.id = request[t].id

TypeInv == TypeOK /\ HandlersKeepToTheirSteps

\* "Returns the system messages or application messages that are active": what
\* is edited, deleted or expires between the two queries may be in the answer or
\* not, but a message that was to be shown all the time is there, and everything
\* in the answer was to be shown at some moment since the program asked.
AnswersAreOfTheCall ==
    \A t \in Threads :
        pc[t] = "answered" =>
            throughout[t] \subseteq answer[t] /\ answer[t] \subseteq sometime[t]

\* Validate: the token opens the services to the application.
GivenTokenExists(rows, app, id) ==
    \E row \in rows : row.active /\ row.app = app /\ row.id = id

\* The button of a token's page says "Deactivate Token", but the form it posts
\* says no more than "switch".  Two posts that overlap do what one does: a token
\* that opens nothing opens something again only by a request that found it
\* inactive, or is new.
OnlyALaterSwitchReopens ==
    [][\A app \in Apps, id \in TokenIds :
          /\ ~GivenTokenExists(tokens, app, id)
          /\ GivenTokenExists(tokens', app, id)
          => \E t \in Threads :
                /\ pc[t] = "commit"
                /\ \/ request[t].op = "CreateToken" /\ id \notin given
                   \/ /\ request[t].op = "SwitchActiveStatus"
                      /\ \A row \in loaded[t] : row.id = id /\ ~row.active]_vars

\* An edit that overlaps the deletion of its message does not bring it back, nor
\* does any other request: a message that is gone stays gone.
DeletedMessagesStayGone ==
    [][\A id \in given \ IdsOf(messages) : id \notin IdsOf(messages')]_vars
=============================================================================
