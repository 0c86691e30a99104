---------------------------- MODULE ManageDialog ----------------------------
(***************************************************************************)
(* The Manage page in a manager's browser (Scripts/UserManagement.js): a    *)
(* table of the users of one application, a dialog that shows and changes   *)
(* the roles and units of one of them, and the requests the script sends    *)
(* without waiting for their answers.  The server is what the handlers of   *)
(* UserManagementController make of one such request at a time.             *)
(*                                                                          *)
(* A role or a unit is an item.  The script does not look at the answer of  *)
(* a post and has no handler for errors, so a request that fails leaves the *)
(* page as it is; failed remembers about whom one did, since the server     *)
(* last told the page about them.                                           *)
(*                                                                          *)
(* DataTables keeps only the rows of the page and filters that are chosen   *)
(* in the document, and GetRowFor looks there.  Which rows these are is not *)
(* kept: they are chosen when it looks.                                     *)
(***************************************************************************)
EXTENDS Integers, Sequences, SequencesExt

CONSTANTS
    Logins,     \* the users GetByApplication lists once they have a role and a unit
    Roles,
    Units,
    Editable,   \* the roles and units the manager may give: Model.Roles, Model.Units
    InitServer, \* the items of each login at the start
    Closed,     \* no dialog is open
    Patient,    \* does the manager wait for what the page is still fetching?
    InOrder,    \* are requests handled in the order they are sent?
    MaxInFlight, \* bound: requests and answers under way
    MaxRows     \* bound: rows the table has for one login

Items == Roles \cup Units

ASSUME ItemAssumption ==
    /\ Roles \cap Units = {}
    /\ Editable \subseteq Items
    /\ InitServer \in [Logins -> SUBSET Items]
    /\ Closed \notin Logins
    /\ {Patient, InOrder} \subseteq BOOLEAN
    /\ {MaxInFlight, MaxRows} \subseteq Nat

VARIABLES
    server,    \* the items each login has
    failed,    \* the logins a request about whom failed since they were fetched
    table,     \* the rows the page's table has for each login, and their items
    doubled,   \* the logins that ever got a row beside one they had
    dialog,    \* the login the open dialog was opened for
    displayed, \* is a row of that login certainly in the document?
    blocks,    \* the #user-info elements in the dialog, first one first
    requests,  \* requests on their way to the server
    answers    \* answers on their way back

page == <<table, doubled, dialog, displayed, blocks>>
vars == <<server, failed, page, requests, answers>>

\* A table row of a block: the item, the login its Remove link names, and
\* whether the row is fading out.
BlockRow == [item : Items, login : Logins, fading : BOOLEAN]

\* live: do its links have a click handler?
Block == [login : Logins, rows : SUBSET BlockRow, live : BOOLEAN]

Load == [op : {"load"}, login : Logins]
Post == [op : {"add", "remove"}, login : Logins, item : Items]
Insert == [op : {"insert"}, login : Logins, items : SUBSET Items]
Answer == [op : {"load", "insert"}, login : Logins, items : SUBSET Items]

TypeOK ==
    /\ server \in [Logins -> SUBSET Items]
    /\ failed \subseteq Logins
    /\ table \in [Logins -> Seq(SUBSET Items)]
    /\ doubled \subseteq Logins
    /\ dialog \in Logins \cup {Closed}
    /\ displayed \in BOOLEAN
    /\ blocks \in Seq(Block)
    /\ requests \in Seq(Load \cup Post \cup Insert)
    /\ answers \in Seq(Answer)

\* A login is listed with at least one role and one unit.
Listed(items) == items \cap Roles # {} /\ items \cap Units # {}

\* The rows of a login that is listed once, or not at all.
RowsOf(items) == IF Listed(items) THEN <<items>> ELSE <<>>

Init ==
    /\ server = InitServer
    /\ failed = {}
    /\ table = [l \in Logins |-> RowsOf(InitServer[l])]
    /\ doubled = {}
    /\ dialog = Closed
    /\ displayed = TRUE
    /\ blocks = <<>>
    /\ requests = <<>>
    /\ answers = <<>>

-----------------------------------------------------------------------------
(* The manager and the page. *)

InFlight == Len(requests) + Len(answers)

\* Something the page will show is still on its way.
Fetching ==
    \/ answers # <<>>
    \/ \E i \in DOMAIN requests : requests[i].op \in {"load", "insert"}

Fading == \E i \in DOMAIN blocks : \E row \in blocks[i].rows : row.fading

Send(m) ==
    /\ InFlight < MaxInFlight
    /\ requests' = Append(requests, m)

\* A click on the link of a row (.modify-user), which is in the document then.
\* Dialogs are modal.
ModifyUser(l) ==
    /\ dialog = Closed
    /\ table[l] # <<>>
    /\ Patient => ~Fetching
    /\ Send([op |-> "load", login |-> l])
    /\ dialog' = l
    /\ UNCHANGED <<server, failed, table, doubled, displayed, blocks, answers>>

\* The form of the find-user dialog (#add-new-user): one of the manager's roles
\* and one of the manager's units.
SubmitNewUser(l) ==
    \E role \in Roles \cap Editable : \E unit \in Units \cap Editable :
        /\ dialog = Closed
        /\ Patient => ~Fetching
        /\ Send([op |-> "insert", login |-> l, items |-> {role, unit}])
        /\ UNCHANGED <<server, failed, page, answers>>

\* The Add link of block b.  The list and the table are found by their ids, so
\* they are those of the first block; the login is that of the link.
AddAssociation(b) ==
    \E item \in Editable :
        /\ dialog # Closed /\ blocks[b].live
        /\ \A row \in blocks[1].rows : row.item # item
        /\ blocks' = [blocks EXCEPT ![1].rows =
               @ \cup {[item |-> item, login |-> blocks[b].login,
                        fading |-> FALSE]}]
        /\ Send([op |-> "add", login |-> blocks[b].login, item |-> item])
        /\ UNCHANGED <<server, failed, table, doubled, dialog, displayed, answers>>

\* A Remove link of block b: the row begins to fade out and the post leaves.  A
\* fading row can be clicked again.
RemoveAssociation(b) ==
    \E row \in blocks[b].rows :
        /\ dialog # Closed /\ blocks[b].live
        /\ row.item \in Editable
        /\ blocks' = [blocks EXCEPT ![b].rows =
               (@ \ {row}) \cup {[row EXCEPT !.fading = TRUE]}]
        /\ Send([op |-> "remove", login |-> row.login, item |-> row.item])
        /\ UNCHANGED <<server, failed, table, doubled, dialog, displayed, answers>>

\* The callback of fadeOut.
FadedOut(b) ==
    \E row \in blocks[b].rows :
        /\ row.fading
        /\ blocks' = [blocks EXCEPT ![b].rows = @ \ {row}]
        /\ UNCHANGED <<server, failed, table, doubled, dialog, displayed,
                       requests, answers>>

\* What UpdateRecord reads: the rows of all blocks, fading or not.
Shown == {row.item : row \in UNION {blocks[i].rows : i \in DOMAIN blocks}}

\* UpdateRecord with row k of the dialog's login found: it becomes what is shown,
\* or goes when that has no role or no unit.
UpdateRecord(k) ==
    table' = [table EXCEPT ![dialog] =
                 IF Listed(Shown) THEN [@ EXCEPT ![k] = Shown]
                 ELSE RemoveAt(@, k)]

\* The rest of beforeClose: unbind all links, remove the first #user-info there is.
CloseDialog ==
    /\ dialog' = Closed
    /\ displayed' = TRUE
    /\ blocks' = [i \in 1..(IF blocks = <<>> THEN 0 ELSE Len(blocks) - 1) |->
                     [blocks[i + 1] EXCEPT !.live = FALSE]]

\* UpdateRecord with no row found: fnUpdate throws, which keeps the dialog open;
\* fnDeleteRow takes the first row the table ever got, whosever it is, and may or
\* may not throw when it draws the table.
CloseWithoutRow ==
    IF Listed(Shown) THEN UNCHANGED page
    ELSE /\ IF \A l \in Logins : table[l] = <<>> THEN UNCHANGED table
            ELSE \E l \in Logins : \E k \in DOMAIN table[l] :
                    table' = [table EXCEPT ![l] = RemoveAt(@, k)]
         /\ CloseDialog \/ UNCHANGED <<dialog, displayed, blocks>>
         /\ UNCHANGED doubled

\* A slip of the step below: the element stays in the dialog.
CloseKeepingBlock ==
    /\ dialog # Closed
    /\ Patient => ~Fetching /\ ~Fading
    /\ \E k \in DOMAIN table[dialog] : UpdateRecord(k)
    /\ dialog' = Closed
    /\ UNCHANGED <<server, failed, doubled, displayed, blocks, requests, answers>>

\* A slip of the step below: the record is updated and the dialog stays.
UpdateWithoutClosing ==
    /\ dialog # Closed
    /\ Patient => ~Fetching /\ ~Fading
    /\ \E k \in DOMAIN table[dialog] : UpdateRecord(k)
    /\ UNCHANGED <<server, failed, doubled, dialog, displayed, blocks,
                   requests, answers>>

\* beforeClose.
Close ==
    /\ dialog # Closed
    /\ Patient => ~Fetching /\ ~Fading
    /\ \/ /\ \E k \in DOMAIN table[dialog] : UpdateRecord(k)
          /\ CloseDialog
          /\ UNCHANGED doubled
       \/ ~displayed /\ CloseWithoutRow
    /\ UNCHANGED <<server, failed, requests, answers>>

-----------------------------------------------------------------------------
(* The server.  A request may fail for reasons of its own (rights, a query    *)
(* that finds two rows) or of the database and the network.                   *)

\* CanUserManageGivenLogin: a unit of the login is one the manager sees.
CanManage(l) == server[l] \cap Units \cap Editable # {}

\* The request handled next.
Next1(queue) == IF InOrder THEN {1} \cap DOMAIN queue ELSE DOMAIN queue

\* The server has answered m about the items the login has by then.
AnswerWith(m, items) ==
    /\ answers' = Append(answers,
           [op |-> m.op, login |-> m.login, items |-> items])
    /\ failed' = failed \ {m.login}

\* m had no answer, or not the effect the page counts on.
Fail(m) == failed' = failed \cup {m.login} /\ UNCHANGED answers

\* LoadUser asks for no right.
LoadUser ==
    \E i \in Next1(requests) :
        /\ requests[i].op = "load"
        /\ requests' = RemoveAt(requests, i)
        /\ \/ AnswerWith(requests[i], server[requests[i].login])
           \/ Fail(requests[i])
        /\ UNCHANGED <<server, page>>

\* The items a post asks the server to give its login.
Wanted(m) == IF m.op = "add" THEN server[m.login] \cup {m.item}
             ELSE server[m.login] \ {m.item}

\* AddPermission, AddUnit, RemovePermission and RemoveUnit.  The first two do
\* nothing when the item is there; the last two fail when it is not, and then the
\* page is right all the same.
HandlePost ==
    \E i \in Next1(requests) :
        LET m == requests[i]
        IN  /\ m.op \in {"add", "remove"}
            /\ requests' = RemoveAt(requests, i)
            /\ \/ /\ CanManage(m.login)
                  /\ server' = [server EXCEPT ![m.login] = Wanted(m)]
                  /\ UNCHANGED <<failed, answers>>
               \/ /\ Wanted(m) # server[m.login]
                  /\ Fail(m)
                  /\ UNCHANGED server
               \/ /\ Wanted(m) = server[m.login]
                  /\ UNCHANGED <<server, failed, answers>>
            /\ UNCHANGED page

\* The second alternative is a commit whose answer is lost; a request that fails
\* earlier changes neither side.
InsertNewUser ==
    \E i \in Next1(requests) :
        LET m == requests[i]
            items == server[m.login] \cup m.items
        IN  /\ m.op = "insert"
            /\ requests' = RemoveAt(requests, i)
            /\ \/ /\ server' = [server EXCEPT ![m.login] = items]
                  /\ AnswerWith(m, items) \/ Fail(m)
               \/ UNCHANGED <<server, failed, answers>>
            /\ UNCHANGED page

-----------------------------------------------------------------------------
(* Answers. *)

\* The callback of LoadUser's getJSON appends a block to the dialog, open or
\* not, whoever it was opened for, and binds all links.
PopulateUserInfo ==
    \E i \in Next1(answers) :
        LET a == answers[i]
            block == [login |-> a.login, live |-> TRUE,
                      rows |-> {[item |-> item, login |-> a.login,
                                 fading |-> FALSE] : item \in a.items}]
        IN  /\ a.op = "load"
            /\ answers' = RemoveAt(answers, i)
            /\ blocks' = Append([k \in DOMAIN blocks |->
                                    [blocks[k] EXCEPT !.live = TRUE]], block)
            /\ UNCHANGED <<server, failed, table, doubled, dialog, displayed, requests>>

\* A slip of the step below: the row that is found is not deleted.
AppendRow ==
    \E i \in Next1(answers) :
        LET a == answers[i]
        IN  /\ a.op = "insert"
            /\ answers' = RemoveAt(answers, i)
            /\ Len(table[a.login]) < MaxRows
            /\ table' = [table EXCEPT ![a.login] = Append(@, a.items)]
            /\ UNCHANGED <<server, failed, doubled, dialog, displayed, blocks, requests>>

\* A row of the login that GetRowFor finds is deleted; then one is added.  Rows that
\* are not in the document stay.  Adding draws the table anew, which may take the
\* row of an open dialog out of the document, or put it back.
AddNewUserSuccess ==
    \E i \in Next1(answers) :
        LET a == answers[i]
            rows == table[a.login]
        IN  /\ a.op = "insert"
            /\ answers' = RemoveAt(answers, i)
            /\ \/ /\ \E k \in DOMAIN rows : table' =
                        [table EXCEPT ![a.login] = Append(RemoveAt(rows, k), a.items)]
                  /\ UNCHANGED doubled
               \/ /\ displayed => a.login # dialog
                  /\ Len(rows) < MaxRows
                  /\ table' = [table EXCEPT ![a.login] = Append(rows, a.items)]
                  /\ doubled' = IF rows = <<>> THEN doubled
                                ELSE doubled \cup {a.login}
            /\ displayed' \in BOOLEAN
            /\ dialog = Closed => displayed'
            /\ dialog # Closed /\ displayed' => table'[dialog] # <<>>
            /\ UNCHANGED <<server, failed, dialog, blocks, requests>>

-----------------------------------------------------------------------------
Next ==
    \/ \E l \in Logins : ModifyUser(l) \/ SubmitNewUser(l)
    \/ \E b \in DOMAIN blocks :
          AddAssociation(b) \/ RemoveAssociation(b) \/ FadedOut(b)
    \/ Close
    \/ LoadUser
    \/ HandlePost
    \/ InsertNewUser
    \/ PopulateUserInfo
    \/ AddNewUserSuccess

Spec == Init /\ [][Next]_vars

-----------------------------------------------------------------------------
(* Properties. *)

\* Whatever arrives while the dialog is open: unless the table was drawn anew, its
\* login keeps a row for UpdateRecord to find.
TypeInv ==
    /\ TypeOK
    /\ dialog = Closed => displayed
    /\ dialog # Closed /\ displayed => table[dialog] # <<>>

\* The dialog never shows two users, or one user twice: a patient manager sees
\* at most one block, it is that of the dialog's login, and so are all its rows.
OneUserPerDialog ==
    /\ Len(blocks) <= 1
    /\ \A i \in DOMAIN blocks :
          /\ blocks[i].login = dialog
          /\ \A row \in blocks[i].rows : row.login = dialog

\* What a patient manager makes of the page's fetches, the inductive invariant
\* behind OneUserPerDialog: one at a time; for the dialog's own user while one is
\* open, for new users while none is; and none once the block is there.
FetchesFit ==
    LET fetches == {i \in DOMAIN requests : requests[i].op \in {"load", "insert"}}
        Fits(m) == IF dialog = Closed THEN m.op = "insert"
                   ELSE m.op = "load" /\ m.login = dialog /\ blocks = <<>>
    IN  /\ \A i, j \in fetches : i = j
        /\ Len(answers) <= 1
        /\ answers # <<>> => fetches = {}
        /\ \A i \in fetches : Fits(requests[i])
        /\ \A i \in DOMAIN answers : Fits(answers[i])

DialogInv == TypeInv /\ displayed /\ FetchesFit /\ OneUserPerDialog

\* Nothing is open or under way.
Settled == dialog = Closed /\ requests = <<>> /\ answers = <<>>

\* The rows of l say that it has these items: one of them does when they make a
\* listed login; and it is the only one, or there is none, unless l ever got a row
\* beside one it had.
RowsSay(l, items) ==
    /\ Listed(items) => \E k \in DOMAIN table[l] : table[l][k] = items
    /\ l \notin doubled => table[l] = RowsOf(items)

\* Requests handled in order and a patient manager given, the rows of every user
\* say once all is settled what the server has, unless a request about him failed
\* and the page has not fetched him since.  Adds, removals, removals clicked twice,
\* new users, rows that are not displayed, and dialogs opened while posts are still
\* on their way do not change that.
RowsAreRight == Settled => \A l \in Logins \ failed : RowsSay(l, server[l])

\* "Remove the user's row if they don't have any roles or units"
\* (UserManagement.js:326): once all is settled, who has both a role and a unit
\* has a row, if no request about him failed.
RowsGoOnlyWhenEmpty ==
    Settled =>
        \A l \in Logins \ failed : Listed(server[l]) => table[l] # <<>>

-----------------------------------------------------------------------------
(* Why the rows are right. *)

\* Is request m a post about item i of login l?
About(m, l, i) == m.op \in {"add", "remove"} /\ m.login = l /\ m.item = i

\* What the posts will make of item i of login l: what the last one about it asks
\* for, or what there is already.
Expected(l, i) ==
    \/ \E k \in DOMAIN requests :
          /\ About(requests[k], l, i)
          /\ requests[k].op # "remove"
          /\ \A j \in DOMAIN requests : j > k => ~About(requests[j], l, i)
    \/ /\ i \in server[l]
       /\ \A k \in DOMAIN requests : ~About(requests[k], l, i)

Will(l) == {i \in Items : Expected(l, i)}

\* A new user's answer will write a row of l.
Arriving(l) ==
    \E k \in DOMAIN answers : answers[k].op = "insert" /\ answers[k].login = l

\* A fetch is the last request there is, and what it brings is what the server
\* has; a new user has a role and a unit; and an open dialog without a block is
\* still being fetched, or its load has failed.
FetchesComeLast ==
    /\ \A i, j \in DOMAIN requests :
          requests[i].op \in {"load", "insert"} => j <= i
    /\ answers # <<>> => requests = <<>>
    /\ \A k \in DOMAIN answers : answers[k].items = server[answers[k].login]
    /\ \A k \in DOMAIN requests : requests[k].op = "insert" =>
          Listed(requests[k].items)
    /\ \A k \in DOMAIN answers : answers[k].op = "insert" =>
          Listed(answers[k].items)
    /\ dialog # Closed /\ blocks = <<>> => Fetching \/ dialog \in failed

\* An item is in the block at most once, and the rows that stay are what the
\* server will have.
BlockIsExpected ==
    \A b \in DOMAIN blocks :
        /\ \A r, s \in blocks[b].rows : r.item = s.item => r = s
        /\ dialog \notin failed =>
              \A i \in Items :
                  (\E r \in blocks[b].rows : r.item = i /\ ~r.fading)
                      <=> Expected(dialog, i)

\* Rows that neither the dialog nor an answer will write say what the server will
\* have, and a login has one row unless it ever got a second.
RowsAreExpected ==
    /\ \A l \in Logins \ doubled : Len(table[l]) <= 1
    /\ \A l \in Logins \ failed : l # dialog /\ ~Arriving(l) => RowsSay(l, Will(l))

\* The inductive invariant behind RowsAreRight: posts may be under way, but the page
\* is always ahead of the server by just those posts.
PageInv == DialogInv /\ FetchesComeLast /\ BlockIsExpected /\ RowsAreExpected

=============================================================================
