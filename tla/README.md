# Catbert: a verification project

Catbert is the web application UC Davis departments use to say who has which
role, in which unit, in which application. This directory models the parts of it
that decide and change those rights, checks the models with TLC, and proves the
results that matter most with TLAPS for any number of users, requests and server
threads.

## 1. Inventory

| Component | State it keeps | Operations | What makes it correct |
|---|---|---|---|
| User management, per application (`UserManagementController`) | rows of Users, Permissions, UnitAssociations | AddPermission, RemovePermission, AddUnit, RemoveUnit, InsertNewUser; reads Manage, FindUser, LoadUser | by the four guarded handlers nobody hands out more than the application's managers had (InsertNewUser has no such guard); a new user arrives with role and unit; a row is not added twice |
| User administration, all applications (`UserAdministrationController`) | the same rows | Add, Edit, Delete, AddPermission, RemovePermission, AddAssociation, RemoveAssociation | deleting a user takes its rows along or does nothing; no duplicates |
| Access rules (`Services/UserManagement`) | none (queries) | GetVisibleByUser for roles and units, CanUserManageGivenLogin, GetByApplication | manageable roles lie above the largest level held; units follow the ManageAll, ManageSchool, ManageUnit scope; list and check agree |
| Audit trail (`AuditInterceptor`) | Audits | one row per save, update, delete | accounts for every row, also when transactions fail |
| Database schema (`Catbert4.Sql`) | keys and indexes | | unique logins, no permission without its user |
| Role stored procedures (`usp_*`) | the same tables, and Tracking, for other programs | insertUserInRole, deleteUserFromRole, insertRole, deleteEmptyRole | soft deletion and NHibernate's filter agree |
| Query cache (`.Cache()`) | results of the management-role and unit queries | filled by reads, cleared by NHibernate's writes | never grants what the tables no longer do |
| Applications (`ApplicationController`) | Applications, ApplicationRoles | Create, Edit (`SetApplicationRoles`) | levels are 1, 2, ... once per role |
| Roles (`RoleController`) | Roles | Create | one active role per name |
| Schools and units (`SchoolController`, `UnitController`) | Schools, Unit | Create, Edit, Delete with a confirmation page | nothing in use is deleted |
| Access tokens, messages (`AccessTokenController`, `MessageController`, and `ApplicationAuthorizationValidator` and `MessageService` for other programs) | AccessTokens, Messages | Create, SwitchActiveStatus; Create, Edit, Delete; Validate, GetMessages | overlapping switches never open what both would close; an answer holds the messages of its call; what is deleted stays deleted |
| User dialog (`Scripts/UserManagement.js`) | the table on the page, the open dialog | load, add, remove, close | the page says what the server has |
| Role service and provider | none | read-only queries | who was removed is not found |
| Sign-on, directory search, views | none of its own | calls to CAS and LDAP | |

The controllers share the database and nothing else; each request is one
NHibernate session and one transaction. They call the access rules, NHibernate
calls the audit interceptor, and the browser's script calls the controller with
posts whose answers it does not wait for. The hard behaviours come from that: many
requests at once, queries and writes of one request separated in time, checks
that hold when read and not when used, and errors that must undo everything.
PROJECT.json lists each such hazard at its line.

## 2. Modules

`AccessRules` has the queries of the three services as operators over a database
value (a record of four tables; a table is a set of rows). It declares no
variables, so the same operators serve the actions, the properties and the proofs.

`UserManagement` is the server: `Threads` handle `Requests` one query at a time.

| In the model | In the code |
|---|---|
| `db`, `identity` | the committed tables and the last IDENTITY value of each |
| `audits` | the number of Audits rows, per table and action |
| `pc`, `request`, `scope`, `work` | where a thread is in its handler, the posted request, the management roles its last query found, what its session is to write |
| `Submit` | routing, binding and the start of the session |
| `ReadScope` | `GetManagementRolesForUserInApplication`, called by `GetVisibleByUserCore` each time units are asked for |
| `EnsureCurrentUserCanManageLogin`, `...ModifyRole`, `...ModifyUnit` | the three private methods of that name |
| `FindUser`, `FindRow`, `PermissionExists`, `AssociationExists`, `RoleIsAssociatedWithApplication`, `ClearPermissions`, `ClearAssociations` | the queries of the handlers' bodies |
| `Commit`, `CommitFails` | the end of the transaction: keys, row counts, audit rows, and all writes at once |
| `Abort` | an error of the network, the database or the process at any moment |

`RightsLedger` is what all this promises to the programs that rely on it: numbered
accounts, the roles they hold and the units they sit in, changed one whole entry or
one whole user at a time. `UserManagementLedger` has the mapping under which
`UserManagement` implements it:

| In the ledger | In `UserManagement` |
|---|---|
| `accounts`, `opened` | id and login of the rows of Users, and the table's last IDENTITY value |
| `rights`, `seats` | user, application and role or unit of the active rows of Permissions and UnitAssociations; copies of a row are one entry |
| `Open`, `Enroll` | the commits of `UserAdministrationController.Add` and of `InsertNewUser` for an unknown login |
| `Appoint` | the commits of every add, and of `InsertNewUser` for a known login |
| `Revoke`, `Unseat`, `Dismiss` | the commits of the removals, guarded or by id, and of Delete; removing one of two copies is a stutter |

`UserManagementProofs`, `UserManagementLedgerProofs` and `UserManagementCountProofs`
have the theorems; `MCUserManagement` the instances for TLC.
A definition whose comment begins with "A slip of" is a plausible mistake in the
one below it. No specification uses these; they document what each property would
catch.

`ApplicationRoles` is the application form: threads run `Create` and `Edit` of
`ApplicationController`, query by query, over the rows of ApplicationRoles, while
`RoleController.Create` adds role names and `usp_deleteEmptyRole`, another program's,
retires them. `orphans` are the rows a session took out of the collection
(`Cascade.AllDeleteOrphan`); `CanCommit` is the unique names and the row count
NHibernate checks after each delete. `RoleLists` is what this promises to programs
that compare levels: each application has one list of roles, ranked 1, 2, 3, ...
without a gap, and a save replaces a whole list at once. `ApplicationRolesLists` has
the mapping: a list is what an application's rows say of roles and levels, ids left
out; a commit of the application form is `Save`, of the role form `AddName`, the
other program's procedure `RetireName`. `ApplicationRolesProofs` has the theorems.

`ManageDialog` is the page: one manager's browser, with the table of users, the
dialog, and the requests and answers under way. What the handlers make of a request
is one step here (`UserManagement` shows them query by query).

| In the model | In the code |
|---|---|
| `server` | the roles and units each login has in the application |
| `failed` | nothing: the logins a request about whom failed, until the page fetches them again |
| `table` | the rows the table has for each login, displayed or not, two columns of a row as one set of items |
| `doubled` | nothing: the logins that ever got a row beside one they had |
| `displayed` | is a row of the open dialog's login certainly in the document? Nothing keeps it: DataTables detaches rows when it draws the table |
| `dialog`, `blocks` | the login `beforeClose` remembers, and the `#user-info` elements appended to `#manage-user` |
| `requests`, `answers` | XMLHttpRequests on their way, callbacks not yet run |
| `ModifyUser`, `SubmitNewUser`, `AddAssociation`, `RemoveAssociation`, `FadedOut`, `Close` | the handlers and callbacks of `UserManagement.js` |
| `UpdateRecord`, `CloseDialog`, `CloseWithoutRow` | what `beforeClose` does to the table and to the dialog; the last one when `GetRowFor` finds no row |
| `LoadUser`, `HandlePost`, `InsertNewUser` | the controller's answers, or their failure |
| `PopulateUserInfo`, `AddNewUserSuccess` | the callbacks that take them |

`GetRowFor` looks for `#login` in the document, where DataTables keeps only the rows
that filters and paging leave; so it finds any row of the login, or none. A row is
certainly there when its link is clicked, and until something draws the table anew,
which in a modal dialog only a new user's answer can (`displayed`). Without a row
`UpdateRecord` throws in `fnUpdate`, and the dialog stays open, or calls
`fnDeleteRow(undefined)`, which takes the first row of the table, whosever it is;
what DataTables makes of later calls on the damaged table is left out.

Any request may fail: for lack of rights, because `Single()` finds two rows, in the
database or on the way. A load or an insert that was answered tells the page about
its user anew; one that failed leaves the page as it is. An insert whose answer is
lost has been done. A removal of what is not there fails too, and does no harm.
The items of a login are a set: of an item the server has twice (see `Duplicates`)
the page shows two and the model one, and its removals are posts that fail.
`Logins` are the users that `GetByApplication` would list: those who share a unit
with the manager, once they have a role and a unit. A login is taken to be a valid id
selector. `ManageDialogProofs` has the theorems.

`Organization` is the administrators' part: threads run the actions of
`UnitController` and the Create and Delete actions of `SchoolController`, query by
query, while the rest of the server gives users units and takes them away.

| In the model | In the code |
|---|---|
| `units`, `schools`, `used` | the Unit table, the codes in Schools, the units UnitAssociations names |
| `given` | the ids an IDENTITY column has given out |
| `pages` | the confirmation pages shown so far, by the forms they post; a page does not age |
| `FindSchool`, `FindParent` | the model binder, which loads the entities a form names, before the action runs; for schools also the first query of both Delete actions |
| `parent`, `loaded` | the parent unit it bound, and the row `GetNullableById` put into the session |
| `FindUnit`, `FindAssociations`, `FindChildren`, `FindUnits` | the checks of the actions, in their order |
| `Mapped`, `IsDirty`, `EditRow` | `Mapper.Map` over the loaded unit, and NHibernate's update of all columns if any differs |
| `RowIsThere`, `CanCommit` | NHibernate's row counts, and the foreign and unique keys of the tables |

When the parent a form names is gone, what the binder makes of its id is not in this
repository, so the model allows both outcomes: no parent, or one whose save fails.
The second-level cache is assumed to give what the table has. Descriptions, PPS
codes, unit types, forms refused by validation, and `SchoolController.Edit`, which
changes descriptions only, are left out. `OrganizationProofs` has the theorems.

`RoleStore` is the Permissions table of one application shared with other programs,
which use `usp_insertUserInRole` and `usp_deleteUserFromRole`: these run statement by
statement, without a transaction, and remove a row by making it inactive. The
administrators' actions are here in less detail than in `UserManagement`, as one
load and one commit.

| In the model | In the code |
|---|---|
| `rows`, `given`, `users` | the Permissions table, inactive rows included, the ids given out, the logins in Users |
| `pc`, `call`, `found` | a thread's next statement, its arguments, and `@PermissionID` or the entities of its session |
| `FindPermission`, `Update` | the two statements of the removal; a subquery with several rows leaves the variable NULL |
| `Active` | `Where("Inactive = 0")`, and the inner join with which NHibernate fetches a role that is `Not.Nullable()` |
| `cached`, `GetManagementRoles`, `Invalidate` | the `.Cache()` of the query with that name; a cached answer that expires is only read anew sooner |

The last statement of both procedures adds the string 'Role ' to an int, so the
INSERT into Tracking fails in every call and what went before stays: Tracking
has no rows in the model, and callers may repeat any call. A role name that does not
exist gives a row whose RoleID is NULL (`NoRole`), which no query of Catbert's sees.
Callers that open a transaction of their own are left out.
`RoleStoreLedger` maps this table to `RightsLedger` too, with one application and no
units: a right is what `Active` shows, so making a row inactive is `Revoke` just as
deleting it is, a row without a role is no entry, and the loss of one of two copies is
a stutter. Each statement that updates or inserts, and each commit of an
administrator, is one change of the ledger at most. So the pages and the procedures,
which remove in different ways and overlap without a common transaction, keep the
same ledger. `RoleStoreProofs` has the theorems.

`PublicServices` is what Catbert offers to other programs, and who administers it.
Administrators' requests are transactions as above; `GetMessages` is not one: its
two queries are steps of their own.

| In the model | In the code |
|---|---|
| `tokens`, `messages`, `given` | the two tables and the ids given out |
| `now`, `Tick` | `DateTime.Now`, which each query reads for itself |
| `pc`, `request`, `loaded`, `answer` | a thread's next step, its form or call, the entity its session has loaded, what its queries have found |
| `Find`, `Commit`, `CommitFails` | `GetNullableById`, and the save or removal at the end of the request; NHibernate's row count |
| `FindGlobal`, `FindApplication`, `Answer` | the two queries of `GetMessages` and their union |
| `GivenTokenExists` | the query of `Validate` |
| `throughout`, `sometime` | nothing: history variables for the property about answers |

A token's text is a GUID, so its id stands for it. An edit refused by validation has
already changed the loaded entity; whether the end of the request writes it is up to
the UCDArch framework, whose source is not in this repository, so the model allows
both. Names, texts, addresses and the critical flag are left out. The dates of a
message are DATE columns, which drop the time of day of what was posted; the model's
moments are whole, so it stores them as they are, and no property depends on more.
`PublicServicesProofs` has the theorems.

### What the model abstracts

* READ COMMITTED: a query sees what was committed before it. The two queries of a
  `ToFuture` batch travel together and are one step.
* NHibernate may send an INSERT when an entity is saved, not at the commit. Until
  the commit other sessions either do not see it or wait for it, and the handler
  itself reads it only to write its answer, so the model writes at the commit. A
  wait that never ends is a deadlock, and SQL Server ends it: that is `Abort`.
* An identity value lost to a rollback is not counted: only that ids are new matters.
* The query cache: NHibernate checks its timestamps against the writes of all
  sessions of the server, so a cached answer is one the query could have given.
  `RoleStore` has the writes that bypass NHibernate, and what becomes of the cache.
* In `UserManagement` applications, roles, levels, schools and units do not change
  while the model runs. Permissions that name no application or role (the columns allow NULL)
  do not occur, as the mapping does not allow them.

## 3. Runs

| Run | Instance | Shows |
|---|---|---|
| `Delegation` | 2 threads, 9 guarded requests of a dean (ManageSchool) and of a clerk who can be promoted, about each other, a chair (ManageUnit) and a guest with a unit in another application; an administrator deletes the clerk | the four guarded handlers and the deletion in every interleaving: no role, unit or login gets in beyond what the application started with; duplicates bounded by the number of threads; the audit trail balances; whoever may be managed is listed; every request is answered |
| `Administration` | 2 threads, 14 requests: new users (unknown, known, inactive), deletions, adds by id, removals by id and guarded | type correctness, the same balance of the audit trail when users come and go, a new user is complete or absent, and the tables change as `RightsLedger` says; `LedgerInv` is the inductive invariant of that proof |
| `Serial` | 1 thread, 21 requests of every operation | without overlap: no duplicates, InsertNewUser delivers, each guarded commit is backed by the rights of that instant, and each request is answered, also when its insert or its deletion fails |
| `Duplicates` | 2 threads, one administrative AddPermission | a violation: see Findings |
| `Reconciliation` | 2 threads create and edit 2 applications over 3 role names, one of them retired and one created meanwhile | an application has the roles and levels of one form, never a mixture of two; each role is there once and each level once; a name once retired stays taken; levels change as `RoleLists` says |
| `DoubleSave` | 2 threads, the same edit of an application without roles twice | a violation: see Findings |
| `Dialog` | 2 users, 2 roles and 2 units, of which the manager may give one each; rows that are displayed or not, requests that fail, answers that are lost; the manager waits for loads and fading rows, requests are handled in order, 3 of them under way | the dialog shows one user; once all is settled the rows of every user say what the server has (the only row, or one of them if a second was ever added), except of users about whom a request failed and whom the page has not fetched since; `PageInv`, the inductive invariant of that proof, says what the page shows before |
| `EarlyClose` | the same, and a manager who does not wait | a violation: see Findings |
| `Organization` | 2 threads, 12 forms: edits of two units that change their school, their code or their parent, a new unit with a code an edit also wants, a new school, and every deletion; users get and lose units; edits may close a loop of parents | overlapping edits do not mix; an edit that reports success is in the table; deletions leave loops of parents whole, whichever page they come from |
| `RoleStore` | 2 threads, 13 calls: both procedures for 2 users and a role that does not exist, adds, removals and deletions by administrators | between two statements an id keeps its meaning; soft-deleted rows stay; a removal hits only what it names; a stale cached right was soft-deleted; the active rows change as `RightsLedger` says |
| `PublicServices` | 2 threads, 8 requests over 2 applications, 2 tokens and 3 messages; 4 moments of time | GetMessages answers with what was to be shown during its call, while messages are moved, deleted or expire between its queries; overlapping switches of a token do not reopen it; a deleted message stays deleted |
| `Removal` | 1 thread gives ann a role she once had, and takes it | a violation: see Findings |

Bounds. `MaxId` bounds the rows ever inserted in a table (two or three), enough for
three copies of one permission, a user deleted and made again, and a promotion chain
of length two. Two threads are the smallest number at which a check and a write of
different requests interleave; the properties about two requests need no third, and
the theorems hold for any number. Two schools and three units give a unit in the
same school, one in another, and one shared. In `ManageDialog` `MaxInFlight` bounds
the requests and answers under way: with three, two posts of a closed dialog are
still unanswered while the next one loads. `MaxRows` bounds the rows of one login:
two, the second beside one that was not displayed. `Patient` and `InOrder` are no bounds but
conditions: what the runs show is shown for managers who wait and connections that
keep the order, and `EarlyClose` drops the first. Only there `displayed` can become
FALSE: a patient manager opens no dialog while a new user is on the way, so with
`Patient` a dialog keeps the row it was opened from (`DialogInv`). In `Organization` the set `Ids`
bounds the units ever made: two that exist and one that is created while they
change. In `RoleStore` it bounds the permissions: three rows to begin with, an
inactive one among them, and two more. In `PublicServices` `MaxTime` bounds the
clock: at its moments 0 to 3 a message begins, another expires and an edit stops
being valid. Deadlock is checked in every run: an idle thread can take a request,
and a page can always open a dialog or ask for a new user.

Symmetry. `Administration`, `Organization`, `PublicServices` and `Duplicates` take
states that differ by a permutation of the threads as one: no property, bound or
instance of theirs names a thread, and none of their properties is about liveness.
`Delegation`, which checks `RequestsEnd`, goes without.

Fairness. `Spec` has weak fairness of `Handle(t)` for each thread and nothing else:
IIS keeps running the thread of an accepted request, and every step of a handler is
a query that returns. Nobody has to post and nothing has to fail. The other modules
state no fairness, and no liveness.

## 4. Proofs

`UserManagementProofs` assumes the named assumptions of the two modules (what the
constants are, a well-formed finite initial database with primary keys) and shows:

* `TypeCorrect`: `Spec => []TypeInv`. `TypeInv` adds to the types that a thread is
  at a step of the operation it handles (`HandlersKeepToTheirSteps`: it is what
  makes `request[t].role` mean something at the step that reads it), that a session
  fits its operation, and that tables are finite.
* `DelegationHolds`, and from it `RolesStayDelegableHolds`,
  `UnitsStayInSchoolsHolds` and `OutsidersStayOutsideHolds`, for servers on which
  rights are given by guarded requests only, while administrators remove permissions
  and associations and delete users at any moment (`OnlyGuardedGrants`). The other
  four operations bring in users and rights that were nobody's to delegate, so the
  theorems can not include them. The three properties are not
  inductive: a thread past its check holds a right that may be gone.
  `HandlersActWithinReach` says what survives: the scope it read, the role and the
  unit it checked were within reach, the login is an insider and the user row found
  is one of the start, even if it has been deleted since (then the foreign key makes
  the commit fail). Reach is defined from `InitDb` alone, so what others do
  meanwhile can not invalidate it. The lemmas `VisibleRolesAreDelegable` (levels
  compose: above the largest level held is above every level it was delegated
  from), `ScopeIsHeld`, `VisibleUnitsAreWithinReach` and `ManagedLoginsAreInsiders`
  are the heart of it; each handler is then one lemma per group of steps.

`UserManagementLedgerProofs` adds three assumptions: the initial database keeps its own
keys (`InitReferences`), nobody has the same right twice in it (`InitWithoutCopies`),
and there are finitely many threads, at least one (`SomeThreads`; both used by the
next module). It shows `LedgerInvHolds` and `LedgerImplemented`: `Spec =>
Ledger!Spec`. That a step maps to one whole change or to none is true only in
states in which sessions hold what they should: `KeysHold` says that ids and logins
name one row and that every row has its user; `SessionsHold` that the ids a session
is about to delete were given out before it read them, that a deletion of a user
holds only rows of that user, and that a session that makes a user has got the role
and the unit by the time it commits. Because ids never come back, what a session
read stays true of every row that is still there, however late it commits. Each of
the commits is one lemma that names the change of the ledger it is; all other steps
leave the tables alone. `LedgerStaysSound` is what a reader can rely on at every
moment: a number and a login name one account, and every right and seat has one.

`UserManagementCountProofs` shows, for any finite number of threads,
`NewUserArrivesCompleteHolds` (from `LedgerInv`), `AuditTrailBalancesHolds` (a count
of each table against the trail, over the finite tables of `TypeInv`),
`ManageableLoginsAreListedHolds` (in every state the conditions of the two queries
imply each other), `CopiesBoundedHolds` and `OneThreadNeverDuplicates`. The bound on
copies is not inductive: what counts is the copies there are plus the threads that
have looked and are about to insert one. That sum stays within the number of
threads: a thread plans an insert only where it sees no copy, so then there are
plans alone, at most one per thread; and a commit turns a plan into a copy. For one
thread (`Cardinality(Threads) = 1`) it also shows `CommitsAreBackedHolds` and
`InsertNewUserDeliversHolds`, from `NothingIsStale`: every guard a request has passed
would answer the same on the tables of this instant (`GuardsHold`), and the user, the
role and the unit it found are still there (`FindingsHold`). Only commits write, and
the only one is the request's own; a second thread could commit in between.

`ApplicationRolesProofs` shows, for any number of threads, applications, roles and
forms, `TypeCorrect`, `ReconciliationHolds` (`Spec => []ReconciliationInv`) and from
it `OneFormHolds`. That an application has the rows of one form is not inductive by
itself: an edit commits the deletes of rows it read before. The strengthening is
`OrphansAreAllOrNone`: what an edit took out is the whole of the application's
present rows, or nothing of them is left in the table. Another commit turns the
first into the second, and in the second case the row counts make the edit fail,
provided it took out any row: hence `NeverEmpty`, the assumption that no application
starts, and no form leaves one, without roles. `DoubleSave` shows what happens
without it. `RetiredNamesHold` is a property of each step: only a commit makes a role
active, and the unique index lets it do so only for a name never seen.
`ReconciledRolesHold` adds `ReconciledAtStart` (the rows the server starts with are in
order): then what the comment of `SetApplicationRoles` says is true of every
application at all times, however many edits overlap. `ListsImplemented` is `Spec =>
Book!Spec`. The rows a commit brings have the places in the form as levels, so the
new list is a ranking; what is left of the old one is nothing, by
`OrphansAreAllOrNone`; and the names in it exist by `PostedRolesExist`: they did when
the form was handled, and a name never becomes absent again.

`ManageDialogProofs` shows for any number of users, roles, units and requests under
way, handled in any order, `TypeCorrect` (whatever arrives, the login of the dialog
keeps the row that closing it will look for, unless a new user's answer has drawn the
table anew) and, assuming `Patient`, `DialogHolds` and `OneUserPerDialogHolds`. One
block per dialog is not inductive: an answer under way may add another. `FetchesFit`
is what a patient manager makes of the page: at most one load or insert is under way;
it is a load, for the dialog's login and with no block yet, if a dialog is open, and
an insert if none is. Posts do not matter to it, which is why they may be outstanding
and in any order. It also keeps `displayed` true.

Assuming `InOrder` as well, it shows `PageHolds` and from it `RowsAreRightHolds`. The
table is right only once all is settled; `PageInv` says what is right before.
`Expected` is what the server will make of an item: what the last post about it asks
for, or what there is if no post is about it. The block's rows that are not fading are
what is expected (`BlockIsExpected`), and so are the rows of the table that neither
the dialog nor an answer will write (`RowsAreExpected`); `FetchesComeLast` makes what
a load or an insert brings the same as what is expected, because no post is left
behind it, and lets a dialog be empty only while it loads or after its load failed.
Two lemmas carry the proof: a request that is sent is the last word on what it is
about (`SendExpected`), and handling the first request of the queue changes nothing
that was expected (`HeadExpected`). A request that fails does change it, which is
where `failed` comes in; so does one handled out of order. The users in `failed` are
left out of the conclusion: of them the table may be wrong, and it is wrong when a
post about them failed, or when their load failed and closing the empty dialog took
their row. The users in `doubled` are not: a second row added beside one that was not
displayed stays, and may stay stale, but one of the rows is right.

`OrganizationProofs` shows, for any number of threads, units, schools and forms,
`TypeCorrect`, `FormsNeverMixHolds`, `EditsAreNotLostHolds` and
`LoopsOutliveDeletionsHolds`. That forms never mix rests on `TypeInv` (the parent
bound is the form's or none) and on `EditRow` writing whole rows; that edits are not
lost on the row count; that loops of parents outlive deletions on the foreign key
alone, since each unit of a loop is another one's parent. That no reference dangles
and no code is double is not stated: the keys the commit obeys say just that
(`CanCommit`), and no check of the actions is needed for it.

`RoleStoreProofs` shows, for any number of threads, users, roles and rows,
`TypeCorrect`, `RoleStoreHolds`, `HistoryStaysHolds`, `RemovalsHitTheirTargetHolds` and
`StaleRightsHold`. A statement acts on an id an earlier one read, so what matters is
what the id means by then: `FoundRowsKeepTheirIds` says it is the row as it was found,
that row soft-deleted, or nothing. The lemma `StepEffect` sorts all steps by what they
do to the table, so that each theorem needs few cases only. For `LedgerImplemented`, an update
soft-deletes the one row found or, if that is gone or inactive by now, nothing, and
`FoundRowsKeepTheirIds` is what makes that row one of the user and role of the call.
A deletion takes along all the user has, or the foreign key stops the commit.
`LedgerStaysSound` adds that every right has an account (from `RowsHaveUsers`, which
the foreign key keeps).
`RemovalsFailOnCopiesOnlyHolds`, for one thread, from the invariant `FoundIsCurrent`,
gives the exact condition under which `usp_deleteUserFromRole` does its work.

`PublicServicesProofs` shows, for any number of threads, tokens, messages and
moments, `TypeCorrect`, `AnswersAreOfTheCallHolds`, `OnlyALaterSwitchReopensHolds`
and `DeletedMessagesStayGoneHolds`. The first of these rests on `HistoriesFit` (what
there is to show now lies between the two histories) and `AnswersSoFar` (after the
first query the part for everyone is settled). The histories hold messages together
with whom they are for: a message moved from the application to everyone between the
two queries is found by neither, and one moved the other way by both. The other two
are properties of each commit, given what `TypeInv` says its session has loaded.

Only model-checked is `RequestsEnd`, because liveness is beyond the prover: it needs
`ENABLED` to use the fairness. Every other property a passing run checks is a theorem.

## 5. Findings

* `Duplicates`: `UserAdministrationController.AddPermission` makes "sure the user
  doesn't already have this role" (line 293) by a query, and inserts later. Two
  overlapping posts insert it twice. `CopiesBounded` shows how far it can go: as
  many copies as requests can overlap. After that `RemovePermission`, which uses
  `Single()`, fails for that role.
* `DoubleSave`: `SetApplicationRoles` ends where "we should have an application with
  reconciled roles" (ApplicationController.cs:176). When the application has none
  yet, a second click on Save adds every role a second time: there is no row whose
  delete could fail, and no key on application and role. `ReconciledRolesHold` shows
  that applications with roles are safe, because the slower edit fails: that none is
  ever without is all the comment lacks.
* `EarlyClose`: the script removes "the user's row if they don't have any roles or
  units" (UserManagement.js:326), but what it counts are the rows the dialog shows.
  Closed before its user was loaded it shows none, and the user disappears from the
  page until it is loaded again. The property leaves out users about whom a request
  failed; that a load fails and the empty dialog is then closed is another way to
  lose a row, which waiting does not prevent.
* `Removal`: the comment of `usp_deleteUserFromRole` has "Now we can set that permission
  as false" (line 38), but the query before it does not look for active rows only
  (line 34). When the user had the role before and got it again, it finds two rows,
  fails, and the update does nothing: the user keeps the role, now and in every later
  attempt. `RemovalsFailOnCopiesOnlyHolds` shows that with nothing else going on this
  is the only way it can fail, and `RemovalsHitTheirTarget` that nobody else loses one.
* Two more things that contradict no text, but are worth knowing. `AddNewUserSuccess`
  looks whether "the given login is already in the table" (UserManagement.js:156)
  among the rows in the document. A listed user who is filtered out, or on another
  page, gets a second row, and each later dialog corrects one of them: `doubled`.
* And the button of a token's page says "Deactivate Token"
  (Views/AccessToken/Details.aspx:26), while the form it is on posts a switch.
  `OnlyALaterSwitchReopens` shows that two posts that overlap do no harm. A post from a
  page that is out of date, handled after the other one has committed, does reopen the
  token.

## 6. Not modelled, and what could come next

* Of the 27 files under `Scripts`, `UserManagement.js` alone is the program's own; the
  others are jQuery, jQuery UI, DataTables, validation plug-ins and Microsoft's AJAX
  scripts, in up to three versions, together some 61,000 lines. They are third-party
  code the pages use; `ManageDialog` has of them what the script relies on (when
  callbacks run, what `fadeOut`, `dialog` and an id selector do). The server itself is
  in C# and SQL.
* Of `UserManagement.js` the directory search, the styling of buttons and indicators are
  left out: they change nothing a property could be about. Filters, paging and sorting
  of the table are there only as the choice of the rows that are in the document.
* Sign-on, directory search and the views call CAS and LDAP or render pages, and keep
  no state of their own. The procedures other programs query rights with are
  read-only, but for `usp_insertRole`, which inserts one row.
* `UserAdministrationController.Edit` and `SchoolController.Edit` rewrite names,
  addresses and descriptions, which no rule of the program reads.
* A row that refers to itself: SQL Server deletes a unit that is its own parent, so
  `LoopsOutliveDeletions` is about loops of two or more; what the page says of such a
  unit ("parent of another") is in `FindChildren`.
* Next would be `Organization` and `UserManagement` composed: units that change their
  school while the users of their old and new school are being managed. In
  `UserManagement` `SchoolOf` is a constant.
