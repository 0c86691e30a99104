------------------------ MODULE UserManagementLedger ------------------------
(***************************************************************************)
(* UserManagement implements RightsLedger.  Of the tables a reader of      *)
(* rights sees the users, and the roles and units of the active rows;      *)
(* copies of a row are one entry, and rows the stored procedures made      *)
(* inactive are none.  Everything up to a commit is a stutter of the       *)
(* ledger.                                                                 *)
(***************************************************************************)
EXTENDS UserManagement

\* The database the server starts with keeps its own keys (IX_Users, the foreign
\* keys to Users, IDENTITY columns that begin with 1), and nobody has the same
\* role or unit twice in it.
ASSUME InitReferences ==
    /\ \A u \in InitDb.users : u.id > 0
    /\ \A u, v \in InitDb.users : u.login = v.login => u = v
    /\ \A row \in InitDb.permissions \cup InitDb.associations :
          \E u \in InitDb.users : u.id = row.user

ASSUME InitWithoutCopies ==
    /\ \A p, q \in Active(InitDb.permissions) :
          p.user = q.user /\ p.app = q.app /\ p.role = q.role => p = q
    /\ \A a, b \in Active(InitDb.associations) :
          a.user = b.user /\ a.app = b.app /\ a.unit = b.unit => a = b

ASSUME SomeThreads == IsFiniteSet(Threads) /\ Threads # {}

-----------------------------------------------------------------------------
(* Keys, and what the sessions know by them. *)

\* Ids and logins name one row each, no id is beyond the column's IDENTITY, and
\* no row names a user who is not there.
KeysHold ==
    /\ \A table \in Tables :
          /\ \A x, y \in db[table] : x.id = y.id => x = y
          /\ \A x \in db[table] : x.id <= identity[table]
    /\ \A u \in db.users : u.id > 0
    /\ \A u, v \in db.users : u.login = v.login => u = v
    /\ \A row \in db.permissions \cup db.associations :
          \E u \in db.users : u.id = row.user

\* The steps before which a session has read for its checks only.
CheckSteps ==
    {"loginScope", "login", "unitScope", "unit", "role", "findUser", "findRow"}

\* The session w of request r at this step deletes rows by ids it read, and those
\* ids were given out before it read them.  Only the deletion of a user deletes
\* more than one row, and they are that user's; a user made by InsertNewUser will
\* have the role and the unit.
SessionHolds(r, step, w) ==
    /\ step \in CheckSteps => w = NoWork
    /\ \A id \in w.dropPermissions : id <= identity.permissions
    /\ \A id \in w.dropAssociations : id <= identity.associations
    /\ w.deleteUser <=> (r.op = "AdminDeleteUser" /\ step = "commit")
    /\ w.dropPermissions # {} =>
          \/ r.op \in {"RemovePermission", "AdminRemovePermission"}
                /\ \A i, j \in w.dropPermissions : i = j
          \/ r.op = "AdminDeleteUser"
                /\ \A p \in db.permissions :
                       p.id \in w.dropPermissions => p.user = w.user
    /\ w.dropAssociations # {} =>
          \/ r.op \in {"RemoveUnit", "AdminRemoveAssociation"}
                /\ \A i, j \in w.dropAssociations : i = j
          \/ r.op = "AdminDeleteUser"
                /\ \A a \in db.associations :
                       a.id \in w.dropAssociations => a.user = w.user
    /\ w.insertUser =>
          /\ w.user = 0
          /\ r.op = "InsertNewUser" =>
                /\ step \in {"associationExists", "commit"} =>
                      w.addRoles = {r.role}
                /\ step = "commit" => w.addUnits = {r.unit}

SessionsHold ==
    \A t \in Threads :
        pc[t] # "idle" => SessionHolds(request[t], pc[t], work[t])

\* The inductive invariant behind the refinement.
LedgerInv == TypeInv /\ KeysHold /\ SessionsHold

-----------------------------------------------------------------------------
(* The refinement mapping. *)

AccountOf(u) == [number |-> u.id, login |-> u.login]
RightOf(p) == [holder |-> p.user, app |-> p.app, role |-> p.role]
SeatOf(a) == [holder |-> a.user, app |-> a.app, unit |-> a.unit]

AccountsIn(database) == {AccountOf(u) : u \in database.users}
RightsIn(database) == {RightOf(p) : p \in Active(database.permissions)}
SeatsIn(database) == {SeatOf(a) : a \in Active(database.associations)}

Ledger == INSTANCE RightsLedger WITH
    accounts <- AccountsIn(db),
    opened <- identity.users,
    rights <- RightsIn(db),
    seats <- SeatsIn(db)

\* Whatever the threads interleave, abandon or fail to commit, what a reader of
\* the tables sees changes as the ledger says: UserManagementController and
\* UserAdministrationController give an account one role and one unit at most at
\* a time, bring a new user in with both, take one right away, or remove a user
\* with everything it has and nothing of anybody else's, and an id an abandoned
\* or slow request still holds never becomes another user's.
ImplementsLedger == Ledger!Spec

=============================================================================
