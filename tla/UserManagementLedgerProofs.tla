--------------------- MODULE UserManagementLedgerProofs ---------------------
(***************************************************************************)
(* Proofs that UserManagement keeps its keys and implements RightsLedger,  *)
(* for any threads, requests and initial database.                         *)
(***************************************************************************)
EXTENDS UserManagementLedger, UserManagementProofs

-----------------------------------------------------------------------------
(* What a commit does to the tables, row by row. *)

\* The id a commit of t gives the rows it adds for its user.
UserOf(t) == IF work[t].insertUser THEN identity.users + 1 ELSE work[t].user

UserRowOf(t) ==
    [id |-> identity.users + 1, login |-> request[t].login, inactive |-> FALSE]
PermissionRowOf(t) ==
    [id |-> identity.permissions + 1, user |-> UserOf(t),
     app |-> request[t].app, role |-> request[t].role, inactive |-> FALSE]
AssociationRowOf(t) ==
    [id |-> identity.associations + 1, user |-> UserOf(t),
     app |-> request[t].app, unit |-> request[t].unit, inactive |-> FALSE]

LEMMA CommitEffect ==
    ASSUME TypeInv, NEW t \in Threads, Commit(t)
    PROVE  /\ pc[t] = "commit" /\ request[t] \in Request
           /\ work[t] \in Work /\ SessionFits(request[t], work[t])
           /\ UserOf(t) \in Nat
           /\ db'.users =
                {u \in db.users : work[t].deleteUser => u.id # work[t].user} \cup
                (IF work[t].insertUser THEN {UserRowOf(t)} ELSE {})
           /\ db'.permissions =
                {p \in db.permissions : p.id \notin work[t].dropPermissions} \cup
                (IF work[t].addRoles = {} THEN {} ELSE {PermissionRowOf(t)})
           /\ db'.associations =
                {a \in db.associations : a.id \notin work[t].dropAssociations} \cup
                (IF work[t].addUnits = {} THEN {} ELSE {AssociationRowOf(t)})
           /\ identity'.users =
                identity.users + (IF work[t].insertUser THEN 1 ELSE 0)
           /\ identity'.permissions =
                identity.permissions + (IF work[t].addRoles = {} THEN 0 ELSE 1)
           /\ identity'.associations =
                identity.associations + (IF work[t].addUnits = {} THEN 0 ELSE 1)
           /\ \A s \in Threads \ {t} :
                 pc'[s] = pc[s] /\ request'[s] = request[s] /\ work'[s] = work[s]
           /\ pc'[t] = "idle"
  <1> DEFINE r == request[t]
             w == work[t]
             newPermission(role) ==
                [id |-> identity.permissions + 1, user |-> UserOf(t),
                 app |-> r.app, role |-> role, inactive |-> FALSE]
             newAssociation(unit) ==
                [id |-> identity.associations + 1, user |-> UserOf(t),
                 app |-> r.app, unit |-> unit, inactive |-> FALSE]
  <1>1. /\ pc[t] = "commit" /\ r \in Request /\ w \in Work /\ SessionFits(r, w)
        /\ UserOf(t) \in Nat
    BY ManagementAssumption
       DEF Commit, TypeInv, TypeOK, HandlersKeepToTheirSteps, Work, UserOf, Tables
  <1>2. db' = [db EXCEPT
                !.users =
                    {u \in @ : w.deleteUser => u.id # w.user} \cup
                    (IF w.insertUser THEN {UserRowOf(t)} ELSE {}),
                !.permissions =
                    {p \in @ : p.id \notin w.dropPermissions} \cup
                    {newPermission(role) : role \in w.addRoles},
                !.associations =
                    {a \in @ : a.id \notin w.dropAssociations} \cup
                    {newAssociation(unit) : unit \in w.addUnits}]
    BY DEF Commit, Flushed, UserRowOf, UserOf
  <1>3. {newPermission(role) : role \in w.addRoles} =
            IF w.addRoles = {} THEN {} ELSE {PermissionRowOf(t)}
    <2>1. w.addRoles = {} \/ w.addRoles = {r.role}
      BY <1>1 DEF SessionFits
    <2>2. newPermission(r.role) = PermissionRowOf(t)
      BY DEF PermissionRowOf
    <2> HIDE DEF newPermission
    <2> QED
      BY <2>1, <2>2
  <1>4. {newAssociation(unit) : unit \in w.addUnits} =
            IF w.addUnits = {} THEN {} ELSE {AssociationRowOf(t)}
    <2>1. w.addUnits = {} \/ w.addUnits = {r.unit}
      BY <1>1 DEF SessionFits
    <2>2. newAssociation(r.unit) = AssociationRowOf(t)
      BY DEF AssociationRowOf
    <2> HIDE DEF newAssociation
    <2> QED
      BY <2>1, <2>2
  <1>5. DOMAIN db = {"users", "permissions", "associations", "applicationRoles"}
    BY DEF TypeInv, TypeOK, Database
  <1>6. /\ db'.users = {u \in db.users : w.deleteUser => u.id # w.user} \cup
                (IF w.insertUser THEN {UserRowOf(t)} ELSE {})
        /\ db'.permissions =
                {p \in db.permissions : p.id \notin w.dropPermissions} \cup
                (IF w.addRoles = {} THEN {} ELSE {PermissionRowOf(t)})
        /\ db'.associations =
                {a \in db.associations : a.id \notin w.dropAssociations} \cup
                (IF w.addUnits = {} THEN {} ELSE {AssociationRowOf(t)})
    <2> HIDE DEF newPermission, newAssociation
    <2> QED
      BY <1>2, <1>3, <1>4, <1>5
  <1>7. /\ Cardinality(w.addRoles) = IF w.addRoles = {} THEN 0 ELSE 1
        /\ Cardinality(w.addUnits) = IF w.addUnits = {} THEN 0 ELSE 1
    <2>1. /\ w.addRoles = {} \/ w.addRoles = {r.role}
          /\ w.addUnits = {} \/ w.addUnits = {r.unit}
      BY <1>1 DEF SessionFits
    <2> QED
      BY <2>1, FS_EmptySet, FS_Singleton
  <1>8. /\ identity'.users = identity.users + (IF w.insertUser THEN 1 ELSE 0)
        /\ identity'.permissions =
              identity.permissions + (IF w.addRoles = {} THEN 0 ELSE 1)
        /\ identity'.associations =
              identity.associations + (IF w.addUnits = {} THEN 0 ELSE 1)
    BY <1>7 DEF Commit, Inserted, Tables
  <1>9. /\ \A s \in Threads \ {t} :
              pc'[s] = pc[s] /\ request'[s] = request[s] /\ work'[s] = work[s]
        /\ pc'[t] = "idle"
    BY DEF Commit, EndRequest, TypeInv, TypeOK
  <1> QED
    BY <1>1, <1>6, <1>8, <1>9

\* What the tables, the columns' IDENTITY and the rows found by id are made of.
LEMMA RowTypes ==
    ASSUME TypeInv
    PROVE  /\ \A u \in db.users : u \in UserRow /\ u.id \in Nat
           /\ \A p \in db.permissions :
                 p \in PermissionRow /\ p.id \in Nat /\ p.user \in Nat
           /\ \A a \in db.associations :
                 a \in AssociationRow /\ a.id \in Nat /\ a.user \in Nat
           /\ identity.users \in Nat /\ identity.permissions \in Nat
           /\ identity.associations \in Nat
  BY DEF TypeInv, TypeOK, Database, UserRow, PermissionRow, AssociationRow, Tables

-----------------------------------------------------------------------------
(* The keys, and what the sessions know by them. *)

\* A session that deletes a user adds nothing.
LEMMA DeletionsOnlyDelete ==
    ASSUME LedgerInv, NEW t \in Threads, Commit(t), work[t].deleteUser
    PROVE  /\ request[t].op = "AdminDeleteUser"
           /\ ~work[t].insertUser /\ work[t].addRoles = {}
           /\ work[t].addUnits = {}
  <1>1. request[t].op = "AdminDeleteUser"
    BY DEF LedgerInv, SessionsHold, SessionHolds, Commit
  <1>2. SessionFits(request[t], work[t])
    BY CommitEffect DEF LedgerInv
  <1> QED
    BY <1>1, <1>2 DEF SessionFits, InsertOps

\* The foreign keys and IX_Users, as CanCommit has them, keep the references and
\* the logins; IDENTITY keeps the ids.
LEMMA CommitKeepsKeys ==
    ASSUME LedgerInv, NEW t \in Threads, Commit(t)
    PROVE  KeysHold'
  <1> DEFINE r == request[t]
             w == work[t]
  <1>1. TypeInv /\ KeysHold /\ TypeInv'
    BY CommitKeepsType DEF LedgerInv
  <1>2. /\ db'.users = {u \in db.users : w.deleteUser => u.id # w.user} \cup
                (IF w.insertUser THEN {UserRowOf(t)} ELSE {})
        /\ db'.permissions =
                {p \in db.permissions : p.id \notin w.dropPermissions} \cup
                (IF w.addRoles = {} THEN {} ELSE {PermissionRowOf(t)})
        /\ db'.associations =
                {a \in db.associations : a.id \notin w.dropAssociations} \cup
                (IF w.addUnits = {} THEN {} ELSE {AssociationRowOf(t)})
        /\ identity'.users = identity.users + (IF w.insertUser THEN 1 ELSE 0)
        /\ identity'.permissions =
              identity.permissions + (IF w.addRoles = {} THEN 0 ELSE 1)
        /\ identity'.associations =
              identity.associations + (IF w.addUnits = {} THEN 0 ELSE 1)
    BY <1>1, CommitEffect
  <1>3. /\ UserRowOf(t).id = identity.users + 1
        /\ UserRowOf(t).login = r.login
        /\ PermissionRowOf(t).id = identity.permissions + 1
        /\ AssociationRowOf(t).id = identity.associations + 1
        /\ PermissionRowOf(t).user = UserOf(t)
        /\ AssociationRowOf(t).user = UserOf(t)
    BY DEF UserRowOf, PermissionRowOf, AssociationRowOf
  <1>4. CanCommit(t)
    BY DEF Commit
  <1>5. \A table \in Tables :
           /\ \A x, y \in db'[table] : x.id = y.id => x = y
           /\ \A x \in db'[table] : x.id <= identity'[table]
    <2>1. /\ \A x, y \in db'.users : x.id = y.id => x = y
          /\ \A x \in db'.users : x.id <= identity'.users
      BY <1>1, <1>2, <1>3, RowTypes DEF KeysHold, Tables
    <2>2. /\ \A x, y \in db'.permissions : x.id = y.id => x = y
          /\ \A x \in db'.permissions : x.id <= identity'.permissions
      BY <1>1, <1>2, <1>3, RowTypes DEF KeysHold, Tables
    <2>3. /\ \A x, y \in db'.associations : x.id = y.id => x = y
          /\ \A x \in db'.associations : x.id <= identity'.associations
      BY <1>1, <1>2, <1>3, RowTypes DEF KeysHold, Tables
    <2> QED
      BY <2>1, <2>2, <2>3 DEF Tables
  <1>6. \A u \in db'.users : u.id > 0
    BY <1>1, <1>2, <1>3, RowTypes DEF KeysHold
  <1>7. \A u, v \in db'.users : u.login = v.login => u = v
    <2>1. w.insertUser => \A u \in db.users : u.login # r.login
      BY <1>4 DEF CanCommit, UserIds
    <2> QED
      BY <1>1, <1>2, <1>3, <2>1 DEF KeysHold
  <1>8. \A row \in db'.permissions \cup db'.associations :
           \E u \in db'.users : u.id = row.user
    <2>2. w.addRoles # {} \/ w.addUnits # {} =>
             \E u \in db'.users : u.id = UserOf(t)
      <3>1. CASE w.insertUser
        BY <1>2, <1>3, <3>1 DEF UserOf
      <3>2. CASE ~w.insertUser
        BY <1>2, <1>4, <3>2, DeletionsOnlyDelete DEF UserOf, CanCommit
      <3> QED
        BY <3>1, <3>2
    <2>3. ASSUME NEW row \in db'.permissions
          PROVE  \E u \in db'.users : u.id = row.user
      <3>1. CASE row \in db.permissions /\ row.id \notin w.dropPermissions
        <4>1. PICK u \in db.users : u.id = row.user
          BY <1>1, <3>1 DEF KeysHold
        <4>2. w.deleteUser => u.id # w.user
          BY <1>4, <3>1, <4>1 DEF CanCommit
        <4> QED
          BY <1>2, <4>1, <4>2
      <3>2. CASE row = PermissionRowOf(t) /\ w.addRoles # {}
        BY <1>3, <2>2, <3>2
      <3> QED
        BY <1>2, <3>1, <3>2
    <2>4. ASSUME NEW row \in db'.associations
          PROVE  \E u \in db'.users : u.id = row.user
      <3>1. CASE row \in db.associations /\ row.id \notin w.dropAssociations
        <4>1. PICK u \in db.users : u.id = row.user
          BY <1>1, <3>1 DEF KeysHold
        <4>2. w.deleteUser => u.id # w.user
          BY <1>4, <3>1, <4>1 DEF CanCommit
        <4> QED
          BY <1>2, <4>1, <4>2
      <3>2. CASE row = AssociationRowOf(t) /\ w.addUnits # {}
        BY <1>3, <2>2, <3>2
      <3> QED
        BY <1>2, <3>1, <3>2
    <2> QED
      BY <2>3, <2>4
  <1> QED
    BY <1>5, <1>6, <1>7, <1>8 DEF KeysHold

\* What another session holds stays true: the ids it has were given out before,
\* so no row this commit adds has one of them.
LEMMA CommitKeepsSessions ==
    ASSUME LedgerInv, NEW t \in Threads, Commit(t)
    PROVE  SessionsHold'
  <1> SUFFICES ASSUME NEW s \in Threads, pc'[s] # "idle"
               PROVE  SessionHolds(request[s], pc[s], work[s])'
    BY DEF SessionsHold
  <1> DEFINE w == work[t]
             v == work[s]
             r == request[s]
  <1>1. TypeInv
    BY DEF LedgerInv
  <1>2. /\ s # t /\ pc'[s] = pc[s] /\ request'[s] = r /\ work'[s] = v
        /\ \A p \in db'.permissions :
              p \in db.permissions \/ p = PermissionRowOf(t)
        /\ \A a \in db'.associations :
              a \in db.associations \/ a = AssociationRowOf(t)
        /\ identity'.permissions \in
              {identity.permissions, identity.permissions + 1}
        /\ identity'.associations \in
              {identity.associations, identity.associations + 1}
    BY <1>1, CommitEffect, RowTypes
  <1>3. SessionHolds(r, pc[s], v) /\ v \in Work
    BY <1>1, <1>2 DEF LedgerInv, SessionsHold, TypeInv, TypeOK
  <1>4. /\ PermissionRowOf(t).id = identity.permissions + 1
        /\ AssociationRowOf(t).id = identity.associations + 1
        /\ identity.permissions \in Nat /\ identity.associations \in Nat
    BY <1>1, RowTypes DEF PermissionRowOf, AssociationRowOf
  <1>5. /\ \A id \in v.dropPermissions : id \in Nat /\ id <= identity.permissions
        /\ \A id \in v.dropAssociations : id \in Nat /\ id <= identity.associations
    BY <1>3 DEF SessionHolds, Work
  <1>6. /\ \A id \in v.dropPermissions : id <= identity'.permissions
        /\ \A id \in v.dropAssociations : id <= identity'.associations
    BY <1>2, <1>4, <1>5
  <1>7. /\ \A p \in db'.permissions :
              p.id \in v.dropPermissions => p \in db.permissions
        /\ \A a \in db'.associations :
              a.id \in v.dropAssociations => a \in db.associations
    BY <1>2, <1>4, <1>5
  <1> QED
    BY <1>2, <1>3, <1>6, <1>7 DEF SessionHolds

\* A step that only moves thread t needs a look at t's session only.
LEMMA QuietStepKeepsLedger ==
    ASSUME LedgerInv, TypeInv', NEW t \in Threads, db' = db,
           identity' = identity,
           \A s \in Threads \ {t} :
               pc'[s] = pc[s] /\ request'[s] = request[s] /\ work'[s] = work[s],
           pc'[t] # "idle" => SessionHolds(request[t], pc[t], work[t])'
    PROVE  LedgerInv'
  <1>1. KeysHold'
    BY DEF LedgerInv, KeysHold
  <1>2. SessionsHold'
    <2> SUFFICES ASSUME NEW s \in Threads, pc'[s] # "idle"
                 PROVE  SessionHolds(request[s], pc[s], work[s])'
      BY DEF SessionsHold
    <2>1. CASE s = t
      BY <2>1
    <2>2. CASE s # t
      <3>1. SessionHolds(request[s], pc[s], work[s])
        BY <2>2 DEF LedgerInv, SessionsHold
      <3> QED
        BY <2>2, <3>1 DEF SessionHolds
    <2> QED
      BY <2>1, <2>2
  <1> QED
    BY <1>1, <1>2 DEF LedgerInv

LEMMA RollbackKeepsLedger ==
    ASSUME LedgerInv, NEW t \in Threads, Rollback(t)
    PROVE  LedgerInv'
  <1>1. TypeInv'
    BY RollbackKeepsType DEF LedgerInv
  <1>2. /\ db' = db /\ identity' = identity /\ pc'[t] = "idle"
        /\ \A s \in Threads \ {t} :
              pc'[s] = pc[s] /\ request'[s] = request[s] /\ work'[s] = work[s]
    BY DEF Rollback, EndRequest, LedgerInv, TypeInv, TypeOK
  <1> QED
    BY <1>1, <1>2, QuietStepKeepsLedger

LEMMA ContinueKeepsLedger ==
    ASSUME LedgerInv, TypeInv', NEW t \in Threads, NEW next, NEW w,
           Continue(t, next, w), SessionHolds(request[t], next, w)
    PROVE  LedgerInv'
  <1>1. /\ db' = db /\ identity' = identity
        /\ pc'[t] = next /\ request'[t] = request[t] /\ work'[t] = w
        /\ \A s \in Threads \ {t} :
              pc'[s] = pc[s] /\ request'[s] = request[s] /\ work'[s] = work[s]
    BY DEF Continue, LedgerInv, TypeInv, TypeOK
  <1>2. SessionHolds(request[t], pc[t], work[t])'
    BY <1>1 DEF SessionHolds
  <1> QED
    BY <1>1, <1>2, QuietStepKeepsLedger

\* A request begins with an empty session, but for what its form puts there.
LEMMA SubmitKeepsLedger ==
    ASSUME LedgerInv, NEW t \in Threads, Submit(t)
    PROVE  LedgerInv'
  <1> PICK r \in Requests :
            /\ pc[t] = "idle"
            /\ pc' = [pc EXCEPT ![t] = FirstStep(r)]
            /\ request' = [request EXCEPT ![t] = r]
            /\ work' = [work EXCEPT ![t] = FirstWork(r)]
            /\ UNCHANGED <<db, identity, audits, scope>>
    BY DEF Submit
  <1>1. TypeInv'
    BY SubmitKeepsType DEF LedgerInv
  <1>2. /\ pc'[t] = FirstStep(r) /\ request'[t] = r /\ work'[t] = FirstWork(r)
        /\ \A s \in Threads \ {t} :
              pc'[s] = pc[s] /\ request'[s] = request[s] /\ work'[s] = work[s]
    BY DEF LedgerInv, TypeInv, TypeOK
  <1>3. /\ FirstWork(r).dropPermissions = {}
        /\ FirstWork(r).dropAssociations = {}
        /\ ~FirstWork(r).deleteUser
        /\ FirstWork(r).insertUser =>
              r.op = "AdminAddUser" /\ FirstWork(r).user = 0
        /\ r.op \notin {"AdminAddUser", "AdminAddPermission",
                        "AdminAddAssociation"} => FirstWork(r) = NoWork
    <2>1. CASE r.op = "AdminAddUser"
      BY <2>1 DEF FirstWork, NoWork
    <2>2. CASE r.op \in {"AdminAddPermission", "AdminAddAssociation"}
      BY <2>2 DEF FirstWork, NoWork
    <2>3. CASE r.op \notin {"AdminAddUser", "AdminAddPermission",
                            "AdminAddAssociation"}
      BY <2>3 DEF FirstWork, NoWork
    <2> QED
      BY <2>1, <2>2, <2>3
  <1>4. /\ FirstStep(r) \in CheckSteps =>
              r.op \notin {"AdminAddUser", "AdminAddPermission",
                           "AdminAddAssociation"}
        /\ FirstStep(r) = "commit" => r.op = "AdminAddUser"
    BY DEF FirstStep, CheckSteps, GuardedOps, RoleOps, UnitOps
  <1>5. SessionHolds(request[t], pc[t], work[t])'
    BY <1>2, <1>3, <1>4 DEF SessionHolds
  <1> QED
    BY <1>1, <1>2, <1>5, QuietStepKeepsLedger

\* The checks leave the session empty.
LEMMA GuardsKeepLedger ==
    ASSUME LedgerInv, NEW t \in Threads,
           \/ ReadScope(t)
           \/ EnsureCurrentUserCanManageLogin(t)
           \/ EnsureCurrentUserCanModifyRole(t)
           \/ EnsureCurrentUserCanModifyUnit(t)
    PROVE  LedgerInv'
  <1> DEFINE r == request[t]
             w == work[t]
  <1>1. TypeInv'
    BY GuardsKeepType DEF LedgerInv
  <1>2. CASE Rollback(t)
    BY <1>2, RollbackKeepsLedger
  <1>3. CASE ~Rollback(t)
    <2>1. pc[t] \in {"loginScope", "unitScope", "login", "role", "unit"}
      BY DEF ReadScope, EnsureCurrentUserCanManageLogin,
             EnsureCurrentUserCanModifyRole, EnsureCurrentUserCanModifyUnit
    <2>2. w = NoWork /\ SessionHolds(r, pc[t], w)
      BY <2>1 DEF LedgerInv, SessionsHold, SessionHolds, CheckSteps
    <2>3. /\ db' = db /\ identity' = identity /\ request'[t] = r /\ work'[t] = w
          /\ \A s \in Threads \ {t} :
                pc'[s] = pc[s] /\ request'[s] = request[s] /\ work'[s] = work[s]
      BY <1>3 DEF ReadScope, EnsureCurrentUserCanManageLogin,
             EnsureCurrentUserCanModifyRole, EnsureCurrentUserCanModifyUnit,
             Continue, LedgerInv, TypeInv, TypeOK
    <2>4. pc'[t] \in CheckSteps
      BY <1>3, <2>1
         DEF ReadScope, EnsureCurrentUserCanManageLogin,
             EnsureCurrentUserCanModifyRole, EnsureCurrentUserCanModifyUnit,
             StepAfterGuards, Continue, LedgerInv, TypeInv, TypeOK, CheckSteps
    <2>5. SessionHolds(request[t], pc[t], work[t])'
      BY <2>2, <2>3, <2>4 DEF SessionHolds, NoWork, CheckSteps
    <2> QED
      BY <1>1, <2>3, <2>5, QuietStepKeepsLedger
  <1> QED
    BY <1>2, <1>3

\* The queries put in the session the ids of rows they find, and of one row only
\* but for the deletion of a user.
LEMMA QueriesKeepLedger ==
    ASSUME LedgerInv, NEW t \in Threads,
           \/ FindUser(t)
           \/ FindRow(t)
           \/ RoleIsAssociatedWithApplication(t)
           \/ PermissionExists(t)
           \/ AssociationExists(t)
           \/ ClearPermissions(t)
           \/ ClearAssociations(t)
    PROVE  LedgerInv'
  <1> DEFINE r == request[t]
             w == work[t]
  <1>1. TypeInv /\ TypeInv' /\ KeysHold
    BY QueriesKeepType DEF LedgerInv
  <1>2. pc[t] # "idle" =>
            /\ r.op \in OpsAt(pc[t]) /\ w \in Work /\ SessionFits(r, w)
            /\ SessionHolds(r, pc[t], w)
    BY <1>1 DEF TypeInv, TypeOK, HandlersKeepToTheirSteps, LedgerInv, SessionsHold
  <1>3. CASE Rollback(t)
    BY <1>3, RollbackKeepsLedger
  <1>4. CASE FindUser(t) /\ ~Rollback(t)
    <2> DEFINE next == StepAfterUser(r.op)
    <2>1. pc[t] = "findUser" /\ w = NoWork /\ r.op \in OpsAt("findUser")
      BY <1>2, <1>4 DEF FindUser, SessionHolds, CheckSteps
    <2>2. next \notin CheckSteps /\ next # "commit"
          /\ (next = "associationExists" => r.op # "InsertNewUser")
      BY <2>1 DEF StepAfterUser, CheckSteps
    <2>3. CASE \E u \in Active(db.users) : Continue(t, next, [w EXCEPT !.user = u.id])
      <3> PICK u \in Active(db.users) : Continue(t, next, [w EXCEPT !.user = u.id])
        BY <2>3
      <3>1. SessionHolds(r, next, [w EXCEPT !.user = u.id])
        BY <2>1, <2>2 DEF SessionHolds, NoWork
      <3> QED
        BY <1>1, <3>1, ContinueKeepsLedger
    <2>4. CASE r.op = "InsertNewUser"
               /\ Continue(t, next, [w EXCEPT !.insertUser = TRUE])
      <3>1. SessionHolds(r, next, [w EXCEPT !.insertUser = TRUE])
        BY <2>1, <2>2, <2>4 DEF SessionHolds, NoWork
      <3> QED
        BY <1>1, <2>4, <3>1, ContinueKeepsLedger
    <2> QED
      BY <1>4, <2>3, <2>4, Zenon DEF FindUser
  <1>5. CASE FindRow(t) /\ ~Rollback(t)
    <2>1. pc[t] = "findRow" /\ w = NoWork
      BY <1>2, <1>5 DEF FindRow, SessionHolds, CheckSteps
    <2>2. CASE \E p \in PermissionsToRemove(r) :
                  Continue(t, "commit", [w EXCEPT !.dropPermissions = {p.id}])
      <3> PICK p \in PermissionsToRemove(r) :
                  Continue(t, "commit", [w EXCEPT !.dropPermissions = {p.id}])
        BY <2>2
      <3>1. /\ p.id <= identity.permissions
            /\ r.op \in {"RemovePermission", "AdminRemovePermission"}
        BY <1>1 DEF PermissionsToRemove, PermissionsOf, Active, KeysHold, Tables
      <3>2. SessionHolds(r, "commit", [w EXCEPT !.dropPermissions = {p.id}])
        BY <2>1, <3>1 DEF SessionHolds, NoWork, CheckSteps
      <3> QED
        BY <1>1, <3>2, ContinueKeepsLedger
    <2>3. CASE \E a \in AssociationsToRemove(r) :
                  Continue(t, "commit", [w EXCEPT !.dropAssociations = {a.id}])
      <3> PICK a \in AssociationsToRemove(r) :
                  Continue(t, "commit", [w EXCEPT !.dropAssociations = {a.id}])
        BY <2>3
      <3>1. /\ a.id <= identity.associations
            /\ r.op \in {"RemoveUnit", "AdminRemoveAssociation"}
        BY <1>1 DEF AssociationsToRemove, AssociationsOf, Active, KeysHold, Tables
      <3>2. SessionHolds(r, "commit", [w EXCEPT !.dropAssociations = {a.id}])
        BY <2>1, <3>1 DEF SessionHolds, NoWork, CheckSteps
      <3> QED
        BY <1>1, <3>2, ContinueKeepsLedger
    <2> QED
      BY <1>5, <2>2, <2>3, Zenon DEF FindRow
  <1>6. CASE RoleIsAssociatedWithApplication(t) /\ ~Rollback(t)
    <2>1. pc[t] = "roleAllowed" /\ Continue(t, "permissionExists", w)
          /\ r.op = "AdminAddPermission"
      BY <1>2, <1>6, OpsAtStep DEF RoleIsAssociatedWithApplication
    <2>2. SessionHolds(r, "permissionExists", w)
      BY <1>2, <2>1 DEF SessionHolds, CheckSteps
    <2> QED
      BY <1>1, <2>1, <2>2, ContinueKeepsLedger
  <1>7. CASE PermissionExists(t)
    <2> DEFINE next == IF r.op = "InsertNewUser" THEN "associationExists"
                       ELSE "commit"
               v == [w EXCEPT !.addRoles = {r.role}]
    <2>1. pc[t] = "permissionExists" /\ r.op \in InsertOps.permissions
      BY <1>2, <1>7, OpsAtStep DEF PermissionExists
    <2>2. w.insertUser => Copies(w.user, r.app, r.role) = {}
      <3>1. w.insertUser => w.user = 0
        BY <1>2, <2>1 DEF SessionHolds
      <3>2. \A p \in db.permissions : p.user # 0
        BY <1>1, RowTypes DEF KeysHold
      <3> QED
        BY <3>1, <3>2 DEF Copies, Active
    <2>3. next \notin CheckSteps /\ (next = "commit" => r.op # "InsertNewUser")
          /\ r.op # "AdminDeleteUser"
      BY <2>1 DEF CheckSteps, InsertOps
    <2>4. CASE ~w.insertUser /\ Continue(t, next, w)
      <3>1. SessionHolds(r, next, w)
        BY <1>2, <2>1, <2>3, <2>4 DEF SessionHolds
      <3> QED
        BY <1>1, <2>4, <3>1, ContinueKeepsLedger
    <2>5. CASE Continue(t, next, v)
      <3>1. v.addRoles = {r.role} /\ v.user = w.user
            /\ v.insertUser = w.insertUser /\ v.deleteUser = w.deleteUser
            /\ v.dropPermissions = w.dropPermissions
            /\ v.dropAssociations = w.dropAssociations
        BY <1>2, <2>1 DEF Work
      <3> HIDE DEF next, v
      <3>2. SessionHolds(r, next, v)
        BY <1>2, <2>1, <2>3, <3>1 DEF SessionHolds
      <3> QED
        BY <1>1, <2>5, <3>2, ContinueKeepsLedger
    <2> QED
      BY <1>7, <2>2, <2>4, <2>5 DEF PermissionExists
  <1>8. CASE AssociationExists(t)
    <2> DEFINE v == [w EXCEPT !.addUnits = {r.unit}]
    <2>1. pc[t] = "associationExists" /\ r.op \in InsertOps.associations
      BY <1>2, <1>8, OpsAtStep DEF AssociationExists
    <2>2. w.insertUser => AssociationCopies(w.user, r.app, r.unit) = {}
      <3>1. w.insertUser => w.user = 0
        BY <1>2, <2>1 DEF SessionHolds
      <3>2. \A a \in db.associations : a.user # 0
        BY <1>1, RowTypes DEF KeysHold
      <3> QED
        BY <3>1, <3>2 DEF AssociationCopies, Active
    <2>3. r.op # "AdminDeleteUser"
      BY <2>1 DEF InsertOps
    <2>4. CASE ~w.insertUser /\ Continue(t, "commit", w)
      <3>1. SessionHolds(r, "commit", w)
        BY <1>2, <2>1, <2>3, <2>4 DEF SessionHolds, CheckSteps
      <3> QED
        BY <1>1, <2>4, <3>1, ContinueKeepsLedger
    <2>5. CASE Continue(t, "commit", v)
      <3>1. v.addUnits = {r.unit} /\ v.user = w.user
            /\ v.addRoles = w.addRoles
            /\ v.insertUser = w.insertUser /\ v.deleteUser = w.deleteUser
            /\ v.dropPermissions = w.dropPermissions
            /\ v.dropAssociations = w.dropAssociations
        BY <1>2, <2>1 DEF Work
      <3> HIDE DEF v
      <3>2. SessionHolds(r, "commit", v)
        BY <1>2, <2>1, <2>3, <3>1 DEF SessionHolds, CheckSteps
      <3> QED
        BY <1>1, <2>5, <3>2, ContinueKeepsLedger
    <2> QED
      BY <1>8, <2>2, <2>4, <2>5 DEF AssociationExists
  <1>9. CASE ClearPermissions(t)
    <2> DEFINE ids == {p.id : p \in {x \in Active(db.permissions) :
                                        x.user = w.user}}
               v == [w EXCEPT !.dropPermissions = ids]
    <2>1. /\ pc[t] = "clearPermissions" /\ r.op = "AdminDeleteUser"
          /\ Continue(t, "clearAssociations", v)
      BY <1>2, <1>9, OpsAtStep DEF ClearPermissions
    <2>2. /\ \A id \in ids : id <= identity.permissions
          /\ \A p \in db.permissions : p.id \in ids => p.user = w.user
      BY <1>1 DEF KeysHold, Active, Tables
    <2>3. v.dropPermissions = ids /\ v.user = w.user
          /\ v.insertUser = w.insertUser /\ v.deleteUser = w.deleteUser
          /\ v.dropAssociations = w.dropAssociations
      BY <1>2, <2>1 DEF Work
    <2> HIDE DEF ids, v
    <2>4. SessionHolds(r, "clearAssociations", v)
      BY <1>2, <2>1, <2>2, <2>3 DEF SessionHolds, CheckSteps
    <2> QED
      BY <1>1, <2>1, <2>4, ContinueKeepsLedger
  <1>10. CASE ClearAssociations(t)
    <2> DEFINE ids == {a.id : a \in {x \in Active(db.associations) :
                                        x.user = w.user}}
               v == [w EXCEPT !.deleteUser = TRUE, !.dropAssociations = ids]
    <2>1. /\ pc[t] = "clearAssociations" /\ r.op = "AdminDeleteUser"
          /\ Continue(t, "commit", v)
      BY <1>2, <1>10, OpsAtStep DEF ClearAssociations
    <2>2. /\ \A id \in ids : id <= identity.associations
          /\ \A a \in db.associations : a.id \in ids => a.user = w.user
      BY <1>1 DEF KeysHold, Active, Tables
    <2>3. v.dropAssociations = ids /\ v.user = w.user
          /\ v.insertUser = w.insertUser /\ v.deleteUser
          /\ v.dropPermissions = w.dropPermissions
      BY <1>2, <2>1 DEF Work
    <2> HIDE DEF ids, v
    <2>4. SessionHolds(r, "commit", v)
      BY <1>2, <2>1, <2>2, <2>3 DEF SessionHolds, CheckSteps
    <2> QED
      BY <1>1, <2>1, <2>4, ContinueKeepsLedger
  <1> QED
    BY <1>3, <1>4, <1>5, <1>6, <1>7, <1>8, <1>9, <1>10

LEMMA LedgerInit == Init => LedgerInv
  <1> SUFFICES ASSUME Init PROVE LedgerInv
    OBVIOUS
  <1>1. TypeInv
    BY TypeInit
  <1>2. KeysHold
    BY InitKeys, InitReferences DEF Init, KeysHold
  <1>3. SessionsHold
    BY DEF Init, SessionsHold
  <1> QED
    BY <1>1, <1>2, <1>3 DEF LedgerInv

LEMMA LedgerNext == LedgerInv /\ [Next]_vars => LedgerInv'
  <1> SUFFICES ASSUME LedgerInv, [Next]_vars PROVE LedgerInv'
    OBVIOUS
  <1>1. CASE UNCHANGED vars
    <2>1. TypeInv'
      BY <1>1, TypeNext DEF LedgerInv
    <2> QED
      BY <1>1, <2>1 DEF vars, LedgerInv, KeysHold, SessionsHold, SessionHolds
  <1>2. CASE Next
    <2> PICK t \in Threads : Submit(t) \/ Handle(t) \/ Abort(t)
      BY <1>2 DEF Next
    <2>1. CASE Submit(t)
      BY <2>1, SubmitKeepsLedger
    <2>2. CASE Abort(t) \/ CommitFails(t)
      BY <2>2, RollbackKeepsLedger DEF Abort, CommitFails
    <2>3. CASE Commit(t)
      <3>1. TypeInv'
        BY <2>3, CommitKeepsType DEF LedgerInv
      <3> QED
        BY <2>3, <3>1, CommitKeepsKeys, CommitKeepsSessions DEF LedgerInv
    <2>4. CASE Handle(t) /\ ~Commit(t) /\ ~CommitFails(t)
      BY <2>4, GuardsKeepLedger, QueriesKeepLedger DEF Handle
    <2> QED
      BY <2>1, <2>2, <2>3, <2>4
  <1> QED
    BY <1>1, <1>2

\* Keys and references hold in every state, and what a session is about to delete
\* is what its handler found: ids are never given out twice, so the rows a slow
\* request remembers by their ids are the rows it read, or gone.
THEOREM LedgerInvHolds == Spec => []LedgerInv
  BY LedgerInit, LedgerNext, PTL DEF Spec

-----------------------------------------------------------------------------
(* The refinement. *)

\* The accounts' numbers and logins are those of the rows.
LEMMA AccountsAreRows ==
    /\ Ledger!Numbers = {u.id : u \in db.users}
    /\ Ledger!LoginsInUse = {u.login : u \in db.users}
  <1>1. \A u \in db.users :
           AccountOf(u).number = u.id /\ AccountOf(u).login = u.login
    BY DEF AccountOf
  <1>2. \A x : x \in Ledger!Numbers <=> \E u \in db.users : x = u.id
    <2> HIDE DEF AccountOf
    <2> QED
      BY <1>1 DEF Ledger!Numbers, AccountsIn
  <1>3. \A x : x \in Ledger!LoginsInUse <=> \E u \in db.users : x = u.login
    <2> HIDE DEF AccountOf
    <2> QED
      BY <1>1 DEF Ledger!LoginsInUse, AccountsIn
  <1> QED
    BY <1>2, <1>3

\* Keys, and every row with its user: what the ledger asks of its entries.
LEMMA LedgerInvIsSound == ASSUME LedgerInv PROVE Ledger!Sound
  <1>1. \A a, b \in AccountsIn(db) :
           a.number = b.number \/ a.login = b.login => a = b
    BY DEF LedgerInv, KeysHold, Tables, AccountsIn, AccountOf
  <1>2. \A a \in AccountsIn(db) : a.number <= identity.users
    BY DEF LedgerInv, KeysHold, Tables, AccountsIn, AccountOf
  <1>3. \A entry \in RightsIn(db) \cup SeatsIn(db) :
           entry.holder \in Ledger!Numbers
    BY AccountsAreRows
       DEF LedgerInv, KeysHold, RightsIn, RightOf, SeatsIn, SeatOf, Active
  <1> QED
    BY <1>1, <1>2, <1>3 DEF Ledger!Sound

LEMMA LedgerInitMaps == Init => Ledger!Init
  <1> SUFFICES ASSUME Init PROVE Ledger!Init
    OBVIOUS
  <1>1. LedgerInv
    BY LedgerInit
  <1>2. Ledger!TypeOK
    <2>1. AccountsIn(db) \subseteq Ledger!Account
      BY <1>1, RowTypes
         DEF LedgerInv, AccountsIn, AccountOf, Ledger!Account, UserRow
    <2>2. RightsIn(db) \subseteq Ledger!Right
      BY <1>1, RowTypes
         DEF LedgerInv, RightsIn, RightOf, Active, Ledger!Right, PermissionRow
    <2>3. SeatsIn(db) \subseteq Ledger!Seat
      BY <1>1, RowTypes
         DEF LedgerInv, SeatsIn, SeatOf, Active, Ledger!Seat, AssociationRow
    <2> QED
      BY <1>1, <2>1, <2>2, <2>3, RowTypes DEF LedgerInv, Ledger!TypeOK
  <1>3. Ledger!Sound
    BY <1>1, LedgerInvIsSound
  <1> QED
    BY <1>2, <1>3 DEF Ledger!Init

\* A commit that makes a user opens an account, or enrols one with a role and a
\* unit.
LEMMA InsertionMaps ==
    ASSUME LedgerInv, NEW t \in Threads, Commit(t), work[t].insertUser
    PROVE  Ledger!Next
  <1> DEFINE r == request[t]
             w == work[t]
             n == identity.users + 1
  <1>1. TypeInv /\ KeysHold /\ SessionHolds(r, "commit", w) /\ CanCommit(t)
    BY DEF LedgerInv, SessionsHold, Commit
  <1>2. /\ r \in Request /\ SessionFits(r, w) /\ UserOf(t) = n
        /\ r.op \in {"InsertNewUser", "AdminAddUser"} /\ r.login \in Logins
    BY <1>1, CommitEffect, RequestFields DEF SessionFits, InsertOps, UserOf
  <1>3. /\ w.dropPermissions = {} /\ w.dropAssociations = {} /\ ~w.deleteUser
    BY <1>1, <1>2 DEF SessionHolds
  <1>4. /\ db'.users = db.users \cup {UserRowOf(t)}
        /\ db'.permissions = db.permissions \cup
              (IF w.addRoles = {} THEN {} ELSE {PermissionRowOf(t)})
        /\ db'.associations = db.associations \cup
              (IF w.addUnits = {} THEN {} ELSE {AssociationRowOf(t)})
        /\ identity'.users = n
    <2>1. /\ db.users = {u \in db.users : w.deleteUser => u.id # w.user}
          /\ db.permissions = {p \in db.permissions : p.id \notin w.dropPermissions}
          /\ db.associations =
                {a \in db.associations : a.id \notin w.dropAssociations}
      BY <1>3
    <2> QED
      BY <1>1, <2>1, CommitEffect
  <1>5. Ledger!NewAccount(r.login)
    <2>1. r.login \notin Ledger!LoginsInUse
      <3>1. UserIds(db, r.login) = {}
        BY <1>1 DEF CanCommit
      <3>2. \A u \in db.users : u.login # r.login
        BY <3>1 DEF UserIds
      <3> QED
        BY <3>2, AccountsAreRows
    <2>2. AccountOf(UserRowOf(t)) = [number |-> n, login |-> r.login]
      BY DEF AccountOf, UserRowOf
    <2>3. AccountsIn(db') = AccountsIn(db) \cup {AccountOf(UserRowOf(t))}
      BY <1>4 DEF AccountsIn
    <2> QED
      BY <1>4, <2>1, <2>2, <2>3 DEF Ledger!NewAccount
  <1>6. CASE r.op = "AdminAddUser"
    <2>1. w.addRoles = {} /\ w.addUnits = {}
      BY <1>2, <1>6 DEF SessionFits, InsertOps
    <2>2. RightsIn(db') = RightsIn(db) /\ SeatsIn(db') = SeatsIn(db)
      BY <1>4, <2>1 DEF RightsIn, SeatsIn
    <2>3. Ledger!Open(r.login)
      BY <1>5, <2>2 DEF Ledger!Open
    <2> QED
      BY <1>2, <2>3 DEF Ledger!Next
  <1>7. CASE r.op = "InsertNewUser"
    <2>1. /\ w.addRoles = {r.role} /\ w.addUnits = {r.unit}
          /\ r.app \in Apps /\ r.role \in Roles /\ r.unit \in Units
      BY <1>1, <1>2, <1>7, RequestFields DEF SessionHolds, InsertOps
    <2>2. RightsIn(db') =
             RightsIn(db) \cup {[holder |-> n, app |-> r.app, role |-> r.role]}
      <3>1. RightOf(PermissionRowOf(t)) =
               [holder |-> n, app |-> r.app, role |-> r.role]
        BY <1>2 DEF RightOf, PermissionRowOf
      <3>2. ~PermissionRowOf(t).inactive
        BY DEF PermissionRowOf
      <3>3. RightsIn(db') = RightsIn(db) \cup {RightOf(PermissionRowOf(t))}
        BY <1>4, <2>1, <3>2 DEF RightsIn, Active
      <3> QED
        BY <3>1, <3>3
    <2>3. SeatsIn(db') =
             SeatsIn(db) \cup {[holder |-> n, app |-> r.app, unit |-> r.unit]}
      <3>1. SeatOf(AssociationRowOf(t)) =
               [holder |-> n, app |-> r.app, unit |-> r.unit]
        BY <1>2 DEF SeatOf, AssociationRowOf
      <3>2. ~AssociationRowOf(t).inactive
        BY DEF AssociationRowOf
      <3>3. SeatsIn(db') = SeatsIn(db) \cup {SeatOf(AssociationRowOf(t))}
        BY <1>4, <2>1, <3>2 DEF SeatsIn, Active
      <3> QED
        BY <3>1, <3>3
    <2>4. Ledger!Enroll(r.login, r.app, r.role, r.unit)
      BY <1>5, <2>2, <2>3 DEF Ledger!Enroll
    <2> QED
      BY <1>2, <2>1, <2>4 DEF Ledger!Next
  <1> QED
    BY <1>2, <1>6, <1>7

\* A commit that deletes a user dismisses the account: the foreign keys see that
\* no entry stays, the session that only entries of this user go.
LEMMA DeletionMaps ==
    ASSUME LedgerInv, NEW t \in Threads, Commit(t), work[t].deleteUser
    PROVE  Ledger!Next
  <1> DEFINE r == request[t]
             w == work[t]
  <1>1. TypeInv /\ SessionHolds(r, "commit", w) /\ CanCommit(t)
    BY DEF LedgerInv, SessionsHold, Commit
  <1>2. /\ r.op = "AdminDeleteUser" /\ ~w.insertUser
        /\ w.addRoles = {} /\ w.addUnits = {}
    BY DeletionsOnlyDelete
  <1>3. /\ db'.users = {u \in db.users : u.id # w.user}
        /\ db'.permissions =
              {p \in db.permissions : p.id \notin w.dropPermissions}
        /\ db'.associations =
              {a \in db.associations : a.id \notin w.dropAssociations}
        /\ identity'.users = identity.users
    BY <1>1, <1>2, CommitEffect, RowTypes
  <1>4. /\ \A p \in db.permissions :
              p.id \in w.dropPermissions <=> p.user = w.user
        /\ \A a \in db.associations :
              a.id \in w.dropAssociations <=> a.user = w.user
    BY <1>1, <1>2 DEF SessionHolds, CanCommit
  <1>5. AccountsIn(db') = {a \in AccountsIn(db) : a.number # w.user}
    BY <1>3 DEF AccountsIn, AccountOf
  <1>6. RightsIn(db') = {x \in RightsIn(db) : x.holder # w.user}
    BY <1>3, <1>4 DEF RightsIn, RightOf, Active
  <1>7. SeatsIn(db') = {x \in SeatsIn(db) : x.holder # w.user}
    BY <1>3, <1>4 DEF SeatsIn, SeatOf, Active
  <1>8. Ledger!Dismiss(w.user)
    BY <1>3, <1>5, <1>6, <1>7 DEF Ledger!Dismiss
  <1>9. w.user \in Ledger!Numbers
    BY <1>1, AccountsAreRows DEF CanCommit
  <1> QED
    BY <1>8, <1>9 DEF Ledger!Next

\* A commit that adds rows for a user who is there appoints the account.
LEMMA AdditionMaps ==
    ASSUME LedgerInv, NEW t \in Threads, Commit(t),
           ~work[t].insertUser, ~work[t].deleteUser,
           work[t].addRoles # {} \/ work[t].addUnits # {}
    PROVE  Ledger!Next
  <1> DEFINE r == request[t]
             w == work[t]
             newRights ==
                {[holder |-> w.user, app |-> r.app, role |-> role] :
                    role \in w.addRoles}
             newSeats ==
                {[holder |-> w.user, app |-> r.app, unit |-> unit] :
                    unit \in w.addUnits}
  <1>1. TypeInv /\ SessionHolds(r, "commit", w) /\ CanCommit(t)
    BY DEF LedgerInv, SessionsHold, Commit
  <1>2. /\ r \in Request /\ SessionFits(r, w) /\ UserOf(t) = w.user
    BY <1>1, CommitEffect DEF UserOf
  <1>3. /\ r.op \in InsertOps.permissions \cup InsertOps.associations
        /\ r.app \in Apps
        /\ w.addRoles # {} => w.addRoles = {r.role} /\ r.role \in Roles
        /\ w.addUnits # {} => w.addUnits = {r.unit} /\ r.unit \in Units
    BY <1>2, RequestFields DEF SessionFits
  <1>4. w.dropPermissions = {} /\ w.dropAssociations = {}
    BY <1>1, <1>3 DEF SessionHolds, InsertOps
  <1>5. /\ db'.users = db.users
        /\ db'.permissions = db.permissions \cup
              (IF w.addRoles = {} THEN {} ELSE {PermissionRowOf(t)})
        /\ db'.associations = db.associations \cup
              (IF w.addUnits = {} THEN {} ELSE {AssociationRowOf(t)})
        /\ identity'.users = identity.users
    <2>1. /\ db.users = {u \in db.users : w.deleteUser => u.id # w.user}
          /\ db.permissions = {p \in db.permissions : p.id \notin w.dropPermissions}
          /\ db.associations =
                {a \in db.associations : a.id \notin w.dropAssociations}
      BY <1>4
    <2>2. db'.users = {u \in db.users : w.deleteUser => u.id # w.user} \cup {}
          /\ identity'.users = identity.users + 0
      BY <1>1, CommitEffect
    <2> QED
      BY <1>1, <2>1, <2>2, CommitEffect, RowTypes
  <1>6. RightsIn(db') = RightsIn(db) \cup newRights
    <2>1. CASE w.addRoles = {}
      BY <1>5, <2>1 DEF RightsIn
    <2>2. CASE w.addRoles # {}
      <3>1. newRights = {RightOf(PermissionRowOf(t))}
        BY <1>2, <1>3, <2>2 DEF RightOf, PermissionRowOf
      <3>2. ~PermissionRowOf(t).inactive
        BY DEF PermissionRowOf
      <3> HIDE DEF newRights
      <3> QED
        BY <1>5, <2>2, <3>1, <3>2 DEF RightsIn, Active
    <2> QED
      BY <2>1, <2>2
  <1>7. SeatsIn(db') = SeatsIn(db) \cup newSeats
    <2>1. CASE w.addUnits = {}
      BY <1>5, <2>1 DEF SeatsIn
    <2>2. CASE w.addUnits # {}
      <3>1. newSeats = {SeatOf(AssociationRowOf(t))}
        BY <1>2, <1>3, <2>2 DEF SeatOf, AssociationRowOf
      <3>2. ~AssociationRowOf(t).inactive
        BY DEF AssociationRowOf
      <3> HIDE DEF newSeats
      <3> QED
        BY <1>5, <2>2, <3>1, <3>2 DEF SeatsIn, Active
    <2> QED
      BY <2>1, <2>2
  <1>8. Ledger!Appoint(w.user, r.app, w.addRoles, w.addUnits)
    <2>1. AccountsIn(db') = AccountsIn(db)
      BY <1>5 DEF AccountsIn
    <2> QED
      BY <1>5, <1>6, <1>7, <2>1 DEF Ledger!Appoint
  <1>9. /\ w.user \in Ledger!Numbers
        /\ w.addRoles \in Ledger!AtMostOneOf(Roles)
        /\ w.addUnits \in Ledger!AtMostOneOf(Units)
    BY <1>1, <1>3, AccountsAreRows DEF CanCommit, Ledger!AtMostOneOf
  <1> QED
    BY <1>3, <1>8, <1>9 DEF Ledger!Next

\* A commit that deletes one row revokes a right, or ends a membership, unless the
\* row was a copy or inactive.
LEMMA RemovalMaps ==
    ASSUME LedgerInv, NEW t \in Threads, Commit(t),
           ~work[t].insertUser, ~work[t].deleteUser,
           work[t].addRoles = {}, work[t].addUnits = {}
    PROVE  Ledger!Next \/ UNCHANGED Ledger!ledger
  <1> DEFINE r == request[t]
             w == work[t]
  <1>1. /\ TypeInv /\ KeysHold /\ SessionHolds(r, "commit", w) /\ CanCommit(t)
        /\ w \in Work
    BY CommitEffect DEF LedgerInv, SessionsHold, Commit
  <1>2. /\ db'.users = db.users
        /\ db'.permissions =
              {p \in db.permissions : p.id \notin w.dropPermissions}
        /\ db'.associations =
              {a \in db.associations : a.id \notin w.dropAssociations}
        /\ identity'.users = identity.users
    <2>1. db.users = {u \in db.users : w.deleteUser => u.id # w.user}
      OBVIOUS
    <2>2. /\ db'.users = {u \in db.users : w.deleteUser => u.id # w.user} \cup {}
          /\ identity'.users = identity.users + 0
      BY <1>1, CommitEffect
    <2>3. /\ db'.permissions =
                {p \in db.permissions : p.id \notin w.dropPermissions} \cup {}
          /\ db'.associations =
                {a \in db.associations : a.id \notin w.dropAssociations} \cup {}
      BY <1>1, CommitEffect
    <2> QED
      BY <1>1, <2>1, <2>2, <2>3, RowTypes
  <1>3. AccountsIn(db') = AccountsIn(db)
    BY <1>2 DEF AccountsIn
  <1>4. r.op # "AdminDeleteUser"
    BY <1>1 DEF SessionHolds
  <1>5. CASE w.dropPermissions # {}
    <2>1. w.dropAssociations = {}
      BY <1>1, <1>4, <1>5 DEF SessionHolds
    <2>2. PICK id \in w.dropPermissions : w.dropPermissions = {id}
      BY <1>1, <1>4, <1>5 DEF SessionHolds
    <2>3. PICK p \in db.permissions : p.id = id
      BY <1>1, <2>2 DEF CanCommit
    <2>4. db'.permissions = db.permissions \ {p}
      BY <1>1, <1>2, <2>2, <2>3 DEF KeysHold, Tables
    <2>5. SeatsIn(db') = SeatsIn(db)
      BY <1>2, <2>1 DEF SeatsIn
    <2>6. RightsIn(db') \in {RightsIn(db), RightsIn(db) \ {RightOf(p)}}
      BY <2>4 DEF RightsIn, Active
    <2>7. CASE RightsIn(db') = RightsIn(db)
      BY <1>2, <1>3, <2>5, <2>7 DEF Ledger!ledger
    <2>8. CASE RightsIn(db') # RightsIn(db)
      <3>1. RightOf(p) \in RightsIn(db)
        BY <2>6, <2>8
      <3>2. Ledger!Revoke(RightOf(p))
        BY <1>2, <1>3, <2>5, <2>6, <2>8 DEF Ledger!Revoke
      <3> QED
        BY <3>1, <3>2 DEF Ledger!Next
    <2> QED
      BY <2>7, <2>8
  <1>6. CASE w.dropAssociations # {}
    <2>1. w.dropPermissions = {}
      BY <1>1, <1>4, <1>6 DEF SessionHolds
    <2>2. PICK id \in w.dropAssociations : w.dropAssociations = {id}
      BY <1>1, <1>4, <1>6 DEF SessionHolds
    <2>3. PICK a \in db.associations : a.id = id
      BY <1>1, <2>2 DEF CanCommit
    <2>4. db'.associations = db.associations \ {a}
      BY <1>1, <1>2, <2>2, <2>3 DEF KeysHold, Tables
    <2>5. RightsIn(db') = RightsIn(db)
      BY <1>2, <2>1 DEF RightsIn
    <2>6. SeatsIn(db') \in {SeatsIn(db), SeatsIn(db) \ {SeatOf(a)}}
      BY <2>4 DEF SeatsIn, Active
    <2>7. CASE SeatsIn(db') = SeatsIn(db)
      BY <1>2, <1>3, <2>5, <2>7 DEF Ledger!ledger
    <2>8. CASE SeatsIn(db') # SeatsIn(db)
      <3>1. SeatOf(a) \in SeatsIn(db)
        BY <2>6, <2>8
      <3>2. Ledger!Unseat(SeatOf(a))
        BY <1>2, <1>3, <2>5, <2>6, <2>8 DEF Ledger!Unseat
      <3> QED
        BY <3>1, <3>2 DEF Ledger!Next
    <2> QED
      BY <2>7, <2>8
  <1>7. CASE w.dropPermissions = {} /\ w.dropAssociations = {}
    <2>1. RightsIn(db') = RightsIn(db) /\ SeatsIn(db') = SeatsIn(db)
      BY <1>2, <1>7 DEF RightsIn, SeatsIn
    <2> QED
      BY <1>2, <1>3, <2>1 DEF Ledger!ledger
  <1> QED
    BY <1>5, <1>6, <1>7

\* A step that leaves the tables alone is a stutter of the ledger.
LEMMA QuietStepStutters ==
    ASSUME db' = db, identity' = identity
    PROVE  UNCHANGED Ledger!ledger
  BY DEF Ledger!ledger, AccountsIn, RightsIn, SeatsIn

LEMMA LedgerStepMaps ==
    LedgerInv /\ [Next]_vars => [Ledger!Next]_(Ledger!ledger)
  <1> SUFFICES ASSUME LedgerInv, [Next]_vars
               PROVE  Ledger!Next \/ UNCHANGED Ledger!ledger
    OBVIOUS
  <1>1. CASE UNCHANGED vars
    BY <1>1, QuietStepStutters DEF vars
  <1>2. CASE Next
    <2> PICK t \in Threads : Submit(t) \/ Handle(t) \/ Abort(t)
      BY <1>2 DEF Next
    <2>1. CASE Commit(t)
      <3>1. work[t].insertUser \/ work[t].deleteUser
              \/ work[t].addRoles # {} \/ work[t].addUnits # {} => Ledger!Next
        BY <2>1, InsertionMaps, DeletionMaps, AdditionMaps
      <3> QED
        BY <2>1, <3>1, RemovalMaps
    <2>2. CASE ~Commit(t)
      <3>1. db' = db /\ identity' = identity
        BY <2>2
           DEF Submit, Abort, Handle, ReadScope, EnsureCurrentUserCanManageLogin,
               EnsureCurrentUserCanModifyRole, EnsureCurrentUserCanModifyUnit,
               FindUser, FindRow, RoleIsAssociatedWithApplication,
               PermissionExists, AssociationExists, ClearPermissions,
               ClearAssociations, CommitFails, Rollback, Continue
      <3> QED
        BY <3>1, QuietStepStutters
    <2> QED
      BY <2>1, <2>2
  <1> QED
    BY <1>1, <1>2

\* Whatever overlaps, fails or is abandoned, and for any number of threads, users
\* and requests, the rights a reader of the tables sees change as the ledger says:
\* in whole changes, of one account at a time, whose number is never another's.
THEOREM LedgerImplemented == Spec => ImplementsLedger
  BY LedgerInitMaps, LedgerStepMaps, LedgerInvHolds, PTL
     DEF Spec, ImplementsLedger, Ledger!Spec

\* So at every moment the ledger is in order: a number and a login name one
\* account each, and nobody who was deleted, or never was there, has a right or a
\* unit, although permissions, associations and users are read and deleted by
\* requests that overlap.
THEOREM LedgerStaysSound == Spec => []Ledger!Sound
  BY LedgerInvIsSound, LedgerInvHolds, PTL

=============================================================================
