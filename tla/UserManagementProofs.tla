------------------------ MODULE UserManagementProofs ------------------------
(***************************************************************************)
(* Proofs about UserManagement, for any threads, requests and initial      *)
(* database: type correctness here, and below it what delegation through   *)
(* the guarded handlers can reach.                                         *)
(***************************************************************************)
EXTENDS UserManagement, FiniteSetTheorems, TLAPS

-----------------------------------------------------------------------------
(* Type correctness. *)

\* The operation of a request tells which fields it has (the parameters of the
\* action it is posted to).
LEMMA RequestFields ==
    ASSUME NEW r \in Request
    PROVE  /\ r.op \in GuardedOps =>
                 r.actor \in Logins /\ r.app \in Apps /\ r.login \in Logins
           /\ r.op \in RoleOps => r.role \in Roles
           /\ r.op \in UnitOps => r.unit \in Units
           /\ r.op \in InsertOps.permissions =>
                 r.app \in Apps /\ r.role \in Roles
           /\ r.op \in InsertOps.associations =>
                 r.app \in Apps /\ r.unit \in Units
           /\ r.op \in InsertOps.users => r.login \in Logins
           /\ r.op \in {"AdminAddPermission", "AdminAddAssociation"} =>
                 r.user \in Nat
  BY DEF Request, GuardedRequest, RoleRequest, UnitRequest,
         InsertNewUserRequest, AdminUserRequest, AdminPermissionRequest,
         AdminAssociationRequest, AdminRemoveRequest, GuardedOps, RoleOps,
         UnitOps, InsertOps

\* The empty session, and the one each handler starts with, are well formed.
LEMMA FirstWorkType ==
    ASSUME NEW r \in Request
    PROVE  /\ NoWork \in Work
           /\ FirstWork(r) \in Work
           /\ FirstWork(r).addRoles = {} /\ FirstWork(r).addUnits = {}
           /\ FirstWork(r).dropPermissions = {}
           /\ FirstWork(r).dropAssociations = {}
           /\ FirstWork(r).insertUser => r.op \in InsertOps.users
  <1>1. NoWork \in Work
    BY DEF NoWork, Work
  <1>2. CASE r.op = "AdminAddUser"
    BY <1>2 DEF FirstWork, NoWork, Work, InsertOps
  <1>3. CASE r.op \in {"AdminAddPermission", "AdminAddAssociation"}
    BY <1>3, RequestFields DEF FirstWork, NoWork, Work, InsertOps
  <1>4. CASE r.op \notin {"AdminAddUser", "AdminAddPermission",
                          "AdminAddAssociation"}
    BY <1>4, <1>1 DEF FirstWork, NoWork, InsertOps
  <1> QED
    BY <1>1, <1>2, <1>3, <1>4

\* What HandlersKeepToTheirSteps asks of each step, one by one.
LEMMA OpsAtStep ==
    /\ OpsAt("loginScope") = GuardedOps
    /\ OpsAt("login") = GuardedOps
    /\ OpsAt("role") = RoleOps
    /\ OpsAt("unitScope") = UnitOps
    /\ OpsAt("unit") = UnitOps
    /\ OpsAt("findUser") =
          {"AddPermission", "AddUnit", "InsertNewUser", "AdminDeleteUser"}
    /\ OpsAt("findRow") =
          {"RemovePermission", "RemoveUnit", "AdminRemovePermission",
           "AdminRemoveAssociation"}
    /\ OpsAt("roleAllowed") = {"AdminAddPermission"}
    /\ OpsAt("permissionExists") = InsertOps.permissions
    /\ OpsAt("associationExists") = InsertOps.associations
    /\ OpsAt("clearPermissions") = {"AdminDeleteUser"}
    /\ OpsAt("clearAssociations") = {"AdminDeleteUser"}
    /\ OpsAt("commit") = {r.op : r \in Requests}
  BY DEF OpsAt

\* A handler that goes on to a step of its operation, with a session that fits
\* it, keeps the type invariant.
LEMMA ContinueKeepsType ==
    ASSUME TypeInv, NEW t \in Threads, pc[t] # "idle",
           NEW next \in Step \ {"idle"}, NEW w \in Work,
           request[t].op \in OpsAt(next), SessionFits(request[t], w),
           Continue(t, next, w)
    PROVE  TypeInv'
  <1>1. TypeOK'
    BY DEF TypeInv, TypeOK, Continue
  <1>2. HandlersKeepToTheirSteps'
    <2> SUFFICES ASSUME NEW s \in Threads
                 PROVE  /\ pc'[s] = "idle" =>
                              work'[s] = NoWork /\ scope'[s] = NoScope
                        /\ pc'[s] # "idle" =>
                              /\ request'[s] \in Requests
                              /\ request'[s].op \in OpsAt(pc'[s])
                              /\ SessionFits(request'[s], work'[s])
      BY DEF HandlersKeepToTheirSteps
    <2>1. CASE s = t
      BY <2>1 DEF TypeInv, TypeOK, HandlersKeepToTheirSteps, Continue
    <2>2. CASE s # t
      BY <2>2 DEF TypeInv, TypeOK, HandlersKeepToTheirSteps, Continue
    <2> QED
      BY <2>1, <2>2
  <1>3. TablesFinite'
    BY DEF TypeInv, TablesFinite, Continue
  <1> QED
    BY <1>1, <1>2, <1>3 DEF TypeInv

\* Closing a session does.
LEMMA RollbackKeepsType ==
    ASSUME TypeInv, NEW t \in Threads, Rollback(t)
    PROVE  TypeInv'
  <1>1. TypeOK'
    BY FirstWorkType, ManagementAssumption
       DEF TypeInv, TypeOK, Rollback, EndRequest, Step, NoWork, Work
  <1>2. HandlersKeepToTheirSteps'
    BY DEF TypeInv, TypeOK, HandlersKeepToTheirSteps, Rollback, EndRequest
  <1>3. TablesFinite'
    BY DEF TypeInv, TablesFinite, Rollback
  <1> QED
    BY <1>1, <1>2, <1>3 DEF TypeInv

\* A request fits the session it starts with.
LEMMA SubmitKeepsType ==
    ASSUME TypeInv, NEW t \in Threads, Submit(t)
    PROVE  TypeInv'
  <1> PICK r \in Requests :
            /\ pc[t] = "idle"
            /\ pc' = [pc EXCEPT ![t] = FirstStep(r)]
            /\ request' = [request EXCEPT ![t] = r]
            /\ work' = [work EXCEPT ![t] = FirstWork(r)]
            /\ UNCHANGED <<db, identity, audits, scope>>
    BY DEF Submit
  <1>1. r \in Request
    BY ManagementAssumption
  <1>2. FirstStep(r) \in Step \ {"idle"} /\ r.op \in OpsAt(FirstStep(r))
    BY <1>1, OpsAtStep
       DEF FirstStep, Step, Request, GuardedRequest, RoleRequest, UnitRequest,
           InsertNewUserRequest, AdminUserRequest, AdminPermissionRequest,
           AdminAssociationRequest, AdminRemoveRequest, GuardedOps, RoleOps,
           UnitOps, InsertOps
  <1>3. FirstWork(r) \in Work /\ SessionFits(r, FirstWork(r))
    BY <1>1, FirstWorkType, FS_EmptySet DEF SessionFits
  <1>4. TypeOK'
    BY <1>2, <1>3 DEF TypeInv, TypeOK
  <1>5. HandlersKeepToTheirSteps'
    BY <1>2, <1>3 DEF TypeInv, TypeOK, HandlersKeepToTheirSteps
  <1>6. TablesFinite'
    BY DEF TypeInv, TablesFinite
  <1> QED
    BY <1>4, <1>5, <1>6 DEF TypeInv

\* The guards of the four handlers keep the type invariant: each goes on to a
\* step of the same operation or rolls back.
LEMMA GuardsKeepType ==
    ASSUME TypeInv, NEW t \in Threads,
           \/ ReadScope(t)
           \/ EnsureCurrentUserCanManageLogin(t)
           \/ EnsureCurrentUserCanModifyRole(t)
           \/ EnsureCurrentUserCanModifyUnit(t)
    PROVE  TypeInv'
  <1> DEFINE r == request[t]
  <1>1. pc[t] # "idle" =>
            /\ r \in Requests /\ r.op \in OpsAt(pc[t])
            /\ work[t] \in Work /\ SessionFits(r, work[t])
    BY DEF TypeInv, TypeOK, HandlersKeepToTheirSteps
  <1>2. CASE ReadScope(t)
    <2> DEFINE found == ManagementScope(db, r.app, r.actor)
               next == IF pc[t] = "loginScope" THEN "login" ELSE "unit"
    <2>1. CASE Rollback(t)
      BY <2>1, RollbackKeepsType
    <2>2. CASE /\ found # NoScope
               /\ scope' = [scope EXCEPT ![t] = found]
               /\ pc' = [pc EXCEPT ![t] = next]
               /\ UNCHANGED <<db, identity, audits, request, work>>
      <3>1. found \in {ManageAll, ManageSchool, ManageUnit, NoScope}
        BY DEF ManagementScope
      <3>2. next \in Step \ {"idle"} /\ r.op \in OpsAt(next)
        BY <1>2, <1>1, OpsAtStep DEF ReadScope, Step
      <3>3. TypeOK'
        BY <2>2, <3>1, <3>2 DEF TypeInv, TypeOK
      <3>4. HandlersKeepToTheirSteps'
        BY <2>2, <3>2, <1>1, <1>2
           DEF TypeInv, TypeOK, HandlersKeepToTheirSteps, ReadScope
      <3>5. TablesFinite'
        BY <2>2 DEF TypeInv, TablesFinite
      <3> QED
        BY <3>3, <3>4, <3>5 DEF TypeInv
    <2> QED
      BY <1>2, <2>1, <2>2, Zenon DEF ReadScope, TypeInv, TypeOK
  <1>3. CASE EnsureCurrentUserCanManageLogin(t)
    <2> DEFINE next == IF r.op \in RoleOps THEN "role" ELSE "unitScope"
    <2>1. CASE Rollback(t)
      BY <2>1, RollbackKeepsType
    <2>2. CASE Continue(t, next, work[t])
      <3>1. next \in Step \ {"idle"} /\ r.op \in OpsAt(next)
        BY <1>1, <1>3, OpsAtStep
           DEF EnsureCurrentUserCanManageLogin, Step, GuardedOps
      <3> QED
        BY <1>1, <1>3, <2>2, <3>1, ContinueKeepsType
           DEF EnsureCurrentUserCanManageLogin
    <2> QED
      BY <1>3, <2>1, <2>2 DEF EnsureCurrentUserCanManageLogin
  <1>4. CASE EnsureCurrentUserCanModifyRole(t)
    <2> DEFINE next == StepAfterGuards(r.op)
    <2>1. CASE Rollback(t)
      BY <2>1, RollbackKeepsType
    <2>2. CASE Continue(t, next, work[t])
      <3>1. next \in Step \ {"idle"} /\ r.op \in OpsAt(next)
        BY <1>1, <1>4, OpsAtStep
           DEF EnsureCurrentUserCanModifyRole, StepAfterGuards, Step, RoleOps
      <3> QED
        BY <1>1, <1>4, <2>2, <3>1, ContinueKeepsType
           DEF EnsureCurrentUserCanModifyRole
    <2> QED
      BY <1>4, <2>1, <2>2 DEF EnsureCurrentUserCanModifyRole
  <1>5. CASE EnsureCurrentUserCanModifyUnit(t)
    <2> DEFINE next == StepAfterGuards(r.op)
    <2>1. CASE Rollback(t)
      BY <2>1, RollbackKeepsType
    <2>2. CASE Continue(t, next, work[t])
      <3>1. next \in Step \ {"idle"} /\ r.op \in OpsAt(next)
        BY <1>1, <1>5, OpsAtStep
           DEF EnsureCurrentUserCanModifyUnit, StepAfterGuards, Step, UnitOps
      <3> QED
        BY <1>1, <1>5, <2>2, <3>1, ContinueKeepsType
           DEF EnsureCurrentUserCanModifyUnit
    <2> QED
      BY <1>5, <2>1, <2>2 DEF EnsureCurrentUserCanModifyUnit
  <1> QED
    BY <1>2, <1>3, <1>4, <1>5

\* The ids of finitely many rows are finitely many.
LEMMA IdsFinite ==
    ASSUME NEW rows, IsFiniteSet(rows)
    PROVE  IsFiniteSet({x.id : x \in rows})
  <1> DEFINE ids == {x.id : x \in rows}
             idOf == [x \in rows |-> x.id]
  <1>1. idOf \in Surjection(rows, ids)
    BY DEF Surjection
  <1> QED
    BY <1>1, FS_Surjection

\* The queries of the handlers' bodies do: what they put in the session are
\* writes of the operation at hand, over finitely many rows.
LEMMA QueriesKeepType ==
    ASSUME TypeInv, NEW t \in Threads,
           \/ FindUser(t)
           \/ FindRow(t)
           \/ RoleIsAssociatedWithApplication(t)
           \/ PermissionExists(t)
           \/ AssociationExists(t)
           \/ ClearPermissions(t)
           \/ ClearAssociations(t)
    PROVE  TypeInv'
  <1> DEFINE r == request[t]
             w == work[t]
  <1>1. pc[t] # "idle" =>
            /\ r \in Requests /\ r.op \in OpsAt(pc[t])
            /\ w \in Work /\ SessionFits(r, w)
    BY DEF TypeInv, TypeOK, HandlersKeepToTheirSteps
  <1>2. /\ \A u \in db.users : u.id \in Nat
        /\ \A p \in db.permissions : p.id \in Nat
        /\ \A a \in db.associations : a.id \in Nat
    BY DEF TypeInv, TypeOK, Database, UserRow, PermissionRow, AssociationRow
  <1>3. IsFiniteSet(db.permissions) /\ IsFiniteSet(db.associations)
    BY DEF TypeInv, TablesFinite, Tables
  <1>4. CASE Rollback(t)
    BY <1>4, RollbackKeepsType
  <1>5. CASE FindUser(t) /\ ~Rollback(t)
    <2> DEFINE next == StepAfterUser(r.op)
    <2>1. next \in Step \ {"idle"} /\ r.op \in OpsAt(next)
      BY <1>1, <1>5, OpsAtStep
         DEF FindUser, StepAfterUser, Step, InsertOps
    <2>2. CASE \E u \in Active(db.users) : Continue(t, next, [w EXCEPT !.user = u.id])
      <3> PICK u \in Active(db.users) : Continue(t, next, [w EXCEPT !.user = u.id])
        BY <2>2
      <3>1. [w EXCEPT !.user = u.id] \in Work
        BY <1>1, <1>2, <1>5 DEF FindUser, Active, Work
      <3>2. SessionFits(r, [w EXCEPT !.user = u.id])
        BY <1>1, <1>5 DEF FindUser, SessionFits, Work
      <3> QED
        BY <1>5, <2>1, <3>1, <3>2, ContinueKeepsType DEF FindUser
    <2>3. CASE r.op = "InsertNewUser"
               /\ Continue(t, next, [w EXCEPT !.insertUser = TRUE])
      <3>1. [w EXCEPT !.insertUser = TRUE] \in Work
        BY <1>1, <1>5 DEF FindUser, Work
      <3>2. SessionFits(r, [w EXCEPT !.insertUser = TRUE])
        BY <1>1, <1>5, <2>3 DEF FindUser, SessionFits, Work, InsertOps
      <3> QED
        BY <1>5, <2>1, <2>3, <3>1, <3>2, ContinueKeepsType DEF FindUser
    <2> QED
      BY <1>5, <2>2, <2>3, Zenon DEF FindUser
  <1>6. CASE FindRow(t) /\ ~Rollback(t)
    <2>1. "commit" \in Step \ {"idle"} /\ r.op \in OpsAt("commit")
      BY <1>1, <1>6, OpsAtStep DEF FindRow, Step
    <2>2. CASE \E p \in PermissionsToRemove(r) :
                  Continue(t, "commit", [w EXCEPT !.dropPermissions = {p.id}])
      <3> PICK p \in PermissionsToRemove(r) :
                  Continue(t, "commit", [w EXCEPT !.dropPermissions = {p.id}])
        BY <2>2
      <3>1. p \in db.permissions
        BY DEF PermissionsToRemove, PermissionsOf, Active
      <3>2. [w EXCEPT !.dropPermissions = {p.id}] \in Work
        BY <1>1, <1>2, <1>6, <3>1 DEF FindRow, Work
      <3>3. SessionFits(r, [w EXCEPT !.dropPermissions = {p.id}])
        BY <1>1, <1>6, FS_Singleton DEF FindRow, SessionFits, Work
      <3> QED
        BY <1>6, <2>1, <3>2, <3>3, ContinueKeepsType DEF FindRow
    <2>3. CASE \E a \in AssociationsToRemove(r) :
                  Continue(t, "commit", [w EXCEPT !.dropAssociations = {a.id}])
      <3> PICK a \in AssociationsToRemove(r) :
                  Continue(t, "commit", [w EXCEPT !.dropAssociations = {a.id}])
        BY <2>3
      <3>1. a \in db.associations
        BY DEF AssociationsToRemove, AssociationsOf, Active
      <3>2. [w EXCEPT !.dropAssociations = {a.id}] \in Work
        BY <1>1, <1>2, <1>6, <3>1 DEF FindRow, Work
      <3>3. SessionFits(r, [w EXCEPT !.dropAssociations = {a.id}])
        BY <1>1, <1>6, FS_Singleton DEF FindRow, SessionFits, Work
      <3> QED
        BY <1>6, <2>1, <3>2, <3>3, ContinueKeepsType DEF FindRow
    <2> QED
      BY <1>6, <2>2, <2>3, Zenon DEF FindRow
  <1>7. CASE RoleIsAssociatedWithApplication(t) /\ ~Rollback(t)
    <2>1. /\ pc[t] = "roleAllowed"
          /\ Continue(t, "permissionExists", w)
      BY <1>7 DEF RoleIsAssociatedWithApplication
    <2>2. "permissionExists" \in Step \ {"idle"}
          /\ r.op \in OpsAt("permissionExists")
      BY <1>1, <2>1, OpsAtStep DEF Step, InsertOps
    <2> QED
      BY <1>1, <2>1, <2>2, ContinueKeepsType
  <1>8. CASE PermissionExists(t)
    <2> DEFINE next == IF r.op = "InsertNewUser" THEN "associationExists"
                       ELSE "commit"
               v == [w EXCEPT !.addRoles = {r.role}]
    <2>1. pc[t] = "permissionExists"
          /\ (Continue(t, next, w) \/ Continue(t, next, v))
      BY <1>8 DEF PermissionExists
    <2>2. next \in Step \ {"idle"} /\ r.op \in OpsAt(next)
      BY <1>1, <2>1, OpsAtStep DEF Step, InsertOps
    <2>3. r.op \in InsertOps.permissions /\ r.role \in Roles
      BY <1>1, <2>1, OpsAtStep, RequestFields, ManagementAssumption
    <2>4. v \in Work /\ SessionFits(r, v)
      BY <1>1, <2>1, <2>3 DEF Work, SessionFits
    <2> HIDE DEF next
    <2> QED
      BY <1>1, <2>1, <2>2, <2>4, ContinueKeepsType
  <1>9. CASE AssociationExists(t)
    <2> DEFINE v == [w EXCEPT !.addUnits = {r.unit}]
    <2>1. pc[t] = "associationExists"
          /\ (Continue(t, "commit", w) \/ Continue(t, "commit", v))
      BY <1>9 DEF AssociationExists
    <2>2. "commit" \in Step \ {"idle"} /\ r.op \in OpsAt("commit")
      BY <1>1, <2>1, OpsAtStep DEF Step
    <2>3. r.op \in InsertOps.associations /\ r.unit \in Units
      BY <1>1, <2>1, OpsAtStep, RequestFields, ManagementAssumption
    <2>4. v \in Work /\ SessionFits(r, v)
      BY <1>1, <2>1, <2>3 DEF Work, SessionFits
    <2> QED
      BY <1>1, <2>1, <2>2, <2>4, ContinueKeepsType
  <1>10. CASE ClearPermissions(t)
    <2> DEFINE rows == {x \in Active(db.permissions) : x.user = w.user}
               ids == {p.id : p \in rows}
    <2>1. IsFiniteSet(rows)
      BY <1>3, FS_Subset DEF Active
    <2>2. IsFiniteSet(ids) /\ ids \subseteq Nat
      <3> HIDE DEF rows
      <3>1. IsFiniteSet(ids)
        BY <2>1, IdsFinite
      <3>2. ids \subseteq Nat
        BY <1>2 DEF rows, Active
      <3> QED
        BY <3>1, <3>2
    <2> HIDE DEF ids
    <2>3. pc[t] = "clearPermissions"
          /\ Continue(t, "clearAssociations", [w EXCEPT !.dropPermissions = ids])
      BY <1>10 DEF ClearPermissions, ids
    <2>4. "clearAssociations" \in Step \ {"idle"}
          /\ r.op \in OpsAt("clearAssociations")
      BY <1>1, <2>3, OpsAtStep DEF Step
    <2>5. [w EXCEPT !.dropPermissions = ids] \in Work
          /\ SessionFits(r, [w EXCEPT !.dropPermissions = ids])
      BY <1>1, <2>2, <2>3 DEF Work, SessionFits
    <2> QED
      BY <2>3, <2>4, <2>5, ContinueKeepsType
  <1>11. CASE ClearAssociations(t)
    <2> DEFINE rows == {x \in Active(db.associations) : x.user = w.user}
               ids == {a.id : a \in rows}
               v == [w EXCEPT !.deleteUser = TRUE, !.dropAssociations = ids]
    <2>1. IsFiniteSet(rows)
      BY <1>3, FS_Subset DEF Active
    <2>2. IsFiniteSet(ids) /\ ids \subseteq Nat
      <3> HIDE DEF rows
      <3>1. IsFiniteSet(ids)
        BY <2>1, IdsFinite
      <3>2. ids \subseteq Nat
        BY <1>2 DEF rows, Active
      <3> QED
        BY <3>1, <3>2
    <2>3. pc[t] = "clearAssociations" /\ Continue(t, "commit", v)
      BY <1>11 DEF ClearAssociations
    <2>4. "commit" \in Step \ {"idle"} /\ r.op \in OpsAt("commit")
      BY <1>1, <2>3, OpsAtStep DEF Step
    <2> HIDE DEF ids
    <2>5. v \in Work /\ SessionFits(r, v)
      BY <1>1, <2>2, <2>3 DEF Work, SessionFits
    <2> QED
      BY <2>3, <2>4, <2>5, ContinueKeepsType
  <1> QED
    BY <1>4, <1>5, <1>6, <1>7, <1>8, <1>9, <1>10, <1>11

\* What a session inserts and deletes is counted by natural numbers.
LEMMA CountsType ==
    ASSUME TypeInv, NEW t \in Threads, pc[t] = "commit"
    PROVE  Inserted(t) \in [Tables -> Nat] /\ Deleted(t) \in [Tables -> Nat]
  <1>1. SessionFits(request[t], work[t])
    BY DEF TypeInv, HandlersKeepToTheirSteps
  <1>2. /\ IsFiniteSet(work[t].addRoles)
        /\ IsFiniteSet(work[t].addUnits)
    <2>1. IsFiniteSet({}) /\ IsFiniteSet({request[t].role})
            /\ IsFiniteSet({request[t].unit})
      BY FS_EmptySet, FS_Singleton
    <2> QED
      BY <1>1, <2>1 DEF SessionFits
  <1>3. /\ Cardinality(work[t].dropPermissions) \in Nat
        /\ Cardinality(work[t].dropAssociations) \in Nat
        /\ Cardinality(work[t].addRoles) \in Nat
        /\ Cardinality(work[t].addUnits) \in Nat
    BY <1>1, <1>2, FS_CardinalityType DEF SessionFits
  <1> QED
    BY <1>3 DEF Inserted, Deleted, Tables

\* A flush leaves well-formed tables: the columns of the rows it adds come from
\* the request, and every request that adds rows has them.
LEMMA FlushedType ==
    ASSUME TypeInv, NEW t \in Threads, pc[t] = "commit"
    PROVE  /\ Flushed(t) \in Database
           /\ \A table \in Tables : IsFiniteSet(Flushed(t)[table])
  <1> DEFINE r == request[t]
             w == work[t]
             user == IF w.insertUser THEN identity.users + 1 ELSE w.user
             newUsers ==
                IF w.insertUser
                THEN {[id |-> user, login |-> r.login, inactive |-> FALSE]}
                ELSE {}
             newPermission(role) ==
                [id |-> identity.permissions + 1, user |-> user, app |-> r.app,
                 role |-> role, inactive |-> FALSE]
             newAssociation(unit) ==
                [id |-> identity.associations + 1, user |-> user, app |-> r.app,
                 unit |-> unit, inactive |-> FALSE]
             newPermissions == {newPermission(role) : role \in w.addRoles}
             newAssociations == {newAssociation(unit) : unit \in w.addUnits}
             users == {u \in db.users : w.deleteUser => u.id # w.user}
             permissions ==
                {p \in db.permissions : p.id \notin w.dropPermissions}
             associations ==
                {a \in db.associations : a.id \notin w.dropAssociations}
  <1>1. r \in Request /\ w \in Work /\ SessionFits(r, w)
    BY ManagementAssumption DEF TypeInv, TypeOK, HandlersKeepToTheirSteps
  <1>2. user \in Nat /\ identity.permissions + 1 \in Nat
          /\ identity.associations + 1 \in Nat
    BY <1>1 DEF TypeInv, TypeOK, Tables, Work
  <1>3. newUsers \subseteq UserRow /\ IsFiniteSet(newUsers)
    <2> DEFINE row == [id |-> user, login |-> r.login, inactive |-> FALSE]
    <2>1. w.insertUser => row \in UserRow
      BY <1>1, <1>2, RequestFields DEF SessionFits, UserRow
    <2> HIDE DEF row
    <2>2. IsFiniteSet({}) /\ IsFiniteSet({row})
      BY FS_EmptySet, FS_Singleton
    <2>3. newUsers = IF w.insertUser THEN {row} ELSE {}
      BY DEF row
    <2> QED
      BY <2>1, <2>2, <2>3
  <1>4. newPermissions \subseteq PermissionRow /\ IsFiniteSet(newPermissions)
    <2>1. CASE w.addRoles = {}
      BY <2>1, FS_EmptySet
    <2>2. CASE w.addRoles # {}
      <3>1. /\ r.app \in Apps /\ r.role \in Roles
            /\ w.addRoles = {r.role}
        BY <1>1, <2>2, RequestFields DEF SessionFits
      <3>2. newPermission(r.role) \in PermissionRow
        BY <1>2, <3>1 DEF PermissionRow
      <3> HIDE DEF newPermission
      <3>3. newPermissions = {newPermission(r.role)}
        BY <3>1
      <3> QED
        BY <3>2, <3>3, FS_Singleton
    <2> QED
      BY <2>1, <2>2
  <1>5. newAssociations \subseteq AssociationRow /\ IsFiniteSet(newAssociations)
    <2>1. CASE w.addUnits = {}
      BY <2>1, FS_EmptySet
    <2>2. CASE w.addUnits # {}
      <3>1. /\ r.app \in Apps /\ r.unit \in Units
            /\ w.addUnits = {r.unit}
        BY <1>1, <2>2, RequestFields DEF SessionFits
      <3>2. newAssociation(r.unit) \in AssociationRow
        BY <1>2, <3>1 DEF AssociationRow
      <3> HIDE DEF newAssociation
      <3>3. newAssociations = {newAssociation(r.unit)}
        BY <3>1
      <3> QED
        BY <3>2, <3>3, FS_Singleton
    <2> QED
      BY <2>1, <2>2
  <1>6. /\ users \subseteq UserRow /\ permissions \subseteq PermissionRow
        /\ associations \subseteq AssociationRow
        /\ db.applicationRoles \subseteq ApplicationRoleRow
    BY DEF TypeInv, TypeOK, Database
  <1>7. /\ IsFiniteSet(users) /\ IsFiniteSet(permissions)
        /\ IsFiniteSet(associations)
    <2>1. /\ IsFiniteSet(db.users) /\ IsFiniteSet(db.permissions)
          /\ IsFiniteSet(db.associations)
      BY DEF TypeInv, TablesFinite, Tables
    <2> QED
      BY <2>1, FS_Subset
  <1>8. /\ Flushed(t) = [db EXCEPT !.users = users \cup newUsers,
                                   !.permissions = permissions \cup newPermissions,
                                   !.associations =
                                      associations \cup newAssociations]
        /\ DOMAIN db = {"users", "permissions", "associations",
                        "applicationRoles"}
    BY DEF Flushed, TypeInv, TypeOK, Database
  <1> HIDE DEF users, permissions, associations, newUsers, newPermissions,
               newAssociations
  <1>9. Flushed(t) \in Database
    <2> HIDE DEF user, newPermission, newAssociation
    <2>1. db \in Database
      BY DEF TypeInv, TypeOK
    <2> QED
      BY <1>3, <1>4, <1>5, <1>6, <1>8, <2>1 DEF Database
  <1>10. /\ IsFiniteSet(users \cup newUsers)
         /\ IsFiniteSet(permissions \cup newPermissions)
         /\ IsFiniteSet(associations \cup newAssociations)
    BY <1>3, <1>4, <1>5, <1>7, FS_Union
  <1>11. \A table \in Tables : IsFiniteSet(Flushed(t)[table])
    BY <1>8, <1>10 DEF Tables, TypeInv, TypeOK, Database
  <1> QED
    BY <1>9, <1>11

\* A commit keeps the type invariant.
LEMMA CommitKeepsType ==
    ASSUME TypeInv, NEW t \in Threads, Commit(t)
    PROVE  TypeInv'
  <1>1. Inserted(t) \in [Tables -> Nat] /\ Deleted(t) \in [Tables -> Nat]
    BY CountsType DEF Commit
  <1>2. db' \in Database /\ \A table \in Tables : IsFiniteSet(db'[table])
    BY FlushedType DEF Commit
  <1>3. identity' \in [Tables -> Nat]
    BY <1>1 DEF Commit, TypeInv, TypeOK
  <1>4. audits' \in [Tables -> [AuditedActions -> Nat]]
    BY <1>1 DEF Commit, Audited, AuditedActions, TypeInv, TypeOK
  <1>5. /\ pc' \in [Threads -> Step]
        /\ request' \in [Threads -> Requests \cup {NoRequest}]
        /\ scope' \in [Threads -> {ManageAll, ManageSchool, ManageUnit, NoScope}]
        /\ work' \in [Threads -> Work]
    BY FirstWorkType DEF Commit, EndRequest, TypeInv, TypeOK, Step, NoWork, Work
  <1>6. HandlersKeepToTheirSteps'
    BY DEF Commit, EndRequest, TypeInv, TypeOK, HandlersKeepToTheirSteps
  <1> QED
    BY <1>2, <1>3, <1>4, <1>5, <1>6 DEF TypeInv, TypeOK, TablesFinite

LEMMA TypeInit == Init => TypeInv
  <1> SUFFICES ASSUME Init PROVE TypeInv
    OBVIOUS
  <1>1. TypeOK
    BY ManagementAssumption, InitKeys
       DEF Init, TypeOK, Step, NoWork, Work, AuditedActions
  <1>2. HandlersKeepToTheirSteps /\ TablesFinite
    BY ManagementAssumption
       DEF Init, HandlersKeepToTheirSteps, TablesFinite
  <1> QED
    BY <1>1, <1>2 DEF TypeInv

LEMMA TypeNext == TypeInv /\ [Next]_vars => TypeInv'
  <1> SUFFICES ASSUME TypeInv, [Next]_vars PROVE TypeInv'
    OBVIOUS
  <1>1. CASE UNCHANGED vars
    BY <1>1 DEF vars, TypeInv, TypeOK, HandlersKeepToTheirSteps, TablesFinite
  <1>2. CASE Next
    <2> PICK t \in Threads : Submit(t) \/ Handle(t) \/ Abort(t)
      BY <1>2 DEF Next
    <2>1. CASE Submit(t)
      BY <2>1, SubmitKeepsType
    <2>2. CASE Abort(t) \/ CommitFails(t)
      BY <2>2, RollbackKeepsType DEF Abort, CommitFails
    <2>3. CASE Commit(t)
      BY <2>3, CommitKeepsType
    <2>4. CASE Handle(t) /\ ~Commit(t) /\ ~CommitFails(t)
      BY <2>4, GuardsKeepType, QueriesKeepType DEF Handle
    <2> QED
      BY <2>1, <2>2, <2>3, <2>4
  <1> QED
    BY <1>1, <1>2

\* The tables, the threads and their sessions always have the shape the code
\* gives them, every thread is at a step of the operation it handles, and a
\* session never holds more than one new row for a table.
THEOREM TypeCorrect == Spec => []TypeInv
  BY TypeInit, TypeNext, PTL DEF Spec

\* In particular each variable has its type.
THEOREM TypeOKHolds == Spec => []TypeOK
  <1>1. TypeInv => TypeOK
    BY DEF TypeInv
  <1> QED
    BY <1>1, TypeCorrect, PTL

-----------------------------------------------------------------------------
(* Delegation.                                                                *)

\* What GetVisibleByUser offers a login never leaves the delegable roles.  A
\* manageable role is above the LARGEST level held, hence above the level of
\* each role held; and if a role held was itself delegated, above the level of
\* the role it was delegated from.
LEMMA VisibleRolesAreDelegable ==
    ASSUME db \in Database, InitDb \in Database,
           db.applicationRoles = InitDb.applicationRoles,
           NEW app \in Apps, NEW login,
           RolesHeldIn(db, app) \subseteq DelegableRoles[app]
    PROVE  VisibleRoles(db, app, login) \subseteq DelegableRoles[app]
  <1> SUFFICES ASSUME NEW role \in VisibleRoles(db, app, login)
               PROVE  role \in DelegableRoles[app]
    OBVIOUS
  <1>1. RolesOf(db, app, login) \subseteq RolesHeldIn(db, app)
    BY DEF RolesOf, PermissionsOf, RolesHeldIn
  <1>2. CASE role \in RolesOf(db, app, login)
    BY <1>1, <1>2
  <1>3. CASE role \in ManageableApplicationRoles(db, app, login)
    <2>1. PICK x \in Leveled(InitDb, app) :
             /\ x.role = role
             /\ \E max \in HeldLevels(db, app, login) :
                   /\ \A l \in HeldLevels(db, app, login) : l <= max
                   /\ x.level > max
      BY <1>3 DEF ManageableApplicationRoles, Leveled
    <2>2. PICK max \in HeldLevels(db, app, login) :
                   /\ \A l \in HeldLevels(db, app, login) : l <= max
                   /\ x.level > max
      BY <2>1
    <2>3. \A z \in Leveled(InitDb, app) : z.level \in Nat
      BY DEF Leveled, Database, ApplicationRoleRow
    <2>4. \A z \in Leveled(InitDb, app) :
             z.role \in RolesOf(db, app, login) =>
                z.level \in HeldLevels(db, app, login)
      BY DEF Leveled, HeldLevels
    <2>5. PICK held \in Leveled(InitDb, app) :
             held.role \in RolesOf(db, app, login) /\ held.level = max
      BY <2>2 DEF Leveled, HeldLevels
    <2>6. held.role \in DelegableRoles[app]
      BY <1>1, <2>5
    <2>7. CASE held.role \in RolesHeldIn(InitDb, app)
      BY <2>1, <2>2, <2>5, <2>7 DEF DelegableRoles
    <2>8. CASE held.role \notin RolesHeldIn(InitDb, app)
      <3>1. PICK z, y \in Leveled(InitDb, app) :
               /\ z.role = held.role
               /\ y.role \in RolesHeldIn(InitDb, app)
               /\ z.level > y.level
        BY <2>6, <2>8 DEF DelegableRoles
      <3>2. z.level <= max
        BY <2>2, <2>4, <2>5, <3>1
      <3>3. x.level > y.level
        BY <2>2, <2>3, <2>5, <3>1, <3>2
      <3> QED
        BY <2>1, <3>1, <3>3 DEF DelegableRoles
    <2> QED
      BY <2>7, <2>8
  <1> QED
    BY <1>2, <1>3 DEF VisibleRoles

\* The scope a login acts in is the name of a role it holds.
LEMMA ScopeIsHeld ==
    ASSUME NEW app, NEW login,
           ManagementScope(db, app, login) # NoScope
    PROVE  ManagementScope(db, app, login) \in RolesHeldIn(db, app)
  <1>1. ManagementScope(db, app, login) \in RolesOf(db, app, login)
    BY DEF ManagementScope
  <1> QED
    BY <1>1 DEF RolesOf, PermissionsOf, RolesHeldIn

\* The units a login sees in a scope somebody could be given lie within reach.
LEMMA VisibleUnitsAreWithinReach ==
    ASSUME UnitsStayInSchools, db \in Database, InitDb \in Database,
           NEW app \in Apps, NEW login, NEW found \in DelegableRoles[app],
           NEW unit \in VisibleUnits(db, app, login, found)
    PROVE  UnitWithinReach(app, unit)
  <1> SUFFICES ASSUME ManageAll \notin DelegableRoles[app]
               PROVE  SchoolOf[unit] \in InitSchools[app]
    BY DEF UnitWithinReach
  <1>1. \A own \in UnitsOf(db, app, login) : SchoolOf[own] \in InitSchools[app]
    BY DEF UnitsOf, AssociationsOf, UnitsStayInSchools
  <1>2. \E own \in UnitsOf(db, app, login) : SchoolOf[own] = SchoolOf[unit]
    BY DEF VisibleUnits
  <1> QED
    BY <1>1, <1>2

\* A login somebody may manage is an insider: the unit they have in common is
\* one it started with, or was added to somebody who was an insider and has the
\* same user row.
LEMMA ManagedLoginsAreInsiders ==
    ASSUME OutsidersStayOutside, db \in Database, InitDb \in Database,
           db.users \subseteq InitDb.users,
           NEW app \in Apps, NEW current, NEW login \in Logins, NEW found,
           CanUserManageGivenLogin(db, app, current, login, found)
    PROVE  login \in Insiders[app]
  <1>1. PICK a \in Active(db.associations) :
            a.app = app /\ a.user \in UserIds(InitDb, login)
    BY DEF CanUserManageGivenLogin, UnitsOf, AssociationsOf, UserIds
  <1>2. CASE a \in InitDb.associations
    BY <1>1, <1>2 DEF Active, Insiders, UnitsOf, AssociationsOf
  <1>3. CASE a \notin InitDb.associations
    <2>1. PICK l \in Insiders[app] : a.user \in UserIds(InitDb, l)
      BY <1>1, <1>3 DEF OutsidersStayOutside, Active
    <2>2. l = login
      BY <1>1, <2>1, InitKeys DEF UserIds, Tables
    <2> QED
      BY <2>1, <2>2
  <1> QED
    BY <1>2, <1>3

\* A step that leaves the tables and the other threads alone, and ends the
\* request of t or keeps it within reach, keeps the delegation invariant.
LEMMA QuietStepKeepsDelegation ==
    ASSUME DelegationInv, TypeInv', NEW t \in Threads, db' = db,
           \A s \in Threads \ {t} :
               /\ pc'[s] = pc[s] /\ request'[s] = request[s]
               /\ scope'[s] = scope[s] /\ work'[s] = work[s],
           pc'[t] = "idle"
             \/ ActsWithinReach(request'[t], pc'[t], scope'[t], work'[t])
    PROVE  DelegationInv'
  <1>1. /\ db'.users \subseteq InitDb.users
        /\ db'.applicationRoles = InitDb.applicationRoles
    BY DEF DelegationInv
  <1>2. RolesStayDelegable' /\ UnitsStayInSchools' /\ OutsidersStayOutside'
    BY DEF DelegationInv, RolesStayDelegable, UnitsStayInSchools,
           OutsidersStayOutside
  <1>3. HandlersActWithinReach'
    BY DEF DelegationInv, HandlersActWithinReach
  <1> QED
    BY <1>1, <1>2, <1>3 DEF DelegationInv

\* Ending a request does.
LEMMA RollbackKeepsDelegation ==
    ASSUME DelegationInv, NEW t \in Threads, Rollback(t)
    PROVE  DelegationInv'
  <1>1. TypeInv'
    BY RollbackKeepsType DEF DelegationInv
  <1>2. /\ pc'[t] = "idle"
        /\ \A s \in Threads \ {t} :
               /\ pc'[s] = pc[s] /\ request'[s] = request[s]
               /\ scope'[s] = scope[s] /\ work'[s] = work[s]
    BY DEF DelegationInv, TypeInv, TypeOK, Rollback, EndRequest
  <1> QED
    BY <1>1, <1>2, QuietStepKeepsDelegation DEF Rollback

\* Going on to another query does, when it stays within reach.
LEMMA ContinueKeepsDelegation ==
    ASSUME DelegationInv, TypeInv', NEW t \in Threads, NEW next, NEW w,
           Continue(t, next, w),
           ActsWithinReach(request[t], next, scope[t], w)
    PROVE  DelegationInv'
  <1>1. /\ pc'[t] = next /\ work'[t] = w
        /\ request'[t] = request[t] /\ scope'[t] = scope[t]
        /\ \A s \in Threads \ {t} :
               /\ pc'[s] = pc[s] /\ request'[s] = request[s]
               /\ scope'[s] = scope[s] /\ work'[s] = work[s]
    BY DEF DelegationInv, TypeInv, TypeOK, Continue
  <1> QED
    BY <1>1, QuietStepKeepsDelegation DEF Continue

\* The requests that are there, and where they start.
LEMMA GrantsAreGuarded ==
    ASSUME OnlyGuardedGrants, NEW r \in Requests
    PROVE  /\ r.op \in GuardedOps \cup AdminRemovals
           /\ r.op \in GuardedOps => r.app \in Apps /\ r.login \in Logins
           /\ FirstStep(r) = IF r.op \in GuardedOps THEN "loginScope"
                             ELSE IF r.op = "AdminDeleteUser" THEN "findUser"
                             ELSE "findRow"
           /\ FirstWork(r) = NoWork
  <1>1. r.op \in GuardedOps \cup AdminRemovals
    BY DEF OnlyGuardedGrants
  <1>2. r.op \in GuardedOps => r.app \in Apps /\ r.login \in Logins
    <2>1. r \in Request
      BY ManagementAssumption
    <2> QED
      BY <2>1, RequestFields
  <1> QED
    BY <1>1, <1>2
       DEF GuardedOps, RoleOps, UnitOps, AdminRemovals, FirstStep, FirstWork

\* A request starts within reach: its session is empty.
LEMMA SubmitKeepsDelegation ==
    ASSUME OnlyGuardedGrants, DelegationInv, NEW t \in Threads, Submit(t)
    PROVE  DelegationInv'
  <1> PICK r \in Requests :
            /\ pc[t] = "idle"
            /\ pc' = [pc EXCEPT ![t] = FirstStep(r)]
            /\ request' = [request EXCEPT ![t] = r]
            /\ work' = [work EXCEPT ![t] = FirstWork(r)]
            /\ UNCHANGED <<db, identity, audits, scope>>
    BY DEF Submit
  <1>1. TypeInv'
    BY SubmitKeepsType DEF DelegationInv
  <1> DEFINE step == FirstStep(r)
  <1>2. r.op \in GuardedOps \cup AdminRemovals
    BY GrantsAreGuarded
  <1>3. /\ step = IF r.op \in GuardedOps THEN "loginScope"
                  ELSE IF r.op = "AdminDeleteUser" THEN "findUser" ELSE "findRow"
        /\ FirstWork(r) = NoWork
    BY GrantsAreGuarded
  <1>4. scope[t] = NoScope
    BY DEF DelegationInv, TypeInv, HandlersKeepToTheirSteps
  <1>5. /\ pc'[t] = step /\ request'[t] = r
        /\ scope'[t] = NoScope /\ work'[t] = NoWork
        /\ \A s \in Threads \ {t} :
               /\ pc'[s] = pc[s] /\ request'[s] = request[s]
               /\ scope'[s] = scope[s] /\ work'[s] = work[s]
    BY <1>3, <1>4 DEF DelegationInv, TypeInv, TypeOK
  <1>6. ActsWithinReach(r, step, NoScope, NoWork)
    BY <1>2, <1>3 DEF ActsWithinReach, NoWork, AdminRemovals, GuardedOps, RoleOps, UnitOps
  <1> QED
    BY <1>1, <1>5, <1>6, QuietStepKeepsDelegation

\* The guards establish what the handler goes on to rely on, from what the
\* others could be given at the instant of the query.
LEMMA GuardsKeepDelegation ==
    ASSUME OnlyGuardedGrants, DelegationInv, NEW t \in Threads,
           \/ ReadScope(t)
           \/ EnsureCurrentUserCanManageLogin(t)
           \/ EnsureCurrentUserCanModifyRole(t)
           \/ EnsureCurrentUserCanModifyUnit(t)
    PROVE  DelegationInv'
  <1> DEFINE r == request[t]
             w == work[t]
  <1>1. TypeInv'
    BY GuardsKeepType DEF DelegationInv
  <1>2. /\ db \in Database /\ InitDb \in Database
        /\ db.users \subseteq InitDb.users
        /\ db.applicationRoles = InitDb.applicationRoles
        /\ RolesStayDelegable /\ UnitsStayInSchools /\ OutsidersStayOutside
    BY ManagementAssumption DEF DelegationInv, TypeInv, TypeOK
  <1>3. /\ r.op \in OpsAt(pc[t])
        /\ r.op \in GuardedOps /\ r.app \in Apps /\ r.login \in Logins
        /\ ActsWithinReach(r, pc[t], scope[t], w)
    <2>1. pc[t] \in {"loginScope", "login", "role", "unitScope", "unit"}
      BY DEF ReadScope, EnsureCurrentUserCanManageLogin,
             EnsureCurrentUserCanModifyRole, EnsureCurrentUserCanModifyUnit
    <2>2. /\ r \in Requests /\ r.op \in OpsAt(pc[t])
          /\ ActsWithinReach(r, pc[t], scope[t], w)
      BY <2>1 DEF DelegationInv, TypeInv, HandlersKeepToTheirSteps,
                  HandlersActWithinReach
    <2>3. r.op \in GuardedOps
      BY <2>1, <2>2, OpsAtStep DEF GuardedOps
    <2> QED
      BY <2>2, <2>3, GrantsAreGuarded
  <1>4. CASE Rollback(t)
    BY <1>4, RollbackKeepsDelegation
  <1>5. CASE ReadScope(t) /\ ~Rollback(t)
    <2> DEFINE found == ManagementScope(db, r.app, r.actor)
               next == IF pc[t] = "loginScope" THEN "login" ELSE "unit"
    <2>1. /\ pc[t] \in {"loginScope", "unitScope"}
          /\ found # NoScope
          /\ scope' = [scope EXCEPT ![t] = found]
          /\ pc' = [pc EXCEPT ![t] = next]
          /\ UNCHANGED <<db, identity, audits, request, work>>
      BY <1>5, Zenon DEF ReadScope
    <2>2. found \in DelegableRoles[r.app]
      BY <2>1, <1>2, <1>3, ScopeIsHeld DEF RolesStayDelegable
    <2>3. ActsWithinReach(r, next, found, w)
      <3> HIDE DEF found
      <3> QED
        BY <2>1, <2>2, <1>3 DEF ActsWithinReach
    <2>4. /\ pc'[t] = next /\ work'[t] = w /\ request'[t] = r
          /\ scope'[t] = found
          /\ \A s \in Threads \ {t} :
               /\ pc'[s] = pc[s] /\ request'[s] = request[s]
               /\ scope'[s] = scope[s] /\ work'[s] = work[s]
      BY <2>1 DEF DelegationInv, TypeInv, TypeOK
    <2> QED
      BY <2>1, <2>3, <2>4, <1>1, QuietStepKeepsDelegation
  <1>6. CASE EnsureCurrentUserCanManageLogin(t) /\ ~Rollback(t)
    <2> DEFINE next == IF r.op \in RoleOps THEN "role" ELSE "unitScope"
    <2>1. /\ pc[t] = "login"
          /\ CanUserManageGivenLogin(db, r.app, r.actor, r.login, scope[t])
          /\ Continue(t, next, w)
      BY <1>6, Zenon DEF EnsureCurrentUserCanManageLogin
    <2>2. r.login \in Insiders[r.app]
      BY <2>1, <1>2, <1>3, ManagedLoginsAreInsiders
    <2>3. ActsWithinReach(r, next, scope[t], w)
      BY <2>1, <2>2, <1>3 DEF ActsWithinReach
    <2> QED
      BY <2>1, <2>3, <1>1, ContinueKeepsDelegation
  <1>7. CASE EnsureCurrentUserCanModifyRole(t) /\ ~Rollback(t)
    <2> DEFINE next == StepAfterGuards(r.op)
    <2>1. /\ pc[t] = "role"
          /\ r.role \in VisibleRoles(db, r.app, r.actor)
          /\ Continue(t, next, w)
      BY <1>7, Zenon DEF EnsureCurrentUserCanModifyRole
    <2>2. r.role \in DelegableRoles[r.app]
      BY <2>1, <1>2, <1>3, VisibleRolesAreDelegable DEF RolesStayDelegable
    <2>3. r.op \in RoleOps
      BY <2>1, <1>3, OpsAtStep
    <2>4. ActsWithinReach(r, next, scope[t], w)
      BY <2>1, <2>2, <2>3, <1>3 DEF ActsWithinReach, StepAfterGuards, RoleOps
    <2> QED
      BY <2>1, <2>4, <1>1, ContinueKeepsDelegation
  <1>8. CASE EnsureCurrentUserCanModifyUnit(t) /\ ~Rollback(t)
    <2> DEFINE next == StepAfterGuards(r.op)
    <2>1. /\ pc[t] = "unit"
          /\ r.unit \in VisibleUnits(db, r.app, r.actor, scope[t])
          /\ Continue(t, next, w)
      BY <1>8, Zenon DEF EnsureCurrentUserCanModifyUnit
    <2>2. r.op \in UnitOps
      BY <2>1, <1>3, OpsAtStep
    <2>3. UnitWithinReach(r.app, r.unit)
      <3>1. CASE scope[t] \in DelegableRoles[r.app]
        BY <3>1, <2>1, <1>2, <1>3, VisibleUnitsAreWithinReach
      <3>2. CASE scope[t] = NoScope
        BY <3>2, <2>1, RulesAssumption DEF VisibleUnits
      <3> QED
        BY <3>1, <3>2, <2>1, <1>3 DEF ActsWithinReach
    <2>4. ActsWithinReach(r, next, scope[t], w)
      BY <2>1, <2>2, <2>3, <1>3 DEF ActsWithinReach, StepAfterGuards, UnitOps
    <2> QED
      BY <2>1, <2>4, <1>1, ContinueKeepsDelegation
  <1> QED
    BY <1>4, <1>5, <1>6, <1>7, <1>8

\* The queries of the four bodies find the user row the login started with, and
\* gather writes of the role and the unit that were checked.
LEMMA QueriesKeepDelegation ==
    ASSUME OnlyGuardedGrants, DelegationInv, NEW t \in Threads,
           \/ FindUser(t)
           \/ FindRow(t)
           \/ RoleIsAssociatedWithApplication(t)
           \/ PermissionExists(t)
           \/ AssociationExists(t)
           \/ ClearPermissions(t)
           \/ ClearAssociations(t)
    PROVE  DelegationInv'
  <1> DEFINE r == request[t]
             w == work[t]
  <1>1. TypeInv'
    BY QueriesKeepType DEF DelegationInv
  <1>2. pc[t] # "idle" =>
            /\ r \in Requests /\ r.op \in OpsAt(pc[t])
            /\ r.op \in GuardedOps \cup AdminRemovals
            /\ ActsWithinReach(r, pc[t], scope[t], w) /\ w \in Work
    BY DEF DelegationInv, TypeInv, TypeOK, HandlersKeepToTheirSteps,
           HandlersActWithinReach, OnlyGuardedGrants
  <1>3. CASE Rollback(t)
    BY <1>3, RollbackKeepsDelegation
  <1>4. CASE FindUser(t) /\ ~Rollback(t)
    <2> DEFINE next == StepAfterUser(r.op)
    <2>1. /\ pc[t] = "findUser"
          /\ r.op \in {"AddPermission", "AddUnit", "AdminDeleteUser"}
      BY <1>2, <1>4, OpsAtStep
         DEF FindUser, GuardedOps, RoleOps, UnitOps, AdminRemovals
    <2>2. PICK u \in Active(db.users) :
             u.login = r.login /\ Continue(t, next, [w EXCEPT !.user = u.id])
      BY <1>4, <2>1, Zenon DEF FindUser
    <2>3. u.id \in UserIds(InitDb, r.login)
      BY <2>2 DEF DelegationInv, Active, UserIds
    <2>4. ActsWithinReach(r, next, scope[t], [w EXCEPT !.user = u.id])
      BY <2>1, <2>3, <1>2
         DEF ActsWithinReach, StepAfterUser, Work, GuardedOps, RoleOps, UnitOps
    <2> QED
      BY <2>2, <2>4, <1>1, ContinueKeepsDelegation
  <1>5. CASE FindRow(t) /\ ~Rollback(t)
    <2>1. /\ pc[t] = "findRow"
          /\ r.op \in {"RemovePermission", "RemoveUnit",
                        "AdminRemovePermission", "AdminRemoveAssociation"}
      BY <1>2, <1>5, OpsAtStep DEF FindRow
    <2>2. CASE \E p : Continue(t, "commit", [w EXCEPT !.dropPermissions = {p.id}])
      <3> PICK p : Continue(t, "commit", [w EXCEPT !.dropPermissions = {p.id}])
        BY <2>2
      <3>1. ActsWithinReach(r, "commit", scope[t],
                            [w EXCEPT !.dropPermissions = {p.id}])
        BY <2>1, <1>2 DEF ActsWithinReach, Work
      <3> QED
        BY <3>1, <1>1, ContinueKeepsDelegation
    <2>3. CASE \E a : Continue(t, "commit", [w EXCEPT !.dropAssociations = {a.id}])
      <3> PICK a : Continue(t, "commit", [w EXCEPT !.dropAssociations = {a.id}])
        BY <2>3
      <3>1. ActsWithinReach(r, "commit", scope[t],
                            [w EXCEPT !.dropAssociations = {a.id}])
        BY <2>1, <1>2 DEF ActsWithinReach, Work
      <3> QED
        BY <3>1, <1>1, ContinueKeepsDelegation
    <2> QED
      BY <1>5, <2>2, <2>3, Zenon DEF FindRow
  <1>6. CASE PermissionExists(t)
    <2>1. pc[t] = "permissionExists" /\ r.op = "AddPermission"
      BY <1>2, <1>6, OpsAtStep
         DEF PermissionExists, GuardedOps, RoleOps, UnitOps, InsertOps,
             AdminRemovals
    <2>2. \/ Continue(t, "commit", w)
          \/ Continue(t, "commit", [w EXCEPT !.addRoles = {r.role}])
      BY <1>6, <2>1 DEF PermissionExists
    <2>3. /\ ActsWithinReach(r, "commit", scope[t], w)
          /\ ActsWithinReach(r, "commit", scope[t],
                             [w EXCEPT !.addRoles = {r.role}])
      BY <2>1, <1>2 DEF ActsWithinReach, Work
    <2> QED
      BY <2>2, <2>3, <1>1, ContinueKeepsDelegation
  <1>7. CASE AssociationExists(t)
    <2>1. pc[t] = "associationExists" /\ r.op = "AddUnit"
      BY <1>2, <1>7, OpsAtStep
         DEF AssociationExists, GuardedOps, RoleOps, UnitOps, InsertOps,
             AdminRemovals
    <2>2. \/ Continue(t, "commit", w)
          \/ Continue(t, "commit", [w EXCEPT !.addUnits = {r.unit}])
      BY <1>7, <2>1 DEF AssociationExists
    <2>3. /\ ActsWithinReach(r, "commit", scope[t], w)
          /\ ActsWithinReach(r, "commit", scope[t],
                             [w EXCEPT !.addUnits = {r.unit}])
      BY <2>1, <1>2 DEF ActsWithinReach, Work
    <2> QED
      BY <2>2, <2>3, <1>1, ContinueKeepsDelegation
  <1>8. CASE RoleIsAssociatedWithApplication(t)
    BY <1>2, <1>8, OpsAtStep
       DEF RoleIsAssociatedWithApplication, GuardedOps, RoleOps, UnitOps,
           AdminRemovals
  <1>9. CASE ClearPermissions(t) \/ ClearAssociations(t)
    <2>1. /\ pc[t] \in {"clearPermissions", "clearAssociations"}
          /\ r.op = "AdminDeleteUser"
      BY <1>2, <1>9, OpsAtStep DEF ClearPermissions, ClearAssociations
    <2> DEFINE roles ==
                 {p.id : p \in {x \in Active(db.permissions) : x.user = w.user}}
               units ==
                 {a.id : a \in {x \in Active(db.associations) : x.user = w.user}}
    <2>2. \/ Continue(t, "clearAssociations",
                      [w EXCEPT !.dropPermissions = roles])
          \/ Continue(t, "commit", [w EXCEPT !.deleteUser = TRUE,
                                             !.dropAssociations = units])
      BY <1>9, Zenon DEF ClearPermissions, ClearAssociations
    <2> HIDE DEF roles, units
    <2>3. /\ ActsWithinReach(r, "clearAssociations", scope[t],
                             [w EXCEPT !.dropPermissions = roles])
          /\ ActsWithinReach(r, "commit", scope[t],
                             [w EXCEPT !.deleteUser = TRUE,
                                       !.dropAssociations = units])
      BY <2>1, <1>2
         DEF ActsWithinReach, Work, GuardedOps, RoleOps, UnitOps
    <2> QED
      BY <2>2, <2>3, <1>1, ContinueKeepsDelegation
  <1> QED
    BY <1>3, <1>4, <1>5, <1>6, <1>7, <1>8, <1>9

\* A commit adds nothing but what was within reach, to a user row the server
\* started with, and takes away nothing the properties need.
LEMMA CommitKeepsDelegation ==
    ASSUME OnlyGuardedGrants, DelegationInv, NEW t \in Threads, Commit(t)
    PROVE  DelegationInv'
  <1> DEFINE r == request[t]
             w == work[t]
  <1>1. TypeInv'
    BY CommitKeepsType DEF DelegationInv
  <1>2. /\ r \in Requests
        /\ r.op \in GuardedOps \cup AdminRemovals
        /\ r.op \in GuardedOps => r.app \in Apps
        /\ ActsWithinReach(r, "commit", scope[t], w)
        /\ SessionFits(r, w)
    BY GrantsAreGuarded
       DEF Commit, DelegationInv, TypeInv, HandlersKeepToTheirSteps,
           HandlersActWithinReach
  <1>3. /\ w.addRoles # {} =>
              /\ r.op = "AddPermission" /\ w.addRoles = {r.role}
              /\ r.op \in GuardedOps
        /\ w.addUnits # {} =>
              /\ r.op = "AddUnit" /\ w.addUnits = {r.unit}
              /\ r.op \in GuardedOps
        /\ ~w.insertUser
    BY <1>2 DEF SessionFits, InsertOps, GuardedOps, RoleOps, UnitOps,
                AdminRemovals, ActsWithinReach
  <1>4. /\ db'.users \subseteq db.users
        /\ db'.applicationRoles = db.applicationRoles
        /\ \A p \in db'.permissions :
              \/ p \in db.permissions
              \/ /\ w.addRoles # {}
                 /\ p.user = w.user /\ p.app = r.app /\ p.role = r.role
        /\ \A a \in db'.associations :
              \/ a \in db.associations
              \/ /\ w.addUnits # {}
                 /\ a.user = w.user /\ a.app = r.app /\ a.unit = r.unit
    BY <1>3 DEF Commit, Flushed, DelegationInv, TypeInv, TypeOK, Database
  <1>5. RolesStayDelegable'
    BY <1>2, <1>3, <1>4
       DEF RolesStayDelegable, RolesHeldIn, Active, ActsWithinReach,
           DelegationInv
  <1>6. UnitsStayInSchools'
    BY <1>2, <1>3, <1>4
       DEF UnitsStayInSchools, Active, ActsWithinReach, UnitWithinReach,
           DelegationInv
  <1>7. OutsidersStayOutside'
    BY <1>2, <1>3, <1>4
       DEF OutsidersStayOutside, ActsWithinReach, DelegationInv
  <1>8. HandlersActWithinReach'
    BY DEF Commit, EndRequest, DelegationInv, TypeInv, TypeOK,
           HandlersActWithinReach
  <1> QED
    BY <1>1, <1>4, <1>5, <1>6, <1>7, <1>8 DEF DelegationInv

LEMMA DelegationInit == Init => DelegationInv
  <1> SUFFICES ASSUME Init PROVE DelegationInv
    OBVIOUS
  <1>1. TypeInv
    BY TypeInit
  <1>2. RolesStayDelegable /\ UnitsStayInSchools /\ OutsidersStayOutside
    BY DEF Init, RolesStayDelegable, DelegableRoles, UnitsStayInSchools,
           InitSchools, OutsidersStayOutside
  <1>3. HandlersActWithinReach
    BY DEF Init, HandlersActWithinReach
  <1> QED
    BY <1>1, <1>2, <1>3 DEF DelegationInv, Init

LEMMA DelegationNext ==
    ASSUME OnlyGuardedGrants
    PROVE  DelegationInv /\ [Next]_vars => DelegationInv'
  <1> SUFFICES ASSUME DelegationInv, [Next]_vars PROVE DelegationInv'
    OBVIOUS
  <1>1. CASE UNCHANGED vars
    <2>1. TypeInv'
      BY <1>1, TypeNext DEF DelegationInv
    <2> QED
      BY <1>1, <2>1
         DEF vars, DelegationInv, RolesStayDelegable, UnitsStayInSchools,
             OutsidersStayOutside, HandlersActWithinReach
  <1>2. CASE Next
    <2> PICK t \in Threads : Submit(t) \/ Handle(t) \/ Abort(t)
      BY <1>2 DEF Next
    <2>1. CASE Submit(t)
      BY <2>1, SubmitKeepsDelegation
    <2>2. CASE Abort(t) \/ CommitFails(t)
      BY <2>2, RollbackKeepsDelegation DEF Abort, CommitFails
    <2>3. CASE Commit(t)
      BY <2>3, CommitKeepsDelegation
    <2>4. CASE Handle(t) /\ ~Commit(t) /\ ~CommitFails(t)
      BY <2>4, GuardsKeepDelegation, QueriesKeepDelegation DEF Handle
    <2> QED
      BY <2>1, <2>2, <2>3, <2>4
  <1> QED
    BY <1>1, <1>2

\* As long as only the guarded handlers give rights, what the application's
\* managers do stays within the rights they started with, whatever overlaps and
\* whatever administrators take away or delete meanwhile: the inductive
\* invariant, and its three parts by name.
THEOREM DelegationHolds ==
    ASSUME OnlyGuardedGrants
    PROVE  Spec => []DelegationInv
  BY DelegationInit, DelegationNext, PTL DEF Spec

\* No role is held that nobody held, or held a role above, at the start.
THEOREM RolesStayDelegableHolds ==
    ASSUME OnlyGuardedGrants
    PROVE  Spec => []RolesStayDelegable
  <1>1. DelegationInv => RolesStayDelegable
    BY DEF DelegationInv
  <1> QED
    BY <1>1, DelegationHolds, PTL

\* Without ManageAll to delegate, units stay within the schools of the start.
THEOREM UnitsStayInSchoolsHolds ==
    ASSUME OnlyGuardedGrants
    PROVE  Spec => []UnitsStayInSchools
  <1>1. DelegationInv => UnitsStayInSchools
    BY DEF DelegationInv
  <1> QED
    BY <1>1, DelegationHolds, PTL

\* Every row added belongs to a login that had a unit there at the start.
THEOREM OutsidersStayOutsideHolds ==
    ASSUME OnlyGuardedGrants
    PROVE  Spec => []OutsidersStayOutside
  <1>1. DelegationInv => OutsidersStayOutside
    BY DEF DelegationInv
  <1> QED
    BY <1>1, DelegationHolds, PTL
=============================================================================
