---------------------- MODULE UserManagementCountProofs ----------------------
(***************************************************************************)
(* Proofs about UserManagement that count: the audit trail accounts for    *)
(* every row, and there are never more copies of a row than threads.  From *)
(* the same invariant, that a new user arrives complete; and what one      *)
(* thread adds to all this: nothing it reads is stale when it uses it.     *)
(***************************************************************************)
EXTENDS UserManagementLedgerProofs

-----------------------------------------------------------------------------
(* New users. *)

\* A user row that a commit of InsertNewUser adds is the commit's own, and the
\* session has the role and the unit to go with it.
LEMMA NewUsersAreComplete ==
    ASSUME LedgerInv, NEW t \in Threads, Commits(t, {"InsertNewUser"}),
           NEW u \in db'.users \ db.users
    PROVE  /\ \E p \in Active(db'.permissions) :
                 /\ p.user = u.id /\ p.app = request[t].app
                 /\ p.role = request[t].role
           /\ \E a \in Active(db'.associations) :
                 /\ a.user = u.id /\ a.app = request[t].app
                 /\ a.unit = request[t].unit
  <1>1. Commit(t) /\ request[t].op = "InsertNewUser"
    BY DEF Commits
  <1>2. u = UserRowOf(t) /\ work[t].insertUser
    BY <1>1, CommitEffect DEF LedgerInv
  <1>3. u.id = UserOf(t)
    BY <1>2 DEF UserRowOf, UserOf
  <1>4. work[t].addRoles # {} /\ work[t].addUnits # {}
    BY <1>1, <1>2 DEF LedgerInv, SessionsHold, SessionHolds, Commit
  <1>5. PermissionRowOf(t) \in db'.permissions
        /\ AssociationRowOf(t) \in db'.associations
    BY <1>1, <1>4, CommitEffect DEF LedgerInv
  <1>6. /\ PermissionRowOf(t).user = UserOf(t)
        /\ PermissionRowOf(t).app = request[t].app
        /\ PermissionRowOf(t).role = request[t].role
        /\ ~PermissionRowOf(t).inactive
        /\ AssociationRowOf(t).user = UserOf(t)
        /\ AssociationRowOf(t).app = request[t].app
        /\ AssociationRowOf(t).unit = request[t].unit
        /\ ~AssociationRowOf(t).inactive
    BY DEF PermissionRowOf, AssociationRowOf
  <1> QED
    BY <1>3, <1>5, <1>6 DEF Active

\* However many InsertNewUser and deletions overlap, a user row that appears in a
\* commit of InsertNewUser comes with the role and the unit the form asked for.
THEOREM NewUserArrivesCompleteHolds == Spec => NewUserArrivesComplete
  <1> DEFINE Complete ==
        \A t \in Threads : \A u \in db'.users \ db.users :
          Commits(t, {"InsertNewUser"}) =>
              LET r == request[t]
              IN  /\ \E p \in Active(db'.permissions) :
                        p.user = u.id /\ p.app = r.app /\ p.role = r.role
                  /\ \E a \in Active(db'.associations) :
                        a.user = u.id /\ a.app = r.app /\ a.unit = r.unit
  <1>1. LedgerInv => Complete
    BY NewUsersAreComplete
  <1>2. LedgerInv /\ [Next]_vars => [Complete]_vars
    BY <1>1
  <1> QED
    BY <1>2, LedgerInvHolds, PTL DEF Spec, NewUserArrivesComplete

-----------------------------------------------------------------------------
(* The audit trail. *)

\* A delete by ids that are all there takes one row for each.
LEMMA RowsDropped ==
    ASSUME NEW rows, IsFiniteSet(rows),
           \A x, y \in rows : x.id = y.id => x = y,
           NEW drops, drops \subseteq {x.id : x \in rows}
    PROVE  LET kept == {x \in rows : x.id \notin drops}
           IN  /\ IsFiniteSet(kept) /\ IsFiniteSet(drops)
               /\ Cardinality(kept) = Cardinality(rows) - Cardinality(drops)
  <1> DEFINE kept == {x \in rows : x.id \notin drops}
             gone == {x \in rows : x.id \in drops}
             idOf == [x \in gone |-> x.id]
  <1>1. IsFiniteSet(gone) /\ IsFiniteSet(kept)
    BY FS_Subset
  <1>2. idOf \in Bijection(gone, drops)
    <2>1. idOf \in [gone -> drops]
      OBVIOUS
    <2>2. idOf \in Injection(gone, drops)
      BY <2>1 DEF Injection, IsInjective
    <2>3. idOf \in Surjection(gone, drops)
      BY <2>1 DEF Surjection
    <2> QED
      BY <2>2, <2>3 DEF Bijection
  <1>3. IsFiniteSet(drops) /\ Cardinality(drops) = Cardinality(gone)
    BY <1>1, <1>2, FS_Bijection DEF ExistsBijection
  <1>4. kept = rows \ gone /\ rows \cap gone = gone
    OBVIOUS
  <1>5. Cardinality(kept) = Cardinality(rows) - Cardinality(rows \cap gone)
    BY <1>4, FS_Difference
  <1> QED
    BY <1>1, <1>3, <1>4, <1>5

\* And adding at most one row with an id not in use adds at most one.
LEMMA RowsFlushed ==
    ASSUME NEW rows, IsFiniteSet(rows),
           \A x, y \in rows : x.id = y.id => x = y,
           NEW drops, drops \subseteq {x.id : x \in rows},
           NEW new, \A x \in rows : x.id # new.id,
           NEW added, added = {} \/ added = {new},
           NEW flushed,
           \A x : x \in flushed <=> (x \in rows /\ x.id \notin drops) \/ x \in added
    PROVE  Cardinality(flushed) =
               Cardinality(rows) + Cardinality(added) - Cardinality(drops)
  <1> DEFINE kept == {x \in rows : x.id \notin drops}
  <1>1. /\ IsFiniteSet(kept) /\ IsFiniteSet(drops)
        /\ Cardinality(kept) = Cardinality(rows) - Cardinality(drops)
    BY RowsDropped
  <1>2. /\ Cardinality(kept) \in Nat /\ Cardinality(rows) \in Nat
        /\ Cardinality(drops) \in Nat
    BY <1>1, FS_CardinalityType
  <1>3. new \notin kept
    OBVIOUS
  <1>4. Cardinality(kept \cup added) =
            Cardinality(rows) + Cardinality(added) - Cardinality(drops)
    <2> HIDE DEF kept
    <2>1. CASE added = {}
      BY <1>1, <1>2, <2>1, FS_EmptySet
    <2>2. CASE added = {new}
      <3>1. Cardinality(kept \cup {new}) = Cardinality(kept) + 1
        BY <1>1, <1>3, FS_AddElement
      <3>2. Cardinality({new}) = 1
        BY FS_Singleton
      <3> QED
        BY <1>1, <1>2, <2>2, <3>1, <3>2
    <2> QED
      BY <2>1, <2>2
  <1>5. flushed = kept \cup added
    OBVIOUS
  <1> QED
    BY <1>4, <1>5

\* The rows of each table after a commit, counted.
LEMMA CommitBalances ==
    ASSUME LedgerInv, NEW t \in Threads, Commit(t), NEW table \in Tables
    PROVE  Cardinality(db'[table]) =
               Cardinality(db[table]) + Inserted(t)[table] - Deleted(t)[table]
  <1> DEFINE r == request[t]
             w == work[t]
  <1>1. /\ TypeInv /\ KeysHold /\ CanCommit(t) /\ TablesFinite
    BY DEF LedgerInv, Commit, TypeInv
  <1>2. SessionFits(r, w)
    BY <1>1, CommitEffect
  <1>3. /\ \A x \in db.users : x.id # identity.users + 1
        /\ \A x \in db.permissions : x.id # identity.permissions + 1
        /\ \A x \in db.associations : x.id # identity.associations + 1
    BY <1>1, RowTypes DEF KeysHold, Tables
  <1>4. CASE table = "users"
    <2> DEFINE drops == IF w.deleteUser THEN {w.user} ELSE {}
               added == IF w.insertUser THEN {UserRowOf(t)} ELSE {}
    <2>1. {u \in db.users : w.deleteUser => u.id # w.user} =
             {u \in db.users : u.id \notin drops}
      OBVIOUS
    <2>2. db'.users = {u \in db.users : u.id \notin drops} \cup added
      BY <1>1, <2>1, CommitEffect
    <2>3. drops \subseteq {x.id : x \in db.users}
      BY <1>1 DEF CanCommit
    <2>4. UserRowOf(t).id = identity.users + 1
      BY DEF UserRowOf
    <2>5. /\ Cardinality(drops) = Deleted(t).users
          /\ Cardinality(added) = Inserted(t).users
      BY FS_EmptySet, FS_Singleton DEF Deleted, Inserted
    <2>6. added = {} \/ added = {UserRowOf(t)}
      OBVIOUS
    <2> HIDE DEF drops, added
    <2>7. Cardinality(db'.users) =
             Cardinality(db.users) + Cardinality(added) - Cardinality(drops)
      <3>1. /\ IsFiniteSet(db.users)
            /\ \A x, y \in db.users : x.id = y.id => x = y
        BY <1>1 DEF KeysHold, TablesFinite, Tables
      <3>2. \A x \in db.users : x.id # UserRowOf(t).id
        BY <1>3, <2>4
      <3>3. \A x : x \in db'.users <=>
                     (x \in db.users /\ x.id \notin drops) \/ x \in added
        BY <2>2
      <3> QED
        BY <2>3, <2>6, <3>1, <3>2, <3>3, RowsFlushed
    <2> QED
      BY <1>4, <2>5, <2>7
  <1>5. CASE table = "permissions"
    <2> DEFINE drops == w.dropPermissions
               added == IF w.addRoles = {} THEN {} ELSE {PermissionRowOf(t)}
    <2>1. db'.permissions = {p \in db.permissions : p.id \notin drops} \cup added
      BY <1>1, CommitEffect
    <2>2. drops \subseteq {x.id : x \in db.permissions}
      BY <1>1 DEF CanCommit
    <2>3. PermissionRowOf(t).id = identity.permissions + 1
      BY DEF PermissionRowOf
    <2>4. /\ Cardinality(drops) = Deleted(t).permissions
          /\ Cardinality(added) = Inserted(t).permissions
      BY <1>2, FS_EmptySet, FS_Singleton DEF Deleted, Inserted, SessionFits
    <2>5. added = {} \/ added = {PermissionRowOf(t)}
      OBVIOUS
    <2> HIDE DEF drops, added
    <2>6. Cardinality(db'.permissions) =
             Cardinality(db.permissions) + Cardinality(added) - Cardinality(drops)
      <3>1. /\ IsFiniteSet(db.permissions)
            /\ \A x, y \in db.permissions : x.id = y.id => x = y
        BY <1>1 DEF KeysHold, TablesFinite, Tables
      <3>2. \A x \in db.permissions : x.id # PermissionRowOf(t).id
        BY <1>3, <2>3
      <3>3. \A x : x \in db'.permissions <=>
                     (x \in db.permissions /\ x.id \notin drops) \/ x \in added
        BY <2>1
      <3> QED
        BY <2>2, <2>5, <3>1, <3>2, <3>3, RowsFlushed
    <2> QED
      BY <1>5, <2>4, <2>6
  <1>6. CASE table = "associations"
    <2> DEFINE drops == w.dropAssociations
               added == IF w.addUnits = {} THEN {} ELSE {AssociationRowOf(t)}
    <2>1. db'.associations = {a \in db.associations : a.id \notin drops} \cup added
      BY <1>1, CommitEffect
    <2>2. drops \subseteq {x.id : x \in db.associations}
      BY <1>1 DEF CanCommit
    <2>3. AssociationRowOf(t).id = identity.associations + 1
      BY DEF AssociationRowOf
    <2>4. /\ Cardinality(drops) = Deleted(t).associations
          /\ Cardinality(added) = Inserted(t).associations
      BY <1>2, FS_EmptySet, FS_Singleton DEF Deleted, Inserted, SessionFits
    <2>5. added = {} \/ added = {AssociationRowOf(t)}
      OBVIOUS
    <2> HIDE DEF drops, added
    <2>6. Cardinality(db'.associations) =
             Cardinality(db.associations) + Cardinality(added)
                - Cardinality(drops)
      <3>1. /\ IsFiniteSet(db.associations)
            /\ \A x, y \in db.associations : x.id = y.id => x = y
        BY <1>1 DEF KeysHold, TablesFinite, Tables
      <3>2. \A x \in db.associations : x.id # AssociationRowOf(t).id
        BY <1>3, <2>3
      <3>3. \A x : x \in db'.associations <=>
                     (x \in db.associations /\ x.id \notin drops) \/ x \in added
        BY <2>1
      <3> QED
        BY <2>2, <2>5, <3>1, <3>2, <3>3, RowsFlushed
    <2> QED
      BY <1>6, <2>4, <2>6
  <1> QED
    BY <1>4, <1>5, <1>6 DEF Tables

LEMMA AuditInit == Init => AuditTrailBalances
  <1> SUFFICES ASSUME Init, NEW table \in Tables
               PROVE  Cardinality(db[table]) =
                          Cardinality(InitDb[table])
                             + audits[table].Create - audits[table].Delete
    BY DEF AuditTrailBalances
  <1>1. /\ db[table] = InitDb[table]
        /\ audits[table].Create = 0 /\ audits[table].Delete = 0
    BY DEF Init, AuditedActions
  <1>2. Cardinality(InitDb[table]) \in Nat
    BY ManagementAssumption, FS_CardinalityType
  <1> QED
    BY <1>1, <1>2

LEMMA AuditNext ==
    LedgerInv /\ AuditTrailBalances /\ [Next]_vars => AuditTrailBalances'
  <1> SUFFICES ASSUME LedgerInv, AuditTrailBalances, [Next]_vars
               PROVE  AuditTrailBalances'
    OBVIOUS
  <1>1. CASE db' = db /\ audits' = audits
    BY <1>1 DEF AuditTrailBalances
  <1>2. CASE \E t \in Threads : Commit(t)
    <2> PICK t \in Threads : Commit(t)
      BY <1>2
    <2> SUFFICES ASSUME NEW table \in Tables
                 PROVE  Cardinality(db'[table]) =
                            Cardinality(InitDb[table])
                               + audits'[table].Create - audits'[table].Delete
      BY DEF AuditTrailBalances
    <2>1. /\ Cardinality(db'[table]) =
                Cardinality(db[table]) + Inserted(t)[table] - Deleted(t)[table]
          /\ Cardinality(db[table]) =
                Cardinality(InitDb[table])
                   + audits[table].Create - audits[table].Delete
      BY CommitBalances DEF AuditTrailBalances
    <2>2. /\ audits'[table].Create = audits[table].Create + Inserted(t)[table]
          /\ audits'[table].Delete = audits[table].Delete + Deleted(t)[table]
      BY DEF Commit, Audited
    <2>3. /\ Inserted(t)[table] \in Nat /\ Deleted(t)[table] \in Nat
          /\ audits[table].Create \in Nat /\ audits[table].Delete \in Nat
      BY CountsType
         DEF LedgerInv, TypeInv, TypeOK, AuditedActions, Commit
    <2>4. Cardinality(InitDb[table]) \in Nat
      BY ManagementAssumption, FS_CardinalityType
    <2> QED
      BY <2>1, <2>2, <2>3, <2>4
  <1>3. CASE Next /\ ~\E t \in Threads : Commit(t)
    <2>1. db' = db /\ audits' = audits
      BY <1>3
         DEF Next, Submit, Abort, Handle, ReadScope,
             EnsureCurrentUserCanManageLogin, EnsureCurrentUserCanModifyRole,
             EnsureCurrentUserCanModifyUnit, FindUser, FindRow,
             RoleIsAssociatedWithApplication, PermissionExists,
             AssociationExists, ClearPermissions, ClearAssociations,
             CommitFails, Rollback, Continue
    <2> QED
      BY <1>1, <2>1
  <1> QED
    BY <1>1, <1>2, <1>3 DEF vars

\* The Audits table accounts for every row there is, for any number of threads and
\* whatever fails: the rows of the start, plus the creations it records, minus the
\* deletions.
THEOREM AuditTrailBalancesHolds == Spec => []AuditTrailBalances
  BY AuditInit, AuditNext, LedgerInvHolds, PTL DEF Spec

-----------------------------------------------------------------------------
(* Copies. *)

\* The threads whose session will add a permission, an association, for a user
\* who is there already.
PendingPermissions(user, app, role) ==
    {t \in Threads :
        /\ role \in work[t].addRoles /\ ~work[t].insertUser
        /\ work[t].user = user /\ request[t].app = app}
PendingAssociations(user, app, unit) ==
    {t \in Threads :
        /\ unit \in work[t].addUnits /\ ~work[t].insertUser
        /\ work[t].user = user /\ request[t].app = app}

\* The inductive invariant behind CopiesBounded: a thread decides to add a row only
\* where it sees none, so the copies there are and the copies to come are at most
\* one per thread.
PermissionsPlanned ==
    \A user \in Nat, app \in Apps, role \in Roles :
        Cardinality(Copies(user, app, role))
            + Cardinality(PendingPermissions(user, app, role))
                <= Cardinality(Threads)
AssociationsPlanned ==
    \A user \in Nat, app \in Apps, unit \in Units :
        Cardinality(AssociationCopies(user, app, unit))
            + Cardinality(PendingAssociations(user, app, unit))
                <= Cardinality(Threads)

\* How the sum may move: both sets only shrink; no copy is there; one thread's
\* plan becomes a copy; or the first copy appears, and its thread had no plan.
LEMMA SumStaysBounded ==
    ASSUME NEW copies, NEW pending, NEW copiesAfter, NEW pendingAfter,
           NEW t \in Threads,
           IsFiniteSet(copies), pending \subseteq Threads,
           pendingAfter \subseteq Threads,
           Cardinality(copies) + Cardinality(pending) <= Cardinality(Threads),
           \/ copiesAfter \subseteq copies /\ pendingAfter \subseteq pending
           \/ copiesAfter = {}
           \/ /\ t \in pending /\ pendingAfter \subseteq pending \ {t}
              /\ \E row : copiesAfter \subseteq copies \cup {row}
           \/ /\ pendingAfter \subseteq Threads \ {t}
              /\ \E row : copiesAfter \subseteq {row}
    PROVE  Cardinality(copiesAfter) + Cardinality(pendingAfter)
               <= Cardinality(Threads)
  <1>1. /\ IsFiniteSet(Threads) /\ IsFiniteSet(pending)
        /\ IsFiniteSet(pendingAfter)
        /\ Cardinality(pendingAfter) <= Cardinality(Threads)
    BY SomeThreads, FS_Subset
  <1>2. /\ Cardinality(Threads) \in Nat /\ Cardinality(pending) \in Nat
        /\ Cardinality(pendingAfter) \in Nat /\ Cardinality(copies) \in Nat
    BY <1>1, FS_CardinalityType
  <1>3. CASE copiesAfter \subseteq copies /\ pendingAfter \subseteq pending
    <2>1. /\ IsFiniteSet(copiesAfter)
          /\ Cardinality(copiesAfter) <= Cardinality(copies)
          /\ Cardinality(pendingAfter) <= Cardinality(pending)
      BY <1>1, <1>3, FS_Subset
    <2> QED
      BY <1>2, <2>1, FS_CardinalityType
  <1>4. CASE copiesAfter = {}
    BY <1>1, <1>2, <1>4, FS_EmptySet
  <1>5. CASE /\ t \in pending /\ pendingAfter \subseteq pending \ {t}
             /\ \E row : copiesAfter \subseteq copies \cup {row}
    <2>1. PICK row : copiesAfter \subseteq copies \cup {row}
      BY <1>5
    <2>2. /\ IsFiniteSet(pending \ {t})
          /\ Cardinality(pending \ {t}) = Cardinality(pending) - 1
      BY <1>1, <1>5, FS_RemoveElement
    <2>3. Cardinality(pendingAfter) <= Cardinality(pending) - 1
      BY <1>5, <2>2, FS_Subset
    <2>4. /\ IsFiniteSet(copies \cup {row})
          /\ Cardinality(copies \cup {row}) <= Cardinality(copies) + 1
      BY <1>2, FS_AddElement
    <2>5. /\ IsFiniteSet(copiesAfter)
          /\ Cardinality(copiesAfter) <= Cardinality(copies \cup {row})
      BY <2>1, <2>4, FS_Subset
    <2>6. Cardinality(copiesAfter) \in Nat /\ Cardinality(copies \cup {row}) \in Nat
      BY <2>4, <2>5, FS_CardinalityType
    <2> QED
      BY <1>2, <2>3, <2>4, <2>5, <2>6
  <1>6. CASE /\ pendingAfter \subseteq Threads \ {t}
             /\ \E row : copiesAfter \subseteq {row}
    <2>1. PICK row : copiesAfter \subseteq {row}
      BY <1>6
    <2>2. /\ IsFiniteSet(Threads \ {t})
          /\ Cardinality(Threads \ {t}) = Cardinality(Threads) - 1
      BY <1>1, FS_RemoveElement
    <2>3. Cardinality(pendingAfter) <= Cardinality(Threads) - 1
      BY <1>6, <2>2, FS_Subset
    <2>4. IsFiniteSet({row}) /\ Cardinality({row}) = 1
      BY FS_Singleton
    <2>5. IsFiniteSet(copiesAfter) /\ Cardinality(copiesAfter) <= 1
      BY <2>1, <2>4, FS_Subset
    <2>6. Cardinality(copiesAfter) \in Nat
      BY <2>5, FS_CardinalityType
    <2> QED
      BY <1>2, <2>3, <2>5, <2>6
  <1> QED
    BY <1>3, <1>4, <1>5, <1>6

\* Only the two queries that look for a row add one to a session.
LEMMA PlansComeFromQueries ==
    ASSUME LedgerInv, NEW t \in Threads, Submit(t) \/ Handle(t) \/ Abort(t)
    PROVE  /\ \A s \in Threads \ {t} :
                 work'[s] = work[s] /\ request'[s] = request[s]
           /\ ~Commit(t) => db' = db
           /\ \/ PermissionExists(t)
              \/ work'[t].addRoles = {}
              \/ /\ ~Commit(t) /\ request'[t] = request[t]
                 /\ work'[t].addRoles = work[t].addRoles
                 /\ work'[t].user = work[t].user
                 /\ work'[t].insertUser = work[t].insertUser
           /\ \/ AssociationExists(t)
              \/ work'[t].addUnits = {}
              \/ /\ ~Commit(t) /\ request'[t] = request[t]
                 /\ work'[t].addUnits = work[t].addUnits
                 /\ work'[t].user = work[t].user
                 /\ work'[t].insertUser = work[t].insertUser
  <1> DEFINE w == work[t]
  <1>1. TypeInv /\ w \in Work
    BY DEF LedgerInv, TypeInv, TypeOK
  <1>2. CASE Rollback(t) \/ Commit(t)
    BY <1>1, <1>2 DEF Rollback, Commit, EndRequest, NoWork, TypeInv, TypeOK
  <1>3. CASE Submit(t)
    <2> PICK r \in Requests :
              /\ work' = [work EXCEPT ![t] = FirstWork(r)]
              /\ request' = [request EXCEPT ![t] = r]
              /\ UNCHANGED <<db, identity, audits, scope>>
      BY <1>3 DEF Submit
    <2>1. FirstWork(r).addRoles = {} /\ FirstWork(r).addUnits = {}
      BY ManagementAssumption, FirstWorkType
    <2>2. work'[t] = FirstWork(r)
          /\ \A s \in Threads \ {t} :
                work'[s] = work[s] /\ request'[s] = request[s]
      BY <1>1 DEF TypeInv, TypeOK
    <2> QED
      BY <2>1, <2>2
  <1>4. ASSUME NEW next, NEW v, Continue(t, next, v)
        PROVE  /\ db' = db /\ request' = request /\ work'[t] = v
               /\ \A s \in Threads \ {t} : work'[s] = work[s]
    BY <1>1, <1>4 DEF Continue, TypeInv, TypeOK
  <1>5. ASSUME NEW next, Continue(t, next, w)
        PROVE  /\ db' = db /\ request' = request /\ work'[t] = w
               /\ \A s \in Threads \ {t} : work'[s] = work[s]
    BY <1>4, <1>5
  <1>6. CASE ReadScope(t) /\ ~Rollback(t)
    <2>1. /\ UNCHANGED <<db, request, work>> /\ pc[t] # "commit"
      BY <1>6 DEF ReadScope
    <2> QED
      BY <2>1 DEF Commit
  <1>7. CASE \/ EnsureCurrentUserCanManageLogin(t) /\ ~Rollback(t)
             \/ EnsureCurrentUserCanModifyRole(t) /\ ~Rollback(t)
             \/ EnsureCurrentUserCanModifyUnit(t) /\ ~Rollback(t)
             \/ RoleIsAssociatedWithApplication(t) /\ ~Rollback(t)
    <2>1. PICK next : Continue(t, next, w)
      BY <1>7
         DEF EnsureCurrentUserCanManageLogin, EnsureCurrentUserCanModifyRole,
             EnsureCurrentUserCanModifyUnit, RoleIsAssociatedWithApplication
    <2>2. ~Commit(t)
      BY <1>7
         DEF EnsureCurrentUserCanManageLogin, EnsureCurrentUserCanModifyRole,
             EnsureCurrentUserCanModifyUnit, RoleIsAssociatedWithApplication,
             Commit
    <2> QED
      BY <1>5, <2>1, <2>2
  <1>8. CASE FindUser(t) /\ ~Rollback(t)
    <2>1. w = NoWork
      BY <1>8 DEF FindUser, LedgerInv, SessionsHold, SessionHolds, CheckSteps
    <2>2. PICK next, v : /\ Continue(t, next, v)
                         /\ \/ \E id : v = [w EXCEPT !.user = id]
                            \/ v = [w EXCEPT !.insertUser = TRUE]
      BY <1>8 DEF FindUser
    <2>3. v.addRoles = {} /\ v.addUnits = {}
      BY <2>1, <2>2 DEF NoWork
    <2> QED
      BY <1>4, <2>2, <2>3
  <1>9. CASE FindRow(t) /\ ~Rollback(t)
    <2>1. PICK v : /\ Continue(t, "commit", v)
                   /\ \E ids : \/ v = [w EXCEPT !.dropPermissions = ids]
                               \/ v = [w EXCEPT !.dropAssociations = ids]
      BY <1>9 DEF FindRow
    <2>2. /\ v.addRoles = w.addRoles /\ v.addUnits = w.addUnits
          /\ v.user = w.user /\ v.insertUser = w.insertUser
      BY <1>1, <2>1 DEF Work
    <2>3. ~Commit(t)
      BY <1>9 DEF FindRow, Commit
    <2> QED
      BY <1>4, <2>1, <2>2, <2>3
  <1>10. CASE ClearPermissions(t) \/ ClearAssociations(t)
    <2>1. PICK next, v :
             /\ Continue(t, next, v)
             /\ \E ids : \/ v = [w EXCEPT !.dropPermissions = ids]
                         \/ v = [w EXCEPT !.deleteUser = TRUE,
                                          !.dropAssociations = ids]
      BY <1>10 DEF ClearPermissions, ClearAssociations
    <2>2. /\ v.addRoles = w.addRoles /\ v.addUnits = w.addUnits
          /\ v.user = w.user /\ v.insertUser = w.insertUser
      BY <1>1, <2>1 DEF Work
    <2>3. ~Commit(t)
      BY <1>10 DEF ClearPermissions, ClearAssociations, Commit
    <2> QED
      BY <1>4, <2>1, <2>2, <2>3
  <1>11. CASE PermissionExists(t)
    <2>1. PICK next, v : /\ Continue(t, next, v)
                         /\ \/ v = w
                            \/ v = [w EXCEPT !.addRoles = {request[t].role}]
      BY <1>11 DEF PermissionExists
    <2>2. /\ v.addUnits = w.addUnits
          /\ v.user = w.user /\ v.insertUser = w.insertUser
      BY <1>1, <2>1 DEF Work
    <2>3. ~Commit(t)
      BY <1>11 DEF PermissionExists, Commit
    <2> QED
      BY <1>4, <1>11, <2>1, <2>2, <2>3
  <1>12. CASE AssociationExists(t)
    <2>1. PICK v : /\ Continue(t, "commit", v)
                   /\ \/ v = w
                      \/ v = [w EXCEPT !.addUnits = {request[t].unit}]
      BY <1>12 DEF AssociationExists
    <2>2. /\ v.addRoles = w.addRoles
          /\ v.user = w.user /\ v.insertUser = w.insertUser
      BY <1>1, <2>1 DEF Work
    <2>3. ~Commit(t)
      BY <1>12 DEF AssociationExists, Commit
    <2> QED
      BY <1>4, <1>12, <2>1, <2>2, <2>3
  <1> QED
    BY <1>2, <1>3, <1>6, <1>7, <1>8, <1>9, <1>10, <1>11, <1>12
       DEF Handle, Abort, CommitFails


\* Permissions: a new copy is one the session of t had planned, or its user is new.
LEMMA PermissionCommitted ==
    ASSUME LedgerInv, NEW t \in Threads, Commit(t),
           NEW user \in Nat, NEW app \in Apps, NEW role \in Roles
    PROVE  LET copies == Copies(user, app, role)
               pending == PendingPermissions(user, app, role)
           IN  \/ copies' \subseteq copies
               \/ t \in pending /\ \E row : copies' \subseteq copies \cup {row}
               \/ \E row : copies' \subseteq {row}
  <1> DEFINE row == PermissionRowOf(t)
             copies == Copies(user, app, role)
  <1>1. /\ \A p \in db'.permissions : p \in db.permissions
              \/ (p = row /\ work[t].addRoles # {})
        /\ SessionFits(request[t], work[t])
    BY CommitEffect DEF LedgerInv
  <1>2. row.user = UserOf(t) /\ row.app = request[t].app
        /\ row.role = request[t].role
    BY DEF PermissionRowOf
  <1>3. copies' \subseteq copies \cup {row}
    BY <1>1 DEF Copies, Active
  <1>4. CASE row \notin copies' \/ work[t].addRoles = {}
    BY <1>1, <1>4 DEF Copies, Active
  <1>5. CASE row \in copies' /\ work[t].addRoles # {}
    <2>1. UserOf(t) = user /\ request[t].app = app /\ request[t].role = role
      BY <1>2, <1>5 DEF Copies
    <2>2. CASE work[t].insertUser
      <3>1. user = identity.users + 1
        BY <2>1, <2>2 DEF UserOf
      <3>2. \A p \in db.permissions : p.user # user
        <4> SUFFICES ASSUME NEW p \in db.permissions, p.user = user
                     PROVE  FALSE
          OBVIOUS
        <4>1. PICK u \in db.users : u.id = p.user
          BY DEF LedgerInv, KeysHold
        <4>2. u.id <= identity.users
          BY DEF LedgerInv, KeysHold, Tables
        <4> QED
          BY <3>1, <4>1, <4>2, RowTypes DEF LedgerInv
      <3>3. copies' \subseteq {row}
        BY <1>3, <3>2 DEF Copies, Active
      <3> QED
        BY <3>3
    <2>3. CASE ~work[t].insertUser
      <3>1. work[t].user = user /\ role \in work[t].addRoles
        BY <1>1, <1>5, <2>1, <2>3 DEF UserOf, SessionFits
      <3>2. t \in PendingPermissions(user, app, role)
        BY <2>1, <2>3, <3>1 DEF PendingPermissions
      <3> QED
        BY <1>3, <3>2
    <2> QED
      BY <2>2, <2>3
  <1> QED
    BY <1>4, <1>5

\* One query or one commit at a time, the sum of the copies and of the plans stays
\* within the number of threads.
LEMMA PermissionsStayPlanned ==
    ASSUME LedgerInv, PermissionsPlanned, NEW t \in Threads,
           Submit(t) \/ Handle(t) \/ Abort(t)
    PROVE  PermissionsPlanned'
  <1> SUFFICES ASSUME NEW user \in Nat, NEW app \in Apps, NEW role \in Roles
               PROVE  Cardinality(Copies(user, app, role)')
                          + Cardinality(PendingPermissions(user, app, role)')
                              <= Cardinality(Threads)
    BY DEF PermissionsPlanned
  <1> DEFINE copies == Copies(user, app, role)
             pending == PendingPermissions(user, app, role)
  <1>1. /\ IsFiniteSet(copies)
        /\ pending \subseteq Threads /\ pending' \subseteq Threads
        /\ Cardinality(copies) + Cardinality(pending) <= Cardinality(Threads)
    <2>1. IsFiniteSet(db.permissions)
      BY DEF LedgerInv, TypeInv, TablesFinite, Tables
    <2>2. copies \subseteq db.permissions
      BY DEF Copies, Active
    <2> QED
      BY <2>1, <2>2, FS_Subset DEF PermissionsPlanned, PendingPermissions
  <1>2. pending' \ {t} \subseteq pending
    BY PlansComeFromQueries DEF PendingPermissions
  <1>3. \/ copies' \subseteq copies /\ pending' \subseteq pending
        \/ copies' = {}
        \/ /\ t \in pending /\ pending' \subseteq pending \ {t}
           /\ \E row : copies' \subseteq copies \cup {row}
        \/ /\ pending' \subseteq Threads \ {t}
           /\ \E row : copies' \subseteq {row}
    <2>1. CASE PermissionExists(t)
      <3>1. /\ db' = db /\ request' = request
            /\ \/ work'[t] = work[t]
               \/ /\ Copies(work[t].user, request[t].app, request[t].role) = {}
                  /\ work'[t] = [work[t] EXCEPT !.addRoles = {request[t].role}]
        BY <2>1 DEF PermissionExists, Continue, LedgerInv, TypeInv, TypeOK
      <3>2. copies' = copies
        BY <3>1 DEF Copies
      <3>3. CASE work'[t] = work[t]
        BY <1>2, <3>1, <3>2, <3>3 DEF PendingPermissions
      <3>4. CASE /\ Copies(work[t].user, request[t].app, request[t].role) = {}
                 /\ work'[t] = [work[t] EXCEPT !.addRoles = {request[t].role}]
        <4>1. work'[t].addRoles = {request[t].role} /\ work'[t].user = work[t].user
          BY <3>4 DEF LedgerInv, TypeInv, TypeOK, Work
        <4>2. CASE t \in pending'
          <5>1. user = work[t].user /\ app = request[t].app
                /\ role = request[t].role
            BY <3>1, <4>1, <4>2 DEF PendingPermissions
          <5> QED
            BY <3>2, <3>4, <5>1
        <4>3. CASE t \notin pending'
          BY <1>2, <3>2, <4>3
        <4> QED
          BY <4>2, <4>3
      <3> QED
        BY <3>1, <3>3, <3>4
    <2>2. CASE work'[t].addRoles = {}
      <3>1. t \notin pending'
        BY <2>2 DEF PendingPermissions
      <3>2. pending' \subseteq pending /\ pending' \subseteq pending \ {t}
            /\ pending' \subseteq Threads \ {t}
        BY <1>1, <1>2, <3>1
      <3>3. CASE Commit(t)
        BY <3>2, <3>3, PermissionCommitted
      <3>4. CASE ~Commit(t)
        BY <3>2, <3>4, PlansComeFromQueries DEF Copies
      <3> QED
        BY <3>3, <3>4
    <2>3. CASE /\ ~Commit(t) /\ request'[t] = request[t]
               /\ work'[t].addRoles = work[t].addRoles
               /\ work'[t].user = work[t].user
               /\ work'[t].insertUser = work[t].insertUser
      <3>1. db' = db
        BY <2>3, PlansComeFromQueries
      <3>2. copies' = copies
        BY <3>1 DEF Copies
      <3>3. pending' \subseteq pending
        BY <1>2, <2>3 DEF PendingPermissions
      <3> QED
        BY <3>2, <3>3
    <2> QED
      BY <2>1, <2>2, <2>3, PlansComeFromQueries
  <1> HIDE DEF copies, pending
  <1>4. Cardinality(copies') + Cardinality(pending') <= Cardinality(Threads)
    BY <1>1, <1>3, SumStaysBounded
  <1> QED
    BY <1>4 DEF copies, pending


\* Associations: a new copy is one the session of t had planned, or its user is new.
LEMMA AssociationCommitted ==
    ASSUME LedgerInv, NEW t \in Threads, Commit(t),
           NEW user \in Nat, NEW app \in Apps, NEW unit \in Units
    PROVE  LET copies == AssociationCopies(user, app, unit)
               pending == PendingAssociations(user, app, unit)
           IN  \/ copies' \subseteq copies
               \/ t \in pending /\ \E row : copies' \subseteq copies \cup {row}
               \/ \E row : copies' \subseteq {row}
  <1> DEFINE row == AssociationRowOf(t)
             copies == AssociationCopies(user, app, unit)
  <1>1. /\ \A p \in db'.associations : p \in db.associations
              \/ (p = row /\ work[t].addUnits # {})
        /\ SessionFits(request[t], work[t])
    BY CommitEffect DEF LedgerInv
  <1>2. row.user = UserOf(t) /\ row.app = request[t].app
        /\ row.unit = request[t].unit
    BY DEF AssociationRowOf
  <1>3. copies' \subseteq copies \cup {row}
    BY <1>1 DEF AssociationCopies, Active
  <1>4. CASE row \notin copies' \/ work[t].addUnits = {}
    BY <1>1, <1>4 DEF AssociationCopies, Active
  <1>5. CASE row \in copies' /\ work[t].addUnits # {}
    <2>1. UserOf(t) = user /\ request[t].app = app /\ request[t].unit = unit
      BY <1>2, <1>5 DEF AssociationCopies
    <2>2. CASE work[t].insertUser
      <3>1. user = identity.users + 1
        BY <2>1, <2>2 DEF UserOf
      <3>2. \A p \in db.associations : p.user # user
        <4> SUFFICES ASSUME NEW p \in db.associations, p.user = user
                     PROVE  FALSE
          OBVIOUS
        <4>1. PICK u \in db.users : u.id = p.user
          BY DEF LedgerInv, KeysHold
        <4>2. u.id <= identity.users
          BY DEF LedgerInv, KeysHold, Tables
        <4> QED
          BY <3>1, <4>1, <4>2, RowTypes DEF LedgerInv
      <3>3. copies' \subseteq {row}
        BY <1>3, <3>2 DEF AssociationCopies, Active
      <3> QED
        BY <3>3
    <2>3. CASE ~work[t].insertUser
      <3>1. work[t].user = user /\ unit \in work[t].addUnits
        BY <1>1, <1>5, <2>1, <2>3 DEF UserOf, SessionFits
      <3>2. t \in PendingAssociations(user, app, unit)
        BY <2>1, <2>3, <3>1 DEF PendingAssociations
      <3> QED
        BY <1>3, <3>2
    <2> QED
      BY <2>2, <2>3
  <1> QED
    BY <1>4, <1>5

LEMMA AssociationsStayPlanned ==
    ASSUME LedgerInv, AssociationsPlanned, NEW t \in Threads,
           Submit(t) \/ Handle(t) \/ Abort(t)
    PROVE  AssociationsPlanned'
  <1> SUFFICES ASSUME NEW user \in Nat, NEW app \in Apps, NEW unit \in Units
               PROVE  Cardinality(AssociationCopies(user, app, unit)')
                          + Cardinality(PendingAssociations(user, app, unit)')
                              <= Cardinality(Threads)
    BY DEF AssociationsPlanned
  <1> DEFINE copies == AssociationCopies(user, app, unit)
             pending == PendingAssociations(user, app, unit)
  <1>1. /\ IsFiniteSet(copies)
        /\ pending \subseteq Threads /\ pending' \subseteq Threads
        /\ Cardinality(copies) + Cardinality(pending) <= Cardinality(Threads)
    <2>1. IsFiniteSet(db.associations)
      BY DEF LedgerInv, TypeInv, TablesFinite, Tables
    <2>2. copies \subseteq db.associations
      BY DEF AssociationCopies, Active
    <2> QED
      BY <2>1, <2>2, FS_Subset DEF AssociationsPlanned, PendingAssociations
  <1>2. pending' \ {t} \subseteq pending
    BY PlansComeFromQueries DEF PendingAssociations
  <1>3. \/ copies' \subseteq copies /\ pending' \subseteq pending
        \/ copies' = {}
        \/ /\ t \in pending /\ pending' \subseteq pending \ {t}
           /\ \E row : copies' \subseteq copies \cup {row}
        \/ /\ pending' \subseteq Threads \ {t}
           /\ \E row : copies' \subseteq {row}
    <2>1. CASE AssociationExists(t)
      <3>1. /\ db' = db /\ request' = request
            /\ \/ work'[t] = work[t]
               \/ /\ AssociationCopies(work[t].user, request[t].app, request[t].unit) = {}
                  /\ work'[t] = [work[t] EXCEPT !.addUnits = {request[t].unit}]
        BY <2>1 DEF AssociationExists, Continue, LedgerInv, TypeInv, TypeOK
      <3>2. copies' = copies
        BY <3>1 DEF AssociationCopies
      <3>3. CASE work'[t] = work[t]
        BY <1>2, <3>1, <3>2, <3>3 DEF PendingAssociations
      <3>4. CASE /\ AssociationCopies(work[t].user, request[t].app, request[t].unit) = {}
                 /\ work'[t] = [work[t] EXCEPT !.addUnits = {request[t].unit}]
        <4>1. work'[t].addUnits = {request[t].unit} /\ work'[t].user = work[t].user
          BY <3>4 DEF LedgerInv, TypeInv, TypeOK, Work
        <4>2. CASE t \in pending'
          <5>1. user = work[t].user /\ app = request[t].app
                /\ unit = request[t].unit
            BY <3>1, <4>1, <4>2 DEF PendingAssociations
          <5> QED
            BY <3>2, <3>4, <5>1
        <4>3. CASE t \notin pending'
          BY <1>2, <3>2, <4>3
        <4> QED
          BY <4>2, <4>3
      <3> QED
        BY <3>1, <3>3, <3>4
    <2>2. CASE work'[t].addUnits = {}
      <3>1. t \notin pending'
        BY <2>2 DEF PendingAssociations
      <3>2. pending' \subseteq pending /\ pending' \subseteq pending \ {t}
            /\ pending' \subseteq Threads \ {t}
        BY <1>1, <1>2, <3>1
      <3>3. CASE Commit(t)
        BY <3>2, <3>3, AssociationCommitted
      <3>4. CASE ~Commit(t)
        BY <3>2, <3>4, PlansComeFromQueries DEF AssociationCopies
      <3> QED
        BY <3>3, <3>4
    <2>3. CASE /\ ~Commit(t) /\ request'[t] = request[t]
               /\ work'[t].addUnits = work[t].addUnits
               /\ work'[t].user = work[t].user
               /\ work'[t].insertUser = work[t].insertUser
      <3>1. db' = db
        BY <2>3, PlansComeFromQueries
      <3>2. copies' = copies
        BY <3>1 DEF AssociationCopies
      <3>3. pending' \subseteq pending
        BY <1>2, <2>3 DEF PendingAssociations
      <3> QED
        BY <3>2, <3>3
    <2> QED
      BY <2>1, <2>2, <2>3, PlansComeFromQueries
  <1> HIDE DEF copies, pending
  <1>4. Cardinality(copies') + Cardinality(pending') <= Cardinality(Threads)
    BY <1>1, <1>3, SumStaysBounded
  <1> QED
    BY <1>4 DEF copies, pending

LEMMA PlannedInit == Init => PermissionsPlanned /\ AssociationsPlanned
  <1> SUFFICES ASSUME Init PROVE PermissionsPlanned /\ AssociationsPlanned
    OBVIOUS
  <1>1. ASSUME NEW S, \A x, y \in S : x = y
        PROVE  Cardinality(S) <= Cardinality(Threads)
    <2>1. Cardinality(Threads) \in Nat /\ Cardinality(Threads) # 0
      BY SomeThreads, FS_CardinalityType, FS_EmptySet
    <2>2. CASE S = {}
      BY <2>1, <2>2, FS_EmptySet
    <2>3. CASE S # {}
      <3>1. PICK x : S = {x}
        BY <1>1, <2>3
      <3>2. Cardinality({x}) = 1
        BY FS_Singleton
      <3> QED
        BY <2>1, <3>1, <3>2
    <2> QED
      BY <2>2, <2>3
  <1>2. ASSUME NEW user \in Nat, NEW app \in Apps, NEW role \in Roles
        PROVE  Cardinality(Copies(user, app, role))
                   + Cardinality(PendingPermissions(user, app, role))
                       <= Cardinality(Threads)
    <2>1. \A p, q \in Copies(user, app, role) : p = q
      BY InitWithoutCopies DEF Init, Copies, Active
    <2>2. Cardinality(Copies(user, app, role)) <= Cardinality(Threads)
      BY <1>1, <2>1
    <2>3. PendingPermissions(user, app, role) = {}
      BY DEF Init, PendingPermissions, NoWork
    <2>4. IsFiniteSet(db.permissions) /\ Copies(user, app, role) \subseteq db.permissions
      BY ManagementAssumption DEF Init, Tables, Copies, Active
    <2>5. Cardinality(Copies(user, app, role)) \in Nat
      BY <2>4, FS_Subset, FS_CardinalityType
    <2> QED
      BY <2>2, <2>3, <2>5, FS_EmptySet
  <1>3. ASSUME NEW user \in Nat, NEW app \in Apps, NEW unit \in Units
        PROVE  Cardinality(AssociationCopies(user, app, unit))
                   + Cardinality(PendingAssociations(user, app, unit))
                       <= Cardinality(Threads)
    <2>1. \A a, b \in AssociationCopies(user, app, unit) : a = b
      BY InitWithoutCopies DEF Init, AssociationCopies, Active
    <2>2. Cardinality(AssociationCopies(user, app, unit)) <= Cardinality(Threads)
      BY <1>1, <2>1
    <2>3. PendingAssociations(user, app, unit) = {}
      BY DEF Init, PendingAssociations, NoWork
    <2>4. /\ IsFiniteSet(db.associations)
          /\ AssociationCopies(user, app, unit) \subseteq db.associations
      BY ManagementAssumption DEF Init, Tables, AssociationCopies, Active
    <2>5. Cardinality(AssociationCopies(user, app, unit)) \in Nat
      BY <2>4, FS_Subset, FS_CardinalityType
    <2> QED
      BY <2>2, <2>3, <2>5, FS_EmptySet
  <1> QED
    BY <1>2, <1>3 DEF PermissionsPlanned, AssociationsPlanned

LEMMA PlannedNext ==
    LedgerInv /\ PermissionsPlanned /\ AssociationsPlanned /\ [Next]_vars
        => PermissionsPlanned' /\ AssociationsPlanned'
  <1> SUFFICES ASSUME LedgerInv, PermissionsPlanned, AssociationsPlanned,
                      [Next]_vars
               PROVE  PermissionsPlanned' /\ AssociationsPlanned'
    OBVIOUS
  <1>1. CASE UNCHANGED vars
    BY <1>1 DEF vars, PermissionsPlanned, AssociationsPlanned, Copies,
                AssociationCopies, PendingPermissions, PendingAssociations
  <1>2. CASE Next
    BY <1>2, PermissionsStayPlanned, AssociationsStayPlanned DEF Next
  <1> QED
    BY <1>1, <1>2

LEMMA PlannedBoundsCopies ==
    LedgerInv /\ PermissionsPlanned /\ AssociationsPlanned => CopiesBounded
  <1> SUFFICES ASSUME LedgerInv, PermissionsPlanned, AssociationsPlanned
               PROVE  CopiesBounded
    OBVIOUS
  <1>1. ASSUME NEW C, NEW P, P \subseteq Threads, NEW rows, IsFiniteSet(rows),
               C \subseteq rows,
               Cardinality(C) + Cardinality(P) <= Cardinality(Threads)
        PROVE  Cardinality(C) <= Cardinality(Threads)
    <2>1. /\ Cardinality(C) \in Nat /\ Cardinality(P) \in Nat
          /\ Cardinality(Threads) \in Nat
      BY <1>1, SomeThreads, FS_Subset, FS_CardinalityType
    <2> QED
      BY <1>1, <2>1
  <1>2. IsFiniteSet(db.permissions) /\ IsFiniteSet(db.associations)
    BY DEF LedgerInv, TypeInv, TablesFinite, Tables
  <1>3. ASSUME NEW p \in Active(db.permissions)
        PROVE  Cardinality(Copies(p.user, p.app, p.role)) <= Cardinality(Threads)
    <2>1. p.user \in Nat /\ p.app \in Apps /\ p.role \in Roles
      BY RowTypes DEF LedgerInv, Active, PermissionRow
    <2>2. /\ Copies(p.user, p.app, p.role) \subseteq db.permissions
          /\ PendingPermissions(p.user, p.app, p.role) \subseteq Threads
      BY DEF Copies, Active, PendingPermissions
    <2> QED
      BY <1>1, <1>2, <2>1, <2>2 DEF PermissionsPlanned
  <1>4. ASSUME NEW a \in Active(db.associations)
        PROVE  Cardinality(AssociationCopies(a.user, a.app, a.unit))
                   <= Cardinality(Threads)
    <2>1. a.user \in Nat /\ a.app \in Apps /\ a.unit \in Units
      BY RowTypes DEF LedgerInv, Active, AssociationRow
    <2>2. /\ AssociationCopies(a.user, a.app, a.unit) \subseteq db.associations
          /\ PendingAssociations(a.user, a.app, a.unit) \subseteq Threads
      BY DEF AssociationCopies, Active, PendingAssociations
    <2> QED
      BY <1>1, <1>2, <2>1, <2>2 DEF AssociationsPlanned
  <1> QED
    BY <1>3, <1>4 DEF CopiesBounded

\* The look before each insert bounds the copies of a role or a unit by the number
\* of threads, for any number of them; with one thread there is never a second
\* copy.
THEOREM CopiesBoundedHolds == Spec => []CopiesBounded
  BY PlannedInit, PlannedNext, PlannedBoundsCopies, LedgerInvHolds, PTL DEF Spec


-----------------------------------------------------------------------------
(* What follows from the keys and from the bound.                              *)

\* A login is one user, so the unit the check finds and the role the list finds
\* belong to the same row of Users, whatever the database has become.
LEMMA KeysMakeListComplete == LedgerInv => ManageableLoginsAreListed
  <1> SUFFICES ASSUME LedgerInv,
                      NEW app \in Apps, NEW current \in Logins,
                      NEW login \in Logins, NEW found,
                      CanUserManageGivenLogin(db, app, current, login, found),
                      RolesOf(db, app, login) # {}
               PROVE  login \in GetByApplication(db, app, current, found)
    BY DEF ManageableLoginsAreListed
  <1>1. PICK p \in PermissionsOf(db, app, login) : TRUE
    BY DEF RolesOf
  <1>2. PICK a \in AssociationsOf(db, app, login) :
               a.unit \in VisibleUnits(db, app, current, found)
    BY DEF CanUserManageGivenLogin, UnitsOf
  <1>3. p.user \in UserIds(db, login) /\ a.user \in UserIds(db, login)
    BY DEF PermissionsOf, AssociationsOf
  <1>4. a.user = p.user
    <2>1. PICK u \in db.users : u.login = login /\ u.id = p.user
      BY <1>3 DEF UserIds
    <2>2. PICK v \in db.users : v.login = login /\ v.id = a.user
      BY <1>3 DEF UserIds
    <2>3. u = v
      BY <2>1, <2>2 DEF LedgerInv, KeysHold
    <2> QED
      BY <2>1, <2>2, <2>3
  <1>5. a \in Active(db.associations) /\ a.app = app
    BY DEF AssociationsOf
  <1> QED
    BY <1>2, <1>4, <1>5 DEF GetByApplication

\* Whoever may be managed and has a role is on the list, in every state the
\* server reaches: the list and the check stay compatible.
THEOREM ManageableLoginsAreListedHolds == Spec => []ManageableLoginsAreListed
  BY KeysMakeListComplete, LedgerInvHolds, PTL

\* One request at a time the look before the insert is enough: with a single
\* thread nobody ever has a role in an application twice.
THEOREM OneThreadNeverDuplicates ==
    ASSUME Cardinality(Threads) = 1
    PROVE  Spec => []NoDuplicatePermissions
  <1>1. LedgerInv /\ CopiesBounded => NoDuplicatePermissions
    <2> SUFFICES ASSUME LedgerInv, CopiesBounded,
                        NEW p \in Active(db.permissions),
                        NEW q \in Active(db.permissions),
                        p.user = q.user, p.app = q.app, p.role = q.role
                 PROVE  p = q
      BY DEF NoDuplicatePermissions
    <2> DEFINE copies == Copies(p.user, p.app, p.role)
    <2>1. p \in copies /\ q \in copies /\ copies \subseteq db.permissions
      BY DEF Copies, Active
    <2>2. IsFiniteSet(copies)
      BY <2>1, FS_Subset DEF LedgerInv, TypeInv, TablesFinite, Tables
    <2>3. Cardinality(copies) <= 1
      BY DEF CopiesBounded
    <2> HIDE DEF copies
    <2>4. /\ Cardinality(copies) \in Nat
          /\ IsFiniteSet(copies \ {p})
          /\ Cardinality(copies \ {p}) = Cardinality(copies) - 1
      BY <2>1, <2>2, FS_CardinalityType, FS_RemoveElement
    <2>5. Cardinality(copies \ {p}) \in Nat
      BY <2>4, FS_CardinalityType
    <2>6. Cardinality(copies \ {p}) = 0
      BY <2>3, <2>4, <2>5
    <2>7. copies \ {p} = {}
      BY <2>4, <2>6, FS_EmptySet
    <2> QED
      BY <2>1, <2>7
  <1> QED
    BY <1>1, CopiesBoundedHolds, LedgerInvHolds, PTL


-----------------------------------------------------------------------------
(* One thread. *)

\* One request at a time.
OneThread == \A s, t \in Threads : s = t

LEMMA OneThreadAlone ==
    ASSUME Cardinality(Threads) = 1
    PROVE  OneThread
  <1>1. PICK x : Threads = {x}
    BY SomeThreads, FS_Singleton
  <1> QED
    BY <1>1 DEF OneThread

\* The guards of request r at this step, its scope being sc, would answer on this
\* database as they did.
GuardsHold(database, r, step, sc) ==
    LET now == ManagementScope(database, r.app, r.actor)
    IN  r.op \in GuardedOps =>
          /\ step \in {"login", "unit"} => sc = now
          /\ step \notin {"loginScope", "login"} =>
                CanUserManageGivenLogin(database, r.app, r.actor, r.login, now)
          /\ step \in {"findUser", "findRow", "permissionExists",
                       "associationExists", "commit"} =>
                IF r.op \in RoleOps
                THEN r.role \in VisibleRoles(database, r.app, r.actor)
                ELSE r.unit \in VisibleUnits(database, r.app, r.actor, now)

\* What the session w of InsertNewUser found at an earlier step is in this
\* database: the user, unless it is new, and the role and the unit, unless they
\* are to be added.
FindingsHold(database, r, step, w) ==
    r.op = "InsertNewUser" =>
        /\ step \in {"permissionExists", "associationExists", "commit"}
              /\ ~w.insertUser =>
              \E u \in Active(database.users) :
                  u.id = w.user /\ u.login = r.login
        /\ step \in {"associationExists", "commit"} =>
              \/ w.addRoles # {}
              \/ \E p \in Active(database.permissions) :
                    p.user = w.user /\ p.app = r.app /\ p.role = r.role
        /\ step = "commit" =>
              \/ w.addUnits # {}
              \/ \E a \in Active(database.associations) :
                    a.user = w.user /\ a.app = r.app /\ a.unit = r.unit

\* The inductive invariant of a server with one thread: nothing it read in a
\* request is stale when it uses it.
NothingIsStale ==
    \A t \in Threads :
        pc[t] # "idle" =>
            /\ GuardsHold(db, request[t], pc[t], scope[t])
            /\ FindingsHold(db, request[t], pc[t], work[t])

\* The one thread ends its request.
LEMMA EndedFresh ==
    ASSUME OneThread, TypeInv, NEW t \in Threads, EndRequest(t)
    PROVE  NothingIsStale'
  BY DEF EndRequest, TypeInv, TypeOK, OneThread, NothingIsStale

\* The one thread goes on with a step for which both hold.
LEMMA ContinueFresh ==
    ASSUME OneThread, TypeInv, NEW t \in Threads, NEW next, NEW w,
           Continue(t, next, w),
           GuardsHold(db, request[t], next, scope[t]),
           FindingsHold(db, request[t], next, w)
    PROVE  NothingIsStale'
  <1>1. /\ pc'[t] = next /\ work'[t] = w /\ db' = db
        /\ request'[t] = request[t] /\ scope'[t] = scope[t]
    BY DEF Continue, TypeInv, TypeOK
  <1> QED
    BY <1>1 DEF OneThread, NothingIsStale

\* What is true of any other request, whatever its step.
LEMMA NotConcerned ==
    ASSUME NEW database, NEW r, NEW step, NEW sc, NEW w
    PROVE  /\ r.op \notin GuardedOps => GuardsHold(database, r, step, sc)
           /\ r.op # "InsertNewUser" => FindingsHold(database, r, step, w)
           /\ r.op = "InsertNewUser" => r.op \notin GuardedOps
  BY DEF GuardsHold, FindingsHold, GuardedOps, RoleOps, UnitOps

\* A request starts at its first guard, or before its first query.
LEMMA SubmitFresh ==
    ASSUME OneThread, TypeInv, NEW t \in Threads, Submit(t)
    PROVE  NothingIsStale'
  <1>1. PICK r \in Requests :
           /\ pc' = [pc EXCEPT ![t] = FirstStep(r)]
           /\ request' = [request EXCEPT ![t] = r]
           /\ UNCHANGED <<db, scope>>
    BY DEF Submit
  <1>2. /\ r.op \in GuardedOps => FirstStep(r) = "loginScope"
        /\ r.op = "InsertNewUser" => FirstStep(r) = "findUser"
    BY DEF FirstStep, GuardedOps, RoleOps, UnitOps
  <1>3. \A sc, w : /\ GuardsHold(db, r, FirstStep(r), sc)
                   /\ FindingsHold(db, r, FirstStep(r), w)
    BY <1>2 DEF GuardsHold, FindingsHold
  <1>4. pc'[t] = FirstStep(r) /\ request'[t] = r /\ db' = db
    BY <1>1 DEF TypeInv, TypeOK
  <1> QED
    BY <1>3, <1>4 DEF OneThread, NothingIsStale

\* The guards read what they guard by.
LEMMA GuardsFresh ==
    ASSUME OneThread, TypeInv, NothingIsStale, NEW t \in Threads,
           \/ ReadScope(t)
           \/ EnsureCurrentUserCanManageLogin(t)
           \/ EnsureCurrentUserCanModifyRole(t)
           \/ EnsureCurrentUserCanModifyUnit(t)
    PROVE  NothingIsStale'
  <1> DEFINE r == request[t]
             now == ManagementScope(db, r.app, r.actor)
  <1>1. /\ pc[t] \in {"loginScope", "unitScope", "login", "role", "unit"}
        /\ GuardsHold(db, r, pc[t], scope[t])
        /\ r.op \in OpsAt(pc[t])
    BY DEF ReadScope, EnsureCurrentUserCanManageLogin,
           EnsureCurrentUserCanModifyRole, EnsureCurrentUserCanModifyUnit,
           NothingIsStale, TypeInv, HandlersKeepToTheirSteps
  <1>2. r.op \in GuardedOps /\ r.op # "InsertNewUser"
    BY <1>1, OpsAtStep DEF GuardedOps, RoleOps, UnitOps
  <1>3. \A step, w : FindingsHold(db, r, step, w)
    BY <1>2, NotConcerned
  <1>4. CASE Rollback(t)
    BY <1>4, EndedFresh DEF Rollback
  <1>5. CASE ReadScope(t) /\ ~Rollback(t)
    <2>1. /\ scope'[t] = now /\ request'[t] = r /\ db' = db
          /\ pc'[t] = IF pc[t] = "loginScope" THEN "login" ELSE "unit"
          /\ pc[t] \in {"loginScope", "unitScope"}
      BY <1>5 DEF ReadScope, TypeInv, TypeOK
    <2>2. GuardsHold(db, r, pc'[t], now)
      BY <1>1, <1>2, <2>1 DEF GuardsHold
    <2> QED
      BY <1>3, <2>1, <2>2 DEF OneThread, NothingIsStale
  <1>6. CASE EnsureCurrentUserCanManageLogin(t) /\ ~Rollback(t)
    <2> DEFINE next == IF r.op \in RoleOps THEN "role" ELSE "unitScope"
    <2>1. /\ pc[t] = "login" /\ Continue(t, next, work[t])
          /\ CanUserManageGivenLogin(db, r.app, r.actor, r.login, scope[t])
      BY <1>6 DEF EnsureCurrentUserCanManageLogin
    <2>2. GuardsHold(db, r, next, scope[t])
      BY <1>1, <1>2, <2>1 DEF GuardsHold
    <2> HIDE DEF next
    <2> QED
      BY <1>3, <2>1, <2>2, ContinueFresh
  <1>7. CASE EnsureCurrentUserCanModifyRole(t) /\ ~Rollback(t)
    <2> DEFINE next == StepAfterGuards(r.op)
    <2>1. /\ pc[t] = "role" /\ Continue(t, next, work[t])
          /\ r.role \in VisibleRoles(db, r.app, r.actor)
      BY <1>7 DEF EnsureCurrentUserCanModifyRole
    <2>2. r.op \in RoleOps /\ next \in {"findUser", "findRow"}
      BY <1>1, <2>1, OpsAtStep DEF StepAfterGuards
    <2> HIDE DEF next
    <2>3. GuardsHold(db, r, next, scope[t])
      BY <1>1, <1>2, <2>1, <2>2 DEF GuardsHold
    <2> QED
      BY <1>3, <2>1, <2>3, ContinueFresh
  <1>8. CASE EnsureCurrentUserCanModifyUnit(t) /\ ~Rollback(t)
    <2> DEFINE next == StepAfterGuards(r.op)
    <2>1. /\ pc[t] = "unit" /\ Continue(t, next, work[t])
          /\ r.unit \in VisibleUnits(db, r.app, r.actor, scope[t])
      BY <1>8 DEF EnsureCurrentUserCanModifyUnit
    <2>2. r.op \notin RoleOps /\ next \in {"findUser", "findRow"}
      BY <1>1, <2>1, OpsAtStep DEF StepAfterGuards, RoleOps, UnitOps
    <2> HIDE DEF next
    <2>3. GuardsHold(db, r, next, scope[t])
      BY <1>1, <1>2, <2>1, <2>2 DEF GuardsHold
    <2> QED
      BY <1>3, <2>1, <2>3, ContinueFresh
  <1> QED
    BY <1>4, <1>5, <1>6, <1>7, <1>8


\* The queries of the bodies come after the guards, and what they find goes into
\* the session.
LEMMA QueriesFresh ==
    ASSUME OneThread, TypeInv, NothingIsStale, NEW t \in Threads,
           \/ FindUser(t)
           \/ FindRow(t)
           \/ RoleIsAssociatedWithApplication(t)
           \/ PermissionExists(t)
           \/ AssociationExists(t)
           \/ ClearPermissions(t)
           \/ ClearAssociations(t)
    PROVE  NothingIsStale'
  <1> DEFINE r == request[t]
             w == work[t]
  <1>1. /\ pc[t] \in {"findUser", "findRow", "roleAllowed", "permissionExists",
                      "associationExists", "clearPermissions",
                      "clearAssociations"}
        /\ GuardsHold(db, r, pc[t], scope[t]) /\ FindingsHold(db, r, pc[t], w)
        /\ r.op \in OpsAt(pc[t]) /\ w \in Work
    BY DEF FindUser, FindRow, RoleIsAssociatedWithApplication, PermissionExists,
           AssociationExists, ClearPermissions, ClearAssociations,
           NothingIsStale, TypeInv, TypeOK, HandlersKeepToTheirSteps
  <1>2. CASE Rollback(t)
    BY <1>2, EndedFresh DEF Rollback
  <1>3. pc[t] \in {"roleAllowed", "clearPermissions", "clearAssociations"} =>
            r.op \notin GuardedOps
    BY <1>1, OpsAtStep DEF GuardedOps, RoleOps, UnitOps
  <1>4. CASE r.op # "InsertNewUser" /\ ~Rollback(t)
    <2>1. \A step, x : FindingsHold(db, r, step, x)
      BY <1>4, NotConcerned
    <2>2. PICK next \in {"permissionExists", "associationExists",
                         "clearPermissions", "clearAssociations", "commit"} :
             /\ \E x : Continue(t, next, x)
             /\ next \in {"clearPermissions", "clearAssociations"} =>
                   r.op \notin GuardedOps
      <3>1. CASE FindUser(t)
        <4>1. StepAfterUser(r.op) \in {"permissionExists", "associationExists",
                                       "clearPermissions"}
              /\ (StepAfterUser(r.op) = "clearPermissions" =>
                     r.op \notin GuardedOps)
          BY DEF StepAfterUser, GuardedOps, RoleOps, UnitOps
        <4>2. \E x : Continue(t, StepAfterUser(r.op), x)
          BY <1>4, <3>1 DEF FindUser
        <4> QED
          BY <4>1, <4>2
      <3>2. CASE FindRow(t)
        <4>1. \E x : Continue(t, "commit", x)
          BY <1>4, <3>2 DEF FindRow
        <4> QED
          BY <4>1
      <3>3. CASE RoleIsAssociatedWithApplication(t)
        <4>1. \E x : Continue(t, "permissionExists", x)
          BY <1>4, <3>3 DEF RoleIsAssociatedWithApplication
        <4> QED
          BY <4>1
      <3>4. CASE PermissionExists(t) \/ AssociationExists(t)
        <4>1. \E x : Continue(t, "commit", x)
          BY <1>4, <3>4 DEF PermissionExists, AssociationExists
        <4> QED
          BY <4>1
      <3>5. CASE ClearPermissions(t)
        <4>1. \E x : Continue(t, "clearAssociations", x)
          BY <3>5 DEF ClearPermissions
        <4> QED
          BY <1>3, <3>5, <4>1 DEF ClearPermissions
      <3>6. CASE ClearAssociations(t)
        <4>1. \E x : Continue(t, "commit", x)
          BY <3>6 DEF ClearAssociations
        <4> QED
          BY <4>1
      <3> QED
        BY <3>1, <3>2, <3>3, <3>4, <3>5, <3>6
    <2>3. GuardsHold(db, r, next, scope[t])
      BY <1>1, <1>3, <2>2 DEF GuardsHold
    <2>4. PICK x : Continue(t, next, x)
      BY <2>2
    <2> QED
      BY <2>1, <2>3, <2>4, ContinueFresh
  <1>5. CASE r.op = "InsertNewUser" /\ ~Rollback(t)
    <2>1. \A step, sc : GuardsHold(db, r, step, sc)
      BY <1>5, NotConcerned
    <2>2. pc[t] \in {"findUser", "permissionExists", "associationExists"}
      BY <1>1, <1>5, OpsAtStep DEF InsertOps
    <2>3. CASE FindUser(t)
      <3>1. StepAfterUser(r.op) = "permissionExists" /\ pc[t] = "findUser"
        BY <1>5, <2>3 DEF StepAfterUser, FindUser
      <3>2. CASE \E u \in Active(db.users) :
                    /\ u.login = r.login
                    /\ Continue(t, "permissionExists", [w EXCEPT !.user = u.id])
        <4> PICK u \in Active(db.users) :
                    /\ u.login = r.login
                    /\ Continue(t, "permissionExists", [w EXCEPT !.user = u.id])
          BY <3>2
        <4> DEFINE x == [w EXCEPT !.user = u.id]
        <4>1. x.user = u.id
          BY <1>1 DEF Work
        <4> HIDE DEF x
        <4>2. FindingsHold(db, r, "permissionExists", x)
          BY <4>1 DEF FindingsHold
        <4>3. Continue(t, "permissionExists", x)
          BY DEF x
        <4> QED
          BY <2>1, <4>2, <4>3, ContinueFresh
      <3>3. CASE Continue(t, "permissionExists", [w EXCEPT !.insertUser = TRUE])
        <4> DEFINE x == [w EXCEPT !.insertUser = TRUE]
        <4>1. x.insertUser
          BY <1>1 DEF Work
        <4> HIDE DEF x
        <4>2. FindingsHold(db, r, "permissionExists", x)
          BY <4>1 DEF FindingsHold
        <4>3. Continue(t, "permissionExists", x)
          BY <3>3 DEF x
        <4> QED
          BY <2>1, <4>2, <4>3, ContinueFresh
      <3> QED
        BY <1>5, <2>3, <3>1, <3>2, <3>3 DEF FindUser
    <2>4. CASE PermissionExists(t)
      <3>1. pc[t] = "permissionExists"
        BY <2>4 DEF PermissionExists
      <3>2. ~w.insertUser => \E u \in Active(db.users) :
                                u.id = w.user /\ u.login = r.login
        BY <1>1, <1>5, <3>1 DEF FindingsHold
      <3>3. CASE /\ Copies(w.user, r.app, r.role) # {}
                 /\ Continue(t, "associationExists", w)
        <4>1. FindingsHold(db, r, "associationExists", w)
          BY <3>2, <3>3 DEF FindingsHold, Copies
        <4> QED
          BY <2>1, <3>3, <4>1, ContinueFresh
      <3>4. CASE Continue(t, "associationExists", [w EXCEPT !.addRoles = {r.role}])
        <4> DEFINE x == [w EXCEPT !.addRoles = {r.role}]
        <4>1. x.addRoles # {} /\ x.user = w.user /\ x.insertUser = w.insertUser
          BY <1>1 DEF Work
        <4> HIDE DEF x
        <4>2. FindingsHold(db, r, "associationExists", x)
          BY <3>2, <4>1 DEF FindingsHold
        <4>3. Continue(t, "associationExists", x)
          BY <3>4 DEF x
        <4> QED
          BY <2>1, <4>2, <4>3, ContinueFresh
      <3> QED
        BY <1>5, <2>4, <3>3, <3>4 DEF PermissionExists
    <2>5. CASE AssociationExists(t)
      <3>1. pc[t] = "associationExists"
        BY <2>5 DEF AssociationExists
      <3>2. /\ ~w.insertUser => \E u \in Active(db.users) :
                                   u.id = w.user /\ u.login = r.login
            /\ \/ w.addRoles # {}
               \/ \E p \in Active(db.permissions) :
                     p.user = w.user /\ p.app = r.app /\ p.role = r.role
        BY <1>1, <1>5, <3>1 DEF FindingsHold
      <3>3. CASE /\ AssociationCopies(w.user, r.app, r.unit) # {}
                 /\ Continue(t, "commit", w)
        <4>1. FindingsHold(db, r, "commit", w)
          BY <3>2, <3>3 DEF FindingsHold, AssociationCopies
        <4> QED
          BY <2>1, <3>3, <4>1, ContinueFresh
      <3>4. CASE Continue(t, "commit", [w EXCEPT !.addUnits = {r.unit}])
        <4> DEFINE x == [w EXCEPT !.addUnits = {r.unit}]
        <4>1. /\ x.addUnits # {} /\ x.user = w.user
              /\ x.insertUser = w.insertUser /\ x.addRoles = w.addRoles
          BY <1>1 DEF Work
        <4> HIDE DEF x
        <4>2. FindingsHold(db, r, "commit", x)
          BY <3>2, <4>1 DEF FindingsHold
        <4>3. Continue(t, "commit", x)
          BY <3>4 DEF x
        <4> QED
          BY <2>1, <4>2, <4>3, ContinueFresh
      <3> QED
        BY <2>5, <3>3, <3>4 DEF AssociationExists
    <2> QED
      BY <2>2, <2>3, <2>4, <2>5
         DEF FindRow, RoleIsAssociatedWithApplication, ClearPermissions,
             ClearAssociations
  <1> QED
    BY <1>2, <1>4, <1>5

\* With one thread nothing a request read is stale when it uses it.
LEMMA NothingIsStaleHolds ==
    ASSUME OneThread
    PROVE  Spec => []NothingIsStale
  <1>1. Init => NothingIsStale
    BY DEF Init, NothingIsStale
  <1>2. TypeInv /\ NothingIsStale /\ [Next]_vars => NothingIsStale'
    <2> SUFFICES ASSUME TypeInv, NothingIsStale, [Next]_vars
                 PROVE  NothingIsStale'
      OBVIOUS
    <2>1. CASE UNCHANGED vars
      BY <2>1 DEF vars, NothingIsStale
    <2>2. ASSUME NEW t \in Threads, Submit(t)
          PROVE  NothingIsStale'
      BY <2>2, SubmitFresh
    <2>3. ASSUME NEW t \in Threads, Abort(t) \/ Commit(t) \/ CommitFails(t)
          PROVE  NothingIsStale'
      BY <2>3, EndedFresh DEF Abort, Commit, CommitFails, Rollback
    <2>4. ASSUME NEW t \in Threads, Handle(t), ~Commit(t), ~CommitFails(t)
          PROVE  NothingIsStale'
      BY <2>4, GuardsFresh, QueriesFresh DEF Handle
    <2> QED
      BY <2>1, <2>2, <2>3, <2>4 DEF Next, Handle
  <1> QED
    BY <1>1, <1>2, TypeCorrect, PTL DEF Spec

\* Handled one at a time, what a guarded handler commits is backed by the rights
\* its current login has at that instant.
THEOREM CommitsAreBackedHolds ==
    ASSUME Cardinality(Threads) = 1
    PROVE  Spec => CommitsAreBacked
  <1> DEFINE Backed ==
        \A t \in Threads :
          Commits(t, GuardedOps) =>
             LET r == request[t]
                 now == ManagementScope(db, r.app, r.actor)
             IN  /\ CanUserManageGivenLogin(db, r.app, r.actor, r.login, now)
                 /\ IF r.op \in RoleOps
                    THEN r.role \in VisibleRoles(db, r.app, r.actor)
                    ELSE r.unit \in VisibleUnits(db, r.app, r.actor, now)
  <1>1. NothingIsStale => Backed
    BY DEF NothingIsStale, GuardsHold, Commits
  <1>2. NothingIsStale /\ [Next]_vars => [Backed]_vars
    BY <1>1
  <1> QED
    BY <1>2, OneThreadAlone, NothingIsStaleHolds, PTL DEF Spec, CommitsAreBacked

\* The commit of InsertNewUser gives the login what the form asked for.
LEMMA InsertionDelivers ==
    ASSUME LedgerInv, NothingIsStale, NEW t \in Threads,
           Commits(t, {"InsertNewUser"})
    PROVE  /\ request[t].role
                 \in RolesOf(db', request[t].app, request[t].login)
           /\ request[t].unit
                 \in UnitsOf(db', request[t].app, request[t].login)
  <1> DEFINE r == request[t]
             w == work[t]
  <1>1. /\ Commit(t) /\ r.op = "InsertNewUser" /\ pc[t] = "commit"
        /\ TypeInv /\ SessionHolds(r, "commit", w)
        /\ FindingsHold(db, r, "commit", w)
    BY DEF Commits, LedgerInv, SessionsHold, NothingIsStale
  <1>2. /\ ~w.deleteUser /\ w.dropPermissions = {} /\ w.dropAssociations = {}
    BY <1>1 DEF SessionHolds
  <1>3. /\ db'.users = db.users \cup (IF w.insertUser THEN {UserRowOf(t)} ELSE {})
        /\ db'.permissions = db.permissions \cup
              (IF w.addRoles = {} THEN {} ELSE {PermissionRowOf(t)})
        /\ db'.associations = db.associations \cup
              (IF w.addUnits = {} THEN {} ELSE {AssociationRowOf(t)})
    BY <1>1, <1>2, CommitEffect
  <1>4. /\ PermissionRowOf(t).user = UserOf(t) /\ PermissionRowOf(t).app = r.app
        /\ PermissionRowOf(t).role = r.role /\ ~PermissionRowOf(t).inactive
        /\ AssociationRowOf(t).user = UserOf(t) /\ AssociationRowOf(t).app = r.app
        /\ AssociationRowOf(t).unit = r.unit /\ ~AssociationRowOf(t).inactive
        /\ UserRowOf(t).login = r.login /\ UserRowOf(t).id = identity.users + 1
    BY DEF PermissionRowOf, AssociationRowOf, UserRowOf
  <1>5. UserOf(t) \in UserIds(db', r.login)
    <2>1. CASE w.insertUser
      BY <1>3, <1>4, <2>1 DEF UserOf, UserIds
    <2>2. CASE ~w.insertUser
      BY <1>1, <1>3, <2>2 DEF UserOf, UserIds, FindingsHold, Active
    <2> QED
      BY <2>1, <2>2
  <1>6. \E p \in Active(db'.permissions) :
           p.user = UserOf(t) /\ p.app = r.app /\ p.role = r.role
    <2>1. CASE w.addRoles # {}
      BY <1>3, <1>4, <2>1 DEF Active
    <2>2. CASE w.addRoles = {}
      <3>1. ~w.insertUser
        BY <1>1, <2>2 DEF SessionHolds
      <3> QED
        BY <1>1, <1>3, <2>2, <3>1 DEF UserOf, FindingsHold, Active
    <2> QED
      BY <2>1, <2>2
  <1>7. \E a \in Active(db'.associations) :
           a.user = UserOf(t) /\ a.app = r.app /\ a.unit = r.unit
    <2>1. CASE w.addUnits # {}
      BY <1>3, <1>4, <2>1 DEF Active
    <2>2. CASE w.addUnits = {}
      <3>1. ~w.insertUser
        BY <1>1, <2>2 DEF SessionHolds
      <3> QED
        BY <1>1, <1>3, <2>2, <3>1 DEF UserOf, FindingsHold, Active
    <2> QED
      BY <2>1, <2>2
  <1> QED
    BY <1>5, <1>6, <1>7
       DEF RolesOf, PermissionsOf, UnitsOf, AssociationsOf

\* Handled one at a time, InsertNewUser leaves the login with the role and the
\* unit of the form, whatever the user had before.
THEOREM InsertNewUserDeliversHolds ==
    ASSUME Cardinality(Threads) = 1
    PROVE  Spec => InsertNewUserDelivers
  <1> DEFINE Delivers ==
        \A t \in Threads :
          Commits(t, {"InsertNewUser"}) =>
              LET r == request[t]
              IN  /\ r.role \in RolesOf(db', r.app, r.login)
                  /\ r.unit \in UnitsOf(db', r.app, r.login)
  <1>1. LedgerInv /\ NothingIsStale => Delivers
    BY InsertionDelivers
  <1>2. LedgerInv /\ NothingIsStale /\ [Next]_vars => [Delivers]_vars
    BY <1>1
  <1> QED
    BY <1>2, OneThreadAlone, NothingIsStaleHolds, LedgerInvHolds, PTL
       DEF Spec, InsertNewUserDelivers

=============================================================================
