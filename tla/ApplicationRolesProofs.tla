---------------------- MODULE ApplicationRolesProofs ----------------------
(***************************************************************************)
(* Proofs about ApplicationRoles: type correctness, that the roles of an    *)
(* application are always those of one form and reconciled, and that it     *)
(* implements RoleLists, for any number of request threads, applications,   *)
(* roles and forms.                                                         *)
(***************************************************************************)
EXTENDS ApplicationRolesLists, TLAPS

-----------------------------------------------------------------------------
(* What a form asks for.                                                      *)

\* A posted form is a form of an application or of a role, as its op says.
LEMMA FormKinds ==
    ASSUME NEW f \in Forms
    PROVE  /\ f.op \in {"Create", "Edit"} => f \in ApplicationForm
           /\ f.op \notin {"Create", "Edit"} =>
                 f \in RoleForm /\ f.op = "CreateRole"
BY FormAssumption DEF ApplicationForm, RoleForm

\* The lists of a form, one after the other, are a list of roles.
LEMMA PostedType ==
    ASSUME NEW f \in ApplicationForm
    PROVE  /\ Posted(f) \in Seq(Roles)
           /\ Len(f.ordered) \in Nat
           /\ Len(Posted(f)) \in Nat
           /\ DOMAIN Posted(f) = 1..Len(Posted(f))
BY DEF ApplicationForm, Posted

\* The new rows are rows of the form's application with the ids that follow.
LEMMA NewRowsType ==
    ASSUME NEW f \in ApplicationForm, NEW last \in Nat
    PROVE  /\ NewRows(f, last) \subseteq Row
           /\ \A row \in NewRows(f, last) :
                 /\ row.app = f.app
                 /\ row.id > last
                 /\ row.id <= last + Len(Posted(f))
           /\ \A x, y \in NewRows(f, last) : x.id = y.id => x = y
           /\ Posted(f) # <<>> => NewRows(f, last) # {}
<1>1. \A i \in DOMAIN Posted(f) : Posted(f)[i] \in Roles /\ i \in Nat /\ i >= 1
  BY PostedType
<1>2. f.app \in Apps
  BY DEF ApplicationForm
<1>3. NewRows(f, last) \subseteq Row
  BY <1>1, <1>2, PostedType DEF NewRows, Row
<1>4. \A row \in NewRows(f, last) :
         row.app = f.app /\ row.id > last /\ row.id <= last + Len(Posted(f))
  BY <1>1, PostedType DEF NewRows
<1>5. \A x, y \in NewRows(f, last) : x.id = y.id => x = y
  BY <1>1, PostedType DEF NewRows
<1>6. ASSUME Posted(f) # <<>>
      PROVE  NewRows(f, last) # {}
  <2>1. 1 \in DOMAIN Posted(f)
    BY <1>6, PostedType
  <2>. QED
    BY <2>1 DEF NewRows
<1>. QED
  BY <1>3, <1>4, <1>5, <1>6

-----------------------------------------------------------------------------
(* Type correctness. *)

\* A rolled back request keeps the types.
LEMMA RollbackType ==
    ASSUME TypeInv, NEW t \in Threads, Rollback(t)
    PROVE  TypeInv'
BY DEF TypeInv, TypeOK, HandlersKeepToTheirSteps, Rollback, EndRequest, Step

\* The initial state and every step of every action keep the types.
THEOREM TypeCorrect == Spec => []TypeInv
<1>1. Init => TypeInv
  BY InitAssumption
  DEF Init, TypeInv, TypeOK, HandlersKeepToTheirSteps, Step
<1>2. ASSUME TypeInv, [Next]_vars
      PROVE  TypeInv'
  <2>. USE <1>2
  <2>1. ASSUME NEW t \in Threads, Submit(t)
        PROVE  TypeInv'
    <3>1. PICK f \in Forms :
             /\ pc[t] = "idle"
             /\ pc' = [pc EXCEPT ![t] = FirstStep(f)]
             /\ form' = [form EXCEPT ![t] = f]
             /\ UNCHANGED <<apps, rows, identity, status, orphans>>
      BY <2>1 DEF Submit
    <3>2. /\ FirstStep(f) \in {"application", "roles", "roleName"}
          /\ FirstStep(f) = "application" => f.op = "Edit"
          /\ FirstStep(f) = "roles" => f.op \in {"Create", "Edit"}
          /\ FirstStep(f) = "roleName" => f.op = "CreateRole"
      BY FormKinds DEF FirstStep, ApplicationForm, RoleForm
    <3>. QED
      BY <3>1, <3>2 DEF TypeInv, TypeOK, HandlersKeepToTheirSteps, Step
  <2>2. ASSUME NEW t \in Threads, FindApplication(t)
        PROVE  TypeInv'
    BY <2>2, RollbackType
    DEF FindApplication, Continue, TypeInv, TypeOK, HandlersKeepToTheirSteps,
        Step
  <2>3. ASSUME NEW t \in Threads, ClearRoles(t)
        PROVE  TypeInv'
    <3>1. Ids(RowsOf(rows, form[t].app)) \subseteq Nat
      BY DEF Ids, RowsOf, TypeInv, TypeOK, Row
    <3>. QED
      BY <2>3, <3>1
      DEF ClearRoles, Continue, TypeInv, TypeOK, HandlersKeepToTheirSteps, Step
  <2>4. ASSUME NEW t \in Threads, FindRoles(t)
        PROVE  TypeInv'
    BY <2>4, RollbackType
    DEF FindRoles, Continue, TypeInv, TypeOK, HandlersKeepToTheirSteps, Step
  <2>5. ASSUME NEW t \in Threads, RoleNameIsFree(t)
        PROVE  TypeInv'
    BY <2>5, RollbackType
    DEF RoleNameIsFree, Continue, TypeInv, TypeOK, HandlersKeepToTheirSteps,
        Step
  <2>6. ASSUME NEW t \in Threads, Commit(t)
        PROVE  TypeInv'
    <3>1. form[t] \in Forms
      BY <2>6 DEF Commit, TypeInv, HandlersKeepToTheirSteps
    <3>2. apps' \subseteq Apps /\ rows' \subseteq Row /\ identity' \in Nat
             /\ status' \in [Roles -> Status]
      <4>1. CASE CommitApplication(t)
        <5>1. form[t] \in ApplicationForm
          BY <3>1, <4>1, FormKinds DEF CommitApplication
        <5>. QED
          BY <4>1, <5>1, NewRowsType, PostedType
          DEF CommitApplication, TypeInv, TypeOK, ApplicationForm
      <4>2. CASE CommitRole(t)
        BY <3>1, <4>2, FormKinds
        DEF CommitRole, TypeInv, TypeOK, RoleForm, Status
      <4>. QED
        BY <2>6, <4>1, <4>2 DEF Commit
    <3>. QED
      BY <2>6, <3>2
      DEF Commit, EndRequest, TypeInv, TypeOK, HandlersKeepToTheirSteps, Step
  <2>7. ASSUME NEW t \in Threads, CommitFails(t) \/ Abort(t)
        PROVE  TypeInv'
    BY <2>7, RollbackType DEF CommitFails, Abort
  <2>8. ASSUME NEW role \in Roles, RetireRole(role)
        PROVE  TypeInv'
    BY <2>8
    DEF RetireRole, TypeInv, TypeOK, HandlersKeepToTheirSteps, Status
  <2>9. CASE UNCHANGED vars
    BY <2>9 DEF vars, TypeInv, TypeOK, HandlersKeepToTheirSteps
  <2>. QED
    BY <2>1, <2>2, <2>3, <2>4, <2>5, <2>6, <2>7, <2>8, <2>9 DEF Next, Handle
<1>. QED
  BY <1>1, <1>2, PTL DEF Spec

-----------------------------------------------------------------------------
(* The roles of an application are those of one form. *)

\* An application whose rows do not change, and whose form is there, keeps
\* having one form's rows.
LEMMA UntouchedRows ==
    ASSUME ReconciliationInv, TypeInv',
           apps' = apps, rows' = rows, identity' = identity
    PROVE  /\ NoApplicationIsEmpty => NoApplicationIsEmpty'
           /\ OneFormAtATime'
BY DEF ReconciliationInv, NoApplicationIsEmpty, OneFormAtATime

\* A rolled back request keeps the invariant.
LEMMA RollbackReconciled ==
    ASSUME ReconciliationInv, NEW t \in Threads, Rollback(t)
    PROVE  ReconciliationInv'
<1>1. TypeInv'
  BY RollbackType DEF ReconciliationInv
<1>2. RowsAreKeyed'
  BY DEF ReconciliationInv, RowsAreKeyed, Rollback, EndRequest, TypeInv, TypeOK
<1>3. EditsHaveTheirApplication'
  BY DEF ReconciliationInv, EditsHaveTheirApplication, Rollback, EndRequest,
         TypeInv, TypeOK
<1>4. NeverEmpty => OrphansAreAllOrNone'
  BY DEF ReconciliationInv, OrphansAreAllOrNone, Rollback, EndRequest, TypeInv,
         TypeOK
<1>. QED
  BY <1>1, <1>2, <1>3, <1>4, UntouchedRows DEF Rollback, ReconciliationInv

\* The rows of the other applications, and the fate of those of the form's own,
\* when the rows an edit or a create commits replace the orphans.
LEMMA CommittedRows ==
    ASSUME ReconciliationInv, NEW t \in Threads, pc[t] = "commit",
           CanCommit(t), CommitApplication(t), NeverEmpty
    PROVE  /\ RowsOf(rows', form[t].app) = NewRows(form[t], identity)
           /\ \A app \in Apps \ {form[t].app} :
                 RowsOf(rows', app) = RowsOf(rows, app)
<1>. DEFINE f == form[t]
<1>1. f \in Forms /\ f \in ApplicationForm /\ f.app \in Apps
  BY FormKinds
  DEF ReconciliationInv, TypeInv, HandlersKeepToTheirSteps, CommitApplication,
      ApplicationForm
<1>2. \A row \in NewRows(f, identity) : row.app = f.app
  BY <1>1, NewRowsType DEF ReconciliationInv, TypeInv, TypeOK
<1>3. orphans[t] = Ids(RowsOf(rows, f.app))
  <2>1. CASE f.op = "Edit"
    <3>1. orphans[t] # {} /\ orphans[t] \subseteq Ids(rows)
      BY <2>1 DEF ReconciliationInv, OrphansAreAllOrNone, CanCommit
    <3>. QED
      BY <2>1, <3>1 DEF ReconciliationInv, OrphansAreAllOrNone
  <2>2. CASE f.op = "Create"
    <3>1. orphans[t] = {}
      BY <2>2 DEF ReconciliationInv, TypeInv, HandlersKeepToTheirSteps
    <3>2. f.app \notin apps
      BY <2>2 DEF CanCommit
    <3>3. RowsOf(rows, f.app) = {}
      BY <3>2 DEF ReconciliationInv, RowsAreKeyed, RowsOf
    <3>. QED
      BY <3>1, <3>3 DEF Ids
  <2>. QED
    BY <2>1, <2>2 DEF CommitApplication
<1>4. \A row \in rows : row.id \in orphans[t] <=> row.app = f.app
  BY <1>3 DEF ReconciliationInv, RowsAreKeyed, Ids, RowsOf
<1>. QED
  BY <1>2, <1>4 DEF CommitApplication, RowsOf

\* Committing an application's form keeps the invariant.
LEMMA CommitReconciled ==
    ASSUME ReconciliationInv, TypeInv', NEW t \in Threads,
           Commit(t), CommitApplication(t)
    PROVE  ReconciliationInv'
<1>. DEFINE f == form[t]
            new == NewRows(f, identity)
<1>1. f \in Forms /\ f \in ApplicationForm /\ f.app \in Apps
  BY FormKinds
  DEF ReconciliationInv, TypeInv, HandlersKeepToTheirSteps, Commit,
      CommitApplication, ApplicationForm
<1>2. identity \in Nat /\ Len(Posted(f)) \in Nat
        /\ identity' = identity + Len(Posted(f))
  BY <1>1, PostedType
  DEF CommitApplication, ReconciliationInv, TypeInv, TypeOK
<1>3. /\ \A row \in new : row.app = f.app /\ row.id > identity
                            /\ row.id <= identity'
      /\ \A x, y \in new : x.id = y.id => x = y
      /\ Posted(f) # <<>> => new # {}
      /\ new \subseteq Row
  BY <1>1, <1>2, NewRowsType
<1>4. \A row \in rows : row.id \in Nat /\ row.id <= identity
  BY <1>2 DEF ReconciliationInv, RowsAreKeyed, TypeInv, TypeOK, Row
<1>5. rows' \subseteq rows \cup new /\ apps' = apps \cup {f.app}
  BY DEF CommitApplication
<1>6. \A u \in Threads :
         /\ u # t => pc'[u] = pc[u] /\ form'[u] = form[u]
                       /\ orphans'[u] = orphans[u]
         /\ u = t => pc'[u] = "idle" /\ orphans'[u] = {}
  BY DEF Commit, EndRequest, ReconciliationInv, TypeInv, TypeOK
<1>7. RowsAreKeyed'
  <2>1. \A row \in rows' : row.app \in apps' /\ row.id \in 0..identity'
    BY <1>2, <1>3, <1>4, <1>5 DEF ReconciliationInv, RowsAreKeyed, Row
  <2>2. \A x, y \in rows' : x.id = y.id => x = y
    BY <1>2, <1>3, <1>4, <1>5 DEF ReconciliationInv, RowsAreKeyed
  <2>3. \A u \in Threads : \A id \in orphans'[u] : id <= identity'
    BY <1>2, <1>6 DEF ReconciliationInv, RowsAreKeyed, TypeInv, TypeOK
  <2>. QED
    BY <2>1, <2>2, <2>3 DEF RowsAreKeyed
<1>8. EditsHaveTheirApplication'
  BY <1>5, <1>6 DEF ReconciliationInv, EditsHaveTheirApplication
<1>9. ASSUME NeverEmpty
      PROVE  NoApplicationIsEmpty' /\ OrphansAreAllOrNone' /\ OneFormAtATime'
  <2>1. /\ RowsOf(rows', f.app) = new
        /\ \A app \in Apps \ {f.app} : RowsOf(rows', app) = RowsOf(rows, app)
    BY <1>9, CommittedRows DEF Commit
  <2>2. new # {}
    BY <1>1, <1>3, <1>9 DEF NeverEmpty, CommitApplication
  <2>3. apps \subseteq Apps
    BY DEF ReconciliationInv, TypeInv, TypeOK
  <2>4. NoApplicationIsEmpty'
    BY <1>5, <1>9, <2>1, <2>2, <2>3 DEF ReconciliationInv, NoApplicationIsEmpty
  <2>5. OrphansAreAllOrNone'
    <3>1. SUFFICES
            ASSUME NEW u \in Threads, u # t,
                   pc[u] \in {"roles", "commit"}, form[u].op = "Edit",
                   orphans[u] # {},
                   \/ orphans[u] = Ids(RowsOf(rows, form[u].app))
                   \/ orphans[u] \cap Ids(rows) = {}
            PROVE  \/ orphans[u] = Ids(RowsOf(rows', form[u].app))
                   \/ orphans[u] \cap Ids(rows') = {}
      BY <1>6, <1>9 DEF ReconciliationInv, OrphansAreAllOrNone
    <3>2. form[u].app \in Apps
      BY <2>3, <3>1 DEF ReconciliationInv, EditsHaveTheirApplication
    <3>3. orphans[u] \cap Ids(new) = {}
      BY <1>2, <1>3
      DEF Ids, ReconciliationInv, RowsAreKeyed, TypeInv, TypeOK, Row
    <3>4. CASE orphans[u] \cap Ids(rows) = {}
      BY <1>5, <3>3, <3>4 DEF Ids
    <3>5. CASE /\ orphans[u] = Ids(RowsOf(rows, form[u].app))
               /\ form[u].app # f.app
      BY <2>1, <3>2, <3>5
    <3>6. CASE /\ orphans[u] = Ids(RowsOf(rows, form[u].app))
               /\ form[u].app = f.app
      <4>1. \A row \in rows' : row.id \in orphans[u] => row \in new
        <5>1. \A row \in rows : row.id \in orphans[u] => row.app = f.app
          BY <3>6 DEF ReconciliationInv, RowsAreKeyed, Ids, RowsOf
        <5>. QED
          BY <1>5, <2>1, <5>1 DEF RowsOf
      <4>. QED
        BY <3>3, <4>1 DEF Ids
    <3>. QED
      BY <3>1, <3>4, <3>5, <3>6
  <2>6. OneFormAtATime'
    <3>1. f.op \in {"Create", "Edit"} /\ identity \in 0..identity'
      BY <1>2 DEF CommitApplication
    <3>2. \A app \in apps \ {f.app} :
             \/ app \in InitApps /\ RowsOf(rows', app) = RowsOf(InitRows, app)
             \/ \E g \in Forms : \E last \in 0..identity' :
                   /\ g.op \in {"Create", "Edit"}
                   /\ g.app = app
                   /\ RowsOf(rows', app) = NewRows(g, last)
      <4>1. \A last \in 0..identity : last \in 0..identity'
        BY <1>2
      <4>. QED
        BY <1>9, <2>1, <2>3, <4>1 DEF ReconciliationInv, OneFormAtATime
    <3>. QED
      BY <1>1, <1>5, <2>1, <3>1, <3>2 DEF OneFormAtATime
  <2>. QED
    BY <2>4, <2>5, <2>6
<1>. QED
  BY <1>7, <1>8, <1>9 DEF ReconciliationInv, OneFormAtATime

\* The strengthened invariant holds in every reachable state.
THEOREM ReconciliationHolds == Spec => []ReconciliationInv
<1>1. Init => ReconciliationInv
  <2>1. ASSUME Init
        PROVE  TypeInv
    BY <2>1, InitAssumption
    DEF Init, TypeInv, TypeOK, HandlersKeepToTheirSteps, Step
  <2>2. ASSUME Init
        PROVE  RowsAreKeyed
    BY <2>2, InitAssumption DEF Init, RowsAreKeyed, Row
  <2>. QED
    BY <2>1, <2>2
    DEF Init, ReconciliationInv, EditsHaveTheirApplication, NeverEmpty,
        NoApplicationIsEmpty, OrphansAreAllOrNone, OneFormAtATime
<1>2. ASSUME ReconciliationInv, [Next]_vars, TypeInv'
      PROVE  ReconciliationInv'
  <2>. USE <1>2
  <2>1. ASSUME NEW t \in Threads, Submit(t)
        PROVE  ReconciliationInv'
    <3>1. PICK f \in Forms :
             /\ pc[t] = "idle"
             /\ pc' = [pc EXCEPT ![t] = FirstStep(f)]
             /\ form' = [form EXCEPT ![t] = f]
             /\ UNCHANGED <<apps, rows, identity, status, orphans>>
      BY <2>1 DEF Submit
    <3>2. /\ FirstStep(f) \in {"application", "roles", "roleName"}
          /\ FirstStep(f) = "roles" => f.op = "Create"
      BY FormKinds DEF FirstStep, ApplicationForm, RoleForm
    <3>3. \A u \in Threads :
             pc'[u] \in {"clear", "roles", "commit"} /\ form'[u].op = "Edit"
                 => pc'[u] = pc[u] /\ form'[u] = form[u]
      BY <3>1, <3>2 DEF ReconciliationInv, TypeInv, TypeOK
    <3>4. RowsAreKeyed' /\ EditsHaveTheirApplication'
      BY <3>1, <3>3
      DEF ReconciliationInv, RowsAreKeyed, EditsHaveTheirApplication
    <3>5. OrphansAreAllOrNone => OrphansAreAllOrNone'
      BY <3>1, <3>3 DEF OrphansAreAllOrNone
    <3>. QED
      BY <3>1, <3>4, <3>5, UntouchedRows DEF ReconciliationInv
  <2>2. ASSUME NEW t \in Threads, FindApplication(t)
        PROVE  ReconciliationInv'
    <3>1. CASE form[t].app \in apps /\ Continue(t, "clear")
                 /\ UNCHANGED orphans
      <4>1. RowsAreKeyed' /\ EditsHaveTheirApplication'
        BY <3>1
        DEF Continue, ReconciliationInv, RowsAreKeyed,
            EditsHaveTheirApplication, TypeInv, TypeOK
      <4>2. OrphansAreAllOrNone => OrphansAreAllOrNone'
        BY <3>1 DEF Continue, OrphansAreAllOrNone, ReconciliationInv, TypeInv,
                    TypeOK
      <4>. QED
        BY <3>1, <4>1, <4>2, UntouchedRows DEF ReconciliationInv, Continue
    <3>. QED
      BY <2>2, <3>1, RollbackReconciled DEF FindApplication
  <2>3. ASSUME NEW t \in Threads, ClearRoles(t)
        PROVE  ReconciliationInv'
    <3>1. /\ orphans' = [orphans EXCEPT ![t] = Ids(RowsOf(rows, form[t].app))]
          /\ Continue(t, "roles")
          /\ pc[t] = "clear"
      BY <2>3 DEF ClearRoles
    <3>2. RowsAreKeyed' /\ EditsHaveTheirApplication'
      BY <3>1
      DEF Continue, ReconciliationInv, RowsAreKeyed, Ids, RowsOf,
          EditsHaveTheirApplication, TypeInv, TypeOK
    <3>3. ASSUME NeverEmpty
          PROVE  OrphansAreAllOrNone'
      <4>1. form[t].op = "Edit" /\ form[t].app \in apps
        BY <3>1
        DEF ReconciliationInv, EditsHaveTheirApplication, TypeInv,
            HandlersKeepToTheirSteps
      <4>2. Ids(RowsOf(rows, form[t].app)) # {}
        BY <3>3, <4>1 DEF ReconciliationInv, NoApplicationIsEmpty, Ids
      <4>. QED
        BY <3>1, <3>3, <4>2
        DEF Continue, ReconciliationInv, OrphansAreAllOrNone, TypeInv, TypeOK
    <3>. QED
      BY <3>1, <3>2, <3>3, UntouchedRows DEF ReconciliationInv, Continue
  <2>4. ASSUME NEW t \in Threads, FindRoles(t) \/ RoleNameIsFree(t)
        PROVE  ReconciliationInv'
    <3>1. CASE /\ pc[t] \in {"roles", "roleName"}
               /\ Continue(t, "commit")
               /\ UNCHANGED orphans
      <4>1. \A u \in Threads :
               /\ form'[u] = form[u]
               /\ u # t => pc'[u] = pc[u]
               /\ pc[u] = "roleName" => form[u].op # "Edit"
        BY <3>1
        DEF Continue, ReconciliationInv, TypeInv, TypeOK,
            HandlersKeepToTheirSteps
      <4>2. RowsAreKeyed' /\ EditsHaveTheirApplication'
        BY <3>1, <4>1
        DEF Continue, ReconciliationInv, RowsAreKeyed,
            EditsHaveTheirApplication
      <4>3. OrphansAreAllOrNone => OrphansAreAllOrNone'
        BY <3>1, <4>1 DEF Continue, OrphansAreAllOrNone
      <4>. QED
        BY <3>1, <4>2, <4>3, UntouchedRows DEF ReconciliationInv, Continue
    <3>. QED
      BY <2>4, <3>1, RollbackReconciled DEF FindRoles, RoleNameIsFree
  <2>5. ASSUME NEW t \in Threads, Commit(t)
        PROVE  ReconciliationInv'
    <3>1. CASE CommitRole(t)
      <4>1. \A u \in Threads :
               /\ u # t => pc'[u] = pc[u] /\ form'[u] = form[u]
                             /\ orphans'[u] = orphans[u]
               /\ u = t => pc'[u] = "idle" /\ orphans'[u] = {}
        BY <2>5 DEF Commit, EndRequest, ReconciliationInv, TypeInv, TypeOK
      <4>2. RowsAreKeyed' /\ EditsHaveTheirApplication'
        BY <3>1, <4>1
        DEF CommitRole, ReconciliationInv, RowsAreKeyed,
            EditsHaveTheirApplication
      <4>3. OrphansAreAllOrNone => OrphansAreAllOrNone'
        BY <3>1, <4>1 DEF CommitRole, OrphansAreAllOrNone
      <4>. QED
        BY <3>1, <4>2, <4>3, UntouchedRows DEF ReconciliationInv, CommitRole
    <3>. QED
      BY <2>5, <3>1, CommitReconciled DEF Commit
  <2>6. ASSUME NEW t \in Threads, CommitFails(t) \/ Abort(t)
        PROVE  ReconciliationInv'
    BY <2>6, RollbackReconciled DEF CommitFails, Abort
  <2>7. CASE (\E role \in Roles : RetireRole(role)) \/ UNCHANGED vars
    <3>1. UNCHANGED <<apps, rows, identity, pc, form, orphans>>
      BY <2>7 DEF RetireRole, vars
    <3>. QED
      BY <3>1, UntouchedRows
      DEF ReconciliationInv, RowsAreKeyed, EditsHaveTheirApplication,
          OrphansAreAllOrNone
  <2>. QED
    BY <2>1, <2>2, <2>3, <2>4, <2>5, <2>6, <2>7 DEF Next, Handle
<1>. QED
  BY <1>1, <1>2, TypeCorrect, PTL DEF Spec

\* However edits overlap, an application's roles are those of one form.
THEOREM OneFormHolds == Spec => []OneFormAtATime
<1>1. ReconciliationInv => OneFormAtATime
  BY DEF ReconciliationInv
<1>. QED
  BY <1>1, ReconciliationHolds, PTL


\* A retired name is never given back: what writes a role's status is the commit
\* of RoleController.Create, which the unique index lets through only for a name
\* that was never there, and the other program's retirement.
THEOREM RetiredNamesHold == Spec => RetiredNamesStayTaken
<1>. DEFINE Kept == \A role \in Roles :
                        status[role] = "inactive" => status'[role] = "inactive"
<1>1. ASSUME TypeInv, Next
      PROVE  Kept
  <2>1. ASSUME NEW t \in Threads, Commit(t), CommitRole(t)
        PROVE  Kept
    <3>1. status[form[t].role] = "absent"
      BY <2>1 DEF Commit, CanCommit, CommitRole
    <3>. QED
      BY <1>1, <2>1, <3>1 DEF CommitRole, TypeInv, TypeOK
  <2>2. ASSUME NEW role \in Roles, RetireRole(role)
        PROVE  Kept
    BY <1>1, <2>2 DEF RetireRole, TypeInv, TypeOK
  <2>3. ASSUME NEW t \in Threads,
               \/ Submit(t) \/ FindApplication(t) \/ ClearRoles(t)
               \/ FindRoles(t) \/ RoleNameIsFree(t) \/ CommitFails(t) \/ Abort(t)
        PROVE  Kept
    BY <2>3
    DEF Submit, FindApplication, ClearRoles, FindRoles, RoleNameIsFree,
        CommitFails, Abort, Continue, Rollback
  <2>4. ASSUME NEW t \in Threads, Commit(t), CommitApplication(t)
        PROVE  Kept
    BY <2>4 DEF CommitApplication
  <2>. QED
    BY <1>1, <2>1, <2>2, <2>3, <2>4 DEF Next, Handle, Commit
<1>2. TypeInv /\ [Next]_vars => [Kept]_vars
  BY <1>1
<1>. QED
  BY <1>2, TypeCorrect, PTL DEF Spec, RetiredNamesStayTaken

-----------------------------------------------------------------------------
(* Reconciled roles. *)

\* The rows of one form name a role once, and a level once.
LEMMA NewRowsReconciled ==
    ASSUME NEW f \in Forms, f.op \in {"Create", "Edit"}, NEW last \in Nat,
           NEW x \in NewRows(f, last), NEW y \in NewRows(f, last),
           x.role = y.role \/ (x.level = y.level /\ x.level # NoLevel)
    PROVE  x = y
<1>1. \A i, j \in DOMAIN Posted(f) : Posted(f)[i] = Posted(f)[j] => i = j
  BY FormAssumption DEF IsInjective
<1>2. PICK i \in DOMAIN Posted(f) :
          x = [id |-> last + i, app |-> f.app, role |-> Posted(f)[i],
               level |-> IF i <= Len(f.ordered) THEN i ELSE NoLevel]
  BY DEF NewRows
<1>3. PICK j \in DOMAIN Posted(f) :
          y = [id |-> last + j, app |-> f.app, role |-> Posted(f)[j],
               level |-> IF j <= Len(f.ordered) THEN j ELSE NoLevel]
  BY DEF NewRows
<1>4. i = j
  BY <1>1, <1>2, <1>3
<1>. QED
  BY <1>2, <1>3, <1>4

\* "Now we should have an application with reconciled roles" is true, however
\* many edits overlap, of every application that never is without roles: each has
\* the rows of one form or those it started with, and a form has a role once.
THEOREM ReconciledRolesHold ==
    ASSUME NeverEmpty, ReconciledAtStart
    PROVE  Spec => []RolesAreReconciled
<1>1. ASSUME ReconciliationInv
      PROVE  RolesAreReconciled
  <2>1. SUFFICES ASSUME NEW x \in rows, NEW y \in rows, x.app = y.app,
                        \/ x.role = y.role
                        \/ x.level = y.level /\ x.level # NoLevel
                 PROVE  x = y
    BY DEF RolesAreReconciled
  <2>2. x.app \in apps
    BY <1>1 DEF ReconciliationInv, RowsAreKeyed
  <2>3. x \in RowsOf(rows, x.app) /\ y \in RowsOf(rows, x.app)
    BY <2>1 DEF RowsOf
  <2>4. CASE RowsOf(rows, x.app) = RowsOf(InitRows, x.app)
    BY <2>1, <2>3, <2>4 DEF ReconciledAtStart, RowsOf
  <2>5. CASE \E f \in Forms : \E last \in 0..identity :
                /\ f.op \in {"Create", "Edit"}
                /\ RowsOf(rows, x.app) = NewRows(f, last)
    BY <1>1, <2>1, <2>3, <2>5, NewRowsReconciled
    DEF ReconciliationInv, TypeInv, TypeOK
  <2>. QED
    BY <1>1, <2>2, <2>4, <2>5 DEF ReconciliationInv, OneFormAtATime
<1>. QED
  BY <1>1, ReconciliationHolds, PTL

-----------------------------------------------------------------------------
(* RoleLists is implemented. *)

\* Names are never forgotten, and a thread reaches its commit with names there
\* are.
LEMMA PostedRolesStep ==
    ASSUME TypeInv, PostedRolesExist, [Next]_vars
    PROVE  PostedRolesExist'
<1>. USE DEF TypeInv, TypeOK, HandlersKeepToTheirSteps
<1>1. \A role \in Roles : status[role] # "absent" => status'[role] # "absent"
  BY DEF Next, vars, Submit, Handle, Abort, FindApplication, ClearRoles, FindRoles,
         RoleNameIsFree, Commit, CommitApplication, CommitRole, CommitFails,
         Continue, Rollback, RetireRole
<1>2. SUFFICES ASSUME NEW t \in Threads, pc'[t] = "commit",
                      form'[t].op \in {"Create", "Edit"},
                      NEW i \in DOMAIN Posted(form'[t])
               PROVE  status'[Posted(form'[t])[i]] # "absent"
  BY DEF PostedRolesExist
<1>3. form'[t] = form[t] /\ pc[t] \in {"roles", "commit"}
  <2>1. ASSUME NEW u \in Threads, EndRequest(u)
        PROVE  form'[t] = form[t] /\ pc[t] = "commit"
    BY <1>2, <2>1 DEF EndRequest
  <2>2. ASSUME NEW u \in Threads, NEW next, Continue(u, next),
               \/ next \in {"clear", "roles"}
               \/ next = "commit" /\ pc[u] \in {"roles", "roleName"}
        PROVE  form'[t] = form[t] /\ pc[t] \in {"roles", "commit"}
    BY <1>2, <2>2 DEF Continue
  <2>3. ASSUME NEW u \in Threads, Submit(u)
        PROVE  form'[t] = form[t] /\ pc[t] = "commit"
    <3>1. \A f \in Forms : FirstStep(f) # "commit"
      BY FormKinds DEF FirstStep
    <3>. QED
      BY <1>2, <2>3, <3>1 DEF Submit
  <2>4. CASE UNCHANGED vars \/ \E role \in Roles : RetireRole(role)
    BY <1>2, <2>4 DEF vars, RetireRole
  <2>. QED
    BY <2>1, <2>2, <2>3, <2>4
    DEF Next, Handle, Abort, FindApplication, ClearRoles, FindRoles,
        RoleNameIsFree, Commit, CommitFails, Rollback
<1>4. form[t] \in Forms /\ form[t] \in ApplicationForm
  BY <1>2, <1>3, FormKinds
<1>5. Posted(form[t])[i] \in Roles
  BY <1>2, <1>3, <1>4, PostedType
<1>6. CASE pc[t] = "commit"
  BY <1>1, <1>2, <1>3, <1>5, <1>6 DEF PostedRolesExist
<1>7. CASE pc[t] = "roles"
  <2>1. \A u \in Threads : ~EndRequest(u)
    BY <1>2, <1>7 DEF EndRequest
  <2>2. \A u \in Threads : \A next : Continue(u, next) => u = t /\ next = "commit"
    BY <1>2, <1>7 DEF Continue
  <2>3. pc' # pc /\ \A u \in Threads : ~Submit(u)
    <3>1. \A f \in Forms : FirstStep(f) # "commit"
      BY FormKinds DEF FirstStep
    <3>. QED
      BY <1>2, <1>7, <3>1 DEF Submit
  <2>4. FindRoles(t)
    BY <1>7, <2>1, <2>2, <2>3
    DEF Next, vars, Handle, Abort, FindApplication, ClearRoles, FindRoles,
        RoleNameIsFree, Commit, CommitFails, Rollback, RetireRole
  <2>5. \A k \in DOMAIN Posted(form[t]) : status[Posted(form[t])[k]] = "active"
    BY <1>2, <2>4 DEF FindRoles, Rollback, EndRequest
  <2>. QED
    BY <1>1, <1>2, <1>3, <1>5, <2>5
<1>. QED
  BY <1>3, <1>6, <1>7

LEMMA PostedRolesHold == Spec => []PostedRolesExist
<1>1. Init => PostedRolesExist
  BY DEF Init, PostedRolesExist
<1>. QED
  BY <1>1, PostedRolesStep, TypeCorrect, PTL DEF Spec

\* The rows of a form are a ranking of its roles.
LEMMA NewRowsAreARanking ==
    ASSUME NEW f \in Forms, f.op \in {"Create", "Edit"}, NEW last \in Nat,
           NEW list,
           list = {[role |-> row.role, level |-> row.level] :
                       row \in NewRows(f, last)}
    PROVE  Book!IsRanking(list)
<1>. DEFINE Level(i) == IF i <= Len(f.ordered) THEN i ELSE NoLevel
<1>1. f \in ApplicationForm
  BY FormKinds
<1>2. /\ Len(f.ordered) \in Nat /\ Len(f.ordered) <= Len(Posted(f))
      /\ DOMAIN Posted(f) = 1..Len(Posted(f)) /\ Len(Posted(f)) \in Nat
  BY <1>1, PostedType DEF ApplicationForm, Posted
<1>3. \A e \in list : \E x \in NewRows(f, last) :
         e = [role |-> x.role, level |-> x.level]
  OBVIOUS
<1>4. \A x \in NewRows(f, last) : \E i \in DOMAIN Posted(f) : x.level = Level(i)
  BY DEF NewRows
<1>5. ASSUME NEW i \in DOMAIN Posted(f)
      PROVE  \E d \in list : d.level = Level(i)
  <2>. DEFINE x == [id |-> last + i, app |-> f.app, role |-> Posted(f)[i],
                    level |-> Level(i)]
              d == [role |-> x.role, level |-> x.level]
  <2>1. x \in NewRows(f, last)
    BY DEF NewRows
  <2>2. d \in list
    BY <2>1
  <2>3. d.level = Level(i)
    OBVIOUS
  <2>. QED
    BY <2>2, <2>3
<1>6. \A d, e \in list : d.role = e.role => d = e
  BY <1>3, NewRowsReconciled
<1>7. \A d, e \in list : d.level = e.level => d = e \/ d.level = NoLevel
  BY <1>3, NewRowsReconciled
<1>8. ASSUME NEW e \in list, e.level # NoLevel
      PROVE  /\ e.level > 0
             /\ \A above \in 1..(e.level - 1) : \E d \in list : d.level = above
  <2>1. PICK i \in DOMAIN Posted(f) : e.level = Level(i)
    BY <1>3, <1>4
  <2>2. i \in Nat /\ i >= 1 /\ i <= Len(f.ordered) /\ e.level = i
    BY <1>2, <1>8, <2>1
  <2>3. \A above \in 1..(i - 1) : above \in DOMAIN Posted(f) /\ Level(above) = above
    BY <1>2, <2>2
  <2>. QED
    BY <1>5, <2>2, <2>3
<1>. QED
  BY <1>6, <1>7, <1>8 DEF Book!IsRanking

\* The commit of an application's form is one save.
LEMMA CommitSaves ==
    ASSUME ReconciliationInv, PostedRolesExist, NeverEmpty, NEW t \in Threads,
           Commit(t), CommitApplication(t)
    PROVE  Book!Save(form[t].app)
<1>. DEFINE f == form[t]
<1>1. f \in Forms /\ f \in ApplicationForm /\ f.op \in {"Create", "Edit"}
  BY FormKinds
  DEF Commit, CommitApplication, ReconciliationInv, TypeInv,
      HandlersKeepToTheirSteps
<1>2. /\ RowsOf(rows', f.app) = NewRows(f, identity)
      /\ \A app \in Apps \ {f.app} : RowsOf(rows', app) = RowsOf(rows, app)
  BY CommittedRows DEF Commit
<1>3. apps' = apps \cup {f.app} /\ status' = status /\ apps \subseteq Apps
  BY DEF CommitApplication, ReconciliationInv, TypeInv, TypeOK
<1>4. Book!IsRanking(ListIn(rows', f.app))
  BY <1>1, <1>2, NewRowsAreARanking
  DEF ListIn, ReconciliationInv, TypeInv, TypeOK
<1>5. \A e \in ListIn(rows', f.app) : status[e.role] # "absent"
  <2>1. \A x \in NewRows(f, identity) : \E i \in DOMAIN Posted(f) :
            x.role = Posted(f)[i]
    BY DEF NewRows
  <2>. QED
    BY <1>1, <1>2, <2>1 DEF ListIn, PostedRolesExist, Commit
<1>6. \A app \in apps \ {f.app} : ListIn(rows', app) = ListIn(rows, app)
  BY <1>2, <1>3 DEF ListIn
<1>. QED
  BY <1>3, <1>4, <1>5, <1>6 DEF Book!Save

LEMMA BookStep ==
    ASSUME ReconciliationInv, PostedRolesExist, NeverEmpty, [Next]_vars
    PROVE  [Book!Next]_(Book!book)
<1>. USE DEF Book!Next, Book!book
<1>1. ASSUME NEW t \in Threads, Commit(t), CommitApplication(t)
      PROVE  Book!Next
  <2>1. form[t].app \in Apps
    BY <1>1, FormKinds
    DEF Commit, CommitApplication, ReconciliationInv, TypeInv,
        HandlersKeepToTheirSteps, ApplicationForm
  <2>. QED
    BY <1>1, <2>1, CommitSaves
<1>2. ASSUME NEW t \in Threads, Commit(t), CommitRole(t)
      PROVE  Book!Next
  <2>1. form[t].role \in Roles /\ status[form[t].role] = "absent"
    BY <1>2, FormKinds
    DEF Commit, CommitRole, CanCommit, ReconciliationInv, TypeInv,
        HandlersKeepToTheirSteps, RoleForm
  <2>2. Book!AddName(form[t].role)
    BY <1>2, <2>1 DEF CommitRole, Book!AddName
  <2>. QED
    BY <2>1, <2>2
<1>3. ASSUME NEW role \in Roles, RetireRole(role)
      PROVE  Book!Next
  BY <1>3 DEF RetireRole, Book!RetireName
<1>4. ASSUME UNCHANGED <<apps, rows, status>>
      PROVE  UNCHANGED Book!book
  BY <1>4 DEF ListIn
<1>. QED
  BY <1>1, <1>2, <1>3, <1>4
  DEF Next, vars, Submit, Handle, Abort, FindApplication, ClearRoles, FindRoles,
      RoleNameIsFree, Commit, CommitFails, Continue, Rollback

\* For any number of threads, applications, roles and forms, what the handlers do
\* to applications that are never without roles is to replace one whole list at a
\* time by a ranking, of names there are.
THEOREM ListsImplemented ==
    ASSUME NeverEmpty
    PROVE  Spec => ImplementsLists
<1>1. Init => Book!Init
  <2>1. SUFFICES ASSUME Init
                 PROVE  Book!TypeOK
    BY DEF Book!Init
  <2>2. \A app \in apps : ListIn(rows, app) \subseteq Book!Entry
    BY <2>1, InitAssumption DEF Init, ListIn, RowsOf, Row, Book!Entry
  <2>. QED
    BY <2>1, <2>2, InitAssumption DEF Init, Status, Book!TypeOK
<1>. QED
  BY <1>1, BookStep, ReconciliationHolds, PostedRolesHold, PTL
  DEF Spec, ImplementsLists, Book!Spec

=============================================================================
