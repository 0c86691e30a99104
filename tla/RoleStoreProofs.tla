--------------------------- MODULE RoleStoreProofs ---------------------------
(***************************************************************************)
(* Proofs about RoleStore: which rows an id still means between two        *)
(* statements, that history stays, that a removal takes nothing but what   *)
(* it names, and what the cache can be wrong about; for any number of      *)
(* threads, users, roles and rows.                                         *)
(***************************************************************************)
EXTENDS RoleStoreLedger, TLAPS

\* What a call asks for, by its op.
LEMMA CallKinds ==
    ASSUME NEW c \in Calls
    PROVE  /\ c.op \in {"insertUserInRole", "deleteUserFromRole"} =>
                 c.user \in Users /\ c.role \in Roles
           /\ c.op = "AddPermission" => c.user \in Users /\ c.role \in Known
           /\ c.op = "RemovePermission" => c.id \in Ids
           /\ c.op = "DeleteUser" => c.user \in Users
           /\ c.op \in {"insertUserInRole", "deleteUserFromRole", "AddPermission",
                        "RemovePermission", "DeleteUser"}
BY RoleStoreAssumption DEF Procedure, AdminRequest

\* A soft deletion changes the flag and nothing else.
LEMMA SoftDeletedRow ==
    ASSUME NEW row \in Row
    PROVE  /\ SoftDeleted(row) \in Row
           /\ SoftDeleted(row).id = row.id
           /\ SoftDeleted(row).user = row.user
           /\ SoftDeleted(row).role = row.role
           /\ SoftDeleted(row).inactive = TRUE
           /\ row.inactive => SoftDeleted(row) = row
BY DEF SoftDeleted, Row

\* What the update makes of one row.
Updated(t, row) == IF row.id \in IdsOf(found[t]) THEN SoftDeleted(row) ELSE row

LEMMA UpdateRows ==
    ASSUME NEW t \in Threads, Update(t)
    PROVE  rows' = {Updated(t, row) : row \in rows}
BY DEF Update, Updated, SoftDeleted

LEMMA UpdatedRow ==
    ASSUME NEW t \in Threads, NEW row \in Row
    PROVE  /\ Updated(t, row) \in Row
           /\ Updated(t, row).id = row.id
           /\ Updated(t, row) = row \/ Updated(t, row) = SoftDeleted(row)
           /\ row.inactive => Updated(t, row) = row
BY SoftDeletedRow DEF Updated

-----------------------------------------------------------------------------
(* Type correctness. *)

\* A call that ends leaves every other thread where it is.
LEMMA EndType ==
    ASSUME TypeInv, NEW t \in Threads, End(t),
           rows' \subseteq Row, users' \subseteq Users, given' \subseteq Ids,
           cached' \in [Users -> {NoResult} \cup SUBSET Roles]
    PROVE  TypeInv'
BY DEF TypeInv, TypeOK, CallsKeepToTheirSteps, End

\* A new row is one, whatever its role is known as.
LEMMA NewRowType ==
    ASSUME TypeInv, NEW user \in Users, NEW role \in Known \cup {NoRole},
           NewRow(user, role)
    PROVE  rows' \subseteq Row /\ given' \subseteq Ids
<1>1. PICK id \in Ids \ given :
          /\ rows' = rows \cup
                 {[id |-> id, user |-> user, role |-> role, inactive |-> FALSE]}
          /\ given' = given \cup {id}
  BY DEF NewRow
<1>2. [id |-> id, user |-> user, role |-> role, inactive |-> FALSE] \in Row
  BY DEF Row
<1>. QED
  BY <1>1, <1>2 DEF TypeInv, TypeOK

LEMMA InsertType ==
    ASSUME TypeInv, NEW t \in Threads, InsertUserInRole(t)
    PROVE  TypeInv'
<1>1. call[t] \in Calls /\ call[t].op = "insertUserInRole"
  BY DEF InsertUserInRole, TypeInv, CallsKeepToTheirSteps
<1>2. rows' \subseteq Row /\ given' \subseteq Ids /\ users' \subseteq Users
  <2>1. CASE UNCHANGED tables
    BY <2>1 DEF tables, TypeInv, TypeOK
  <2>2. CASE ~UNCHANGED tables
    <3>1. PICK role \in Known \cup {NoRole} : NewRow(call[t].user, role)
      BY <2>2 DEF InsertUserInRole
    <3>2. call[t].user \in Users
      BY <1>1, CallKinds
    <3>3. users' = users
      BY <2>2 DEF InsertUserInRole
    <3>. QED
      BY <3>1, <3>2, <3>3, NewRowType DEF TypeInv, TypeOK
  <2>. QED
    BY <2>1, <2>2
<1>. QED
  BY <1>2, EndType DEF InsertUserInRole, TypeInv, TypeOK

LEMMA QueryType ==
    ASSUME TypeInv, NEW t \in Threads,
           FindPermission(t) \/ CheckPermission(t) \/ LoadPermission(t) \/ LoadUser(t)
    PROVE  TypeInv'
<1>. USE DEF TypeInv, TypeOK, CallsKeepToTheirSteps
<1>1. CASE FindPermission(t)
  BY <1>1 DEF FindPermission, RowsOf, tables
<1>2. ASSUME NEW loaded \in SUBSET Row, LoadRows(t, loaded), pc[t] = "load"
      PROVE  TypeInv'
  BY <1>2 DEF LoadRows, tables
<1>3. ASSUME LoadNothing(t)
      PROVE  TypeInv'
  BY <1>3, EndType DEF LoadNothing, tables
<1>4. Active(rows) \subseteq Row
  BY DEF Active
<1>5. CASE CheckPermission(t)
  BY <1>2, <1>3, <1>5 DEF CheckPermission
<1>6. CASE LoadPermission(t)
  <2>1. {row \in Active(rows) : row.id = call[t].id} \in SUBSET Row
    BY <1>4
  <2>. QED
    BY <1>2, <1>3, <1>6, <2>1 DEF LoadPermission
<1>7. CASE LoadUser(t)
  <2>1. {row \in Active(rows) : row.user = call[t].user} \in SUBSET Row
    BY <1>4
  <2>. QED
    BY <1>2, <1>3, <1>7, <2>1 DEF LoadUser
<1>. QED
  BY <1>1, <1>5, <1>6, <1>7

LEMMA CommitType ==
    ASSUME TypeInv, NEW t \in Threads,
           CommitAdd(t) \/ CommitDelete(t) \/ CommitFails(t)
    PROVE  TypeInv'
<1>1. cached' \in [Users -> {NoResult} \cup SUBSET Roles]
  BY DEF CommitAdd, CommitDelete, CommitFails, Invalidate
<1>2. CASE CommitAdd(t)
  <2>1. call[t] \in Calls /\ call[t].op = "AddPermission"
    BY <1>2 DEF CommitAdd, TypeInv, CallsKeepToTheirSteps
  <2>2. rows' \subseteq Row /\ given' \subseteq Ids
    BY <1>2, <2>1, CallKinds, NewRowType DEF CommitAdd
  <2>. QED
    BY <1>1, <1>2, <2>2, EndType DEF CommitAdd, TypeInv, TypeOK
<1>3. CASE CommitDelete(t)
  BY <1>1, <1>3, EndType DEF CommitDelete, TypeInv, TypeOK
<1>4. CASE CommitFails(t)
  BY <1>1, <1>4, EndType DEF CommitFails, tables, TypeInv, TypeOK
<1>. QED
  BY <1>2, <1>3, <1>4

LEMMA TypeStep ==
    ASSUME TypeInv, [Next]_vars
    PROVE  TypeInv'
<1>1. CASE UNCHANGED vars
  BY <1>1 DEF vars, TypeInv, TypeOK, CallsKeepToTheirSteps
<1>2. ASSUME NEW t \in Threads, Submit(t)
      PROVE  TypeInv'
  <2>1. PICK c \in Calls :
            pc' = [pc EXCEPT ![t] = FirstStep(c)] /\ call' = [call EXCEPT ![t] = c]
    BY <1>2 DEF Submit
  <2>2. /\ FirstStep(c) \in {"insert", "find", "load"}
        /\ FirstStep(c) = "insert" => c.op = "insertUserInRole"
        /\ FirstStep(c) = "find" => c.op = "deleteUserFromRole"
        /\ FirstStep(c) = "load" =>
              c.op \in {"AddPermission", "RemovePermission", "DeleteUser"}
    BY CallKinds DEF FirstStep
  <2>3. pc[t] = "idle" /\ UNCHANGED <<tables, cached, found>>
    BY <1>2 DEF Submit
  <2>. QED
    BY <2>1, <2>2, <2>3 DEF tables, TypeInv, TypeOK, CallsKeepToTheirSteps
<1>3. ASSUME NEW t \in Threads, Update(t)
      PROVE  TypeInv'
  <2>1. rows' \subseteq Row
    BY <1>3, UpdateRows, UpdatedRow DEF TypeInv, TypeOK
  <2>. QED
    BY <1>3, <2>1, EndType DEF Update, TypeInv, TypeOK
<1>4. ASSUME NEW t \in Threads, Handle(t)
      PROVE  TypeInv'
  BY <1>3, <1>4, InsertType, QueryType, CommitType DEF Handle
<1>5. ASSUME NEW t \in Threads, Abort(t)
      PROVE  TypeInv'
  BY <1>5, EndType DEF Abort, tables, TypeInv, TypeOK
<1>6. ASSUME NEW u \in Users, GetManagementRoles(u)
      PROVE  TypeInv'
  <2>1. {row.role : row \in {r \in Active(rows) : r.user = u /\ r.role \in ManageRoles}}
            \subseteq Roles
    BY RoleStoreAssumption
  <2>. QED
    BY <1>6, <2>1
       DEF GetManagementRoles, tables, TypeInv, TypeOK, CallsKeepToTheirSteps
<1>. QED
  BY <1>1, <1>2, <1>4, <1>5, <1>6 DEF Next

\* Tables, cache and sessions keep their shape, and every thread is at a step of
\* the call it handles.
THEOREM TypeCorrect == Spec => []TypeInv
<1>1. Init => TypeInv
  BY RoleStoreAssumption DEF Init, TypeInv, TypeOK, CallsKeepToTheirSteps, IdsOf, Row
<1>. QED
  BY <1>1, TypeStep, PTL DEF Spec

-----------------------------------------------------------------------------
(* Which rows an id means.                                                  *)

\* A new row has an id of its own.
LEMMA NewRowIsNew ==
    ASSUME RoleStoreInv, NEW user, NEW role, NewRow(user, role)
    PROVE  /\ rows \subseteq rows' /\ given \subseteq given'
           /\ IdsOf(rows') \subseteq given'
           /\ \A row \in rows' : row \in rows \/ row.id \notin given
           /\ \A x, y \in rows' : x.id = y.id => x = y
<1>1. PICK id \in Ids \ given :
          /\ rows' = rows \cup
                 {[id |-> id, user |-> user, role |-> role, inactive |-> FALSE]}
          /\ given' = given \cup {id}
  BY DEF NewRow
<1>. DEFINE new == [id |-> id, user |-> user, role |-> role, inactive |-> FALSE]
<1>2. rows' = rows \cup {new} /\ given' = given \cup {id} /\ new.id = id
  BY <1>1
<1>3. \A row \in rows : row.id \in given
  BY DEF RoleStoreInv, FoundRowsKeepTheirIds, IdsOf
<1>. HIDE DEF new
<1>4. \A row \in rows' : row \in rows \/ row.id \notin given
  BY <1>2
<1>5. IdsOf(rows') \subseteq given'
  BY <1>2, <1>3 DEF IdsOf
<1>6. ASSUME NEW x \in rows', NEW y \in rows', x.id = y.id
      PROVE  x = y
  BY <1>1, <1>2, <1>3, <1>6 DEF RoleStoreInv, FoundRowsKeepTheirIds
<1>. QED
  BY <1>2, <1>4, <1>5, <1>6

\* No step changes more of the table than one of these four.
Effect ==
    \/ UNCHANGED <<rows, given>>
    \/ \E user, role : NewRow(user, role)
    \/ \E t \in Threads : Update(t)
    \/ \E t \in Threads : CommitDelete(t)

LEMMA StepEffect ==
    ASSUME [Next]_vars
    PROVE  Effect
BY DEF Next, vars, tables, Submit, Handle, Abort, GetManagementRoles, Effect,
       InsertUserInRole, FindPermission, CheckPermission, LoadPermission,
       LoadUser, LoadNothing, LoadRows, CommitAdd, CommitFails

\* What a step leaves of a row: the row, or the row made inactive.
LEMMA RowsKeepTheirIds ==
    ASSUME RoleStoreInv, [Next]_vars
    PROVE  /\ given \subseteq given'
           /\ IdsOf(rows') \subseteq given'
           /\ \A x, y \in rows' : x.id = y.id => x = y
           /\ \A row \in rows' :
                 \/ row.id \notin given
                 \/ \E old \in rows :
                       old.id = row.id /\ (row = old \/ row = SoftDeleted(old))
<1>. USE DEF RoleStoreInv, FoundRowsKeepTheirIds
<1>1. Effect
  BY StepEffect
<1>2. CASE UNCHANGED <<rows, given>>
  BY <1>2
<1>3. CASE \E user, role : NewRow(user, role)
  BY <1>3, NewRowIsNew
<1>4. ASSUME NEW t \in Threads, Update(t)
      PROVE  /\ \A row \in rows' : \E old \in rows :
                    old.id = row.id /\ row = Updated(t, old)
             /\ given' = given
  <2>1. \A old \in rows : Updated(t, old).id = old.id
    BY UpdatedRow DEF TypeInv, TypeOK
  <2>2. rows' = {Updated(t, old) : old \in rows}
    BY <1>4, UpdateRows
  <2>3. given' = given
    BY <1>4 DEF Update
  <2>. QED
    BY <2>1, <2>2, <2>3
<1>5. CASE \E t \in Threads : Update(t)
  <2>1. PICK t \in Threads : Update(t)
    BY <1>5
  <2>2. \A old \in rows : Updated(t, old) = old \/ Updated(t, old) = SoftDeleted(old)
    BY UpdatedRow DEF TypeInv, TypeOK
  <2>. QED
    BY <1>4, <2>1, <2>2 DEF IdsOf
<1>6. CASE \E t \in Threads : CommitDelete(t)
  BY <1>6 DEF CommitDelete, IdsOf
<1>. QED
  BY <1>1, <1>2, <1>3, <1>5, <1>6 DEF Effect

\* Rows an administrator's request loads to delete are those it names.
OfTheCall(t, loaded) ==
    \A row \in loaded :
        /\ call[t].op = "RemovePermission" => row.id = call[t].id
        /\ call[t].op = "DeleteUser" => row.user = call[t].user

\* A query's thread is the only one whose found rows change, and it finds rows
\* that are there.
LEMMA WhatIsFound ==
    ASSUME RoleStoreInv, [Next]_vars, NEW t \in Threads, NEW old \in found'[t]
    PROVE  \/ /\ old \in found[t]
              /\ pc'[t] = pc[t] /\ call'[t] = call[t]
           \/ /\ old \in rows /\ rows' = rows /\ given' = given
              /\ pc'[t] = "commit" => ~old.inactive
              /\ pc'[t] = "update" =>
                    old.user = call'[t].user /\ old.role = call'[t].role
              /\ pc'[t] = "commit" /\ call'[t].op = "RemovePermission" =>
                    old.id = call'[t].id
              /\ pc'[t] = "commit" /\ call'[t].op = "DeleteUser" =>
                    old.user = call'[t].user
<1>. USE DEF RoleStoreInv, TypeInv, TypeOK, CallsKeepToTheirSteps
<1>1. ASSUME NEW s \in Threads, End(s)
      PROVE  old \in found[t] /\ pc'[t] = pc[t] /\ call'[t] = call[t]
  BY <1>1 DEF End
<1>2. ASSUME NEW s \in Threads, NEW loaded, LoadRows(s, loaded), pc[s] = "load",
             loaded \subseteq Active(rows), OfTheCall(s, loaded)
      PROVE  \/ old \in found[t] /\ pc'[t] = pc[t] /\ call'[t] = call[t]
             \/ /\ old \in rows /\ rows' = rows /\ given' = given
                /\ pc'[t] = "commit" /\ ~old.inactive
                /\ call'[t].op = "RemovePermission" => old.id = call'[t].id
                /\ call'[t].op = "DeleteUser" => old.user = call'[t].user
  BY <1>2 DEF LoadRows, OfTheCall, Active, tables
<1>3. CASE UNCHANGED vars
  BY <1>3 DEF vars
<1>4. ASSUME NEW s \in Threads, Submit(s)
      PROVE  old \in found[t] /\ pc'[t] = pc[t] /\ call'[t] = call[t]
  BY <1>4 DEF Submit
<1>5. ASSUME NEW s \in Threads, FindPermission(s)
      PROVE  \/ old \in found[t] /\ pc'[t] = pc[t] /\ call'[t] = call[t]
             \/ /\ old \in rows /\ rows' = rows /\ given' = given
                /\ pc'[t] = "update"
                /\ old.user = call'[t].user /\ old.role = call'[t].role
  BY <1>5 DEF FindPermission, RowsOf, tables
<1>6. ASSUME NEW s \in Threads,
             \/ InsertUserInRole(s) \/ Update(s) \/ CommitAdd(s)
             \/ CommitDelete(s) \/ CommitFails(s) \/ Abort(s)
      PROVE  End(s)
  BY <1>6 DEF InsertUserInRole, Update, CommitAdd, CommitDelete, CommitFails, Abort
<1>7. ASSUME NEW s \in Threads, CheckPermission(s) \/ LoadPermission(s) \/ LoadUser(s)
      PROVE  \/ End(s)
             \/ \E loaded : LoadRows(s, loaded) /\ pc[s] = "load"
                            /\ loaded \subseteq Active(rows)
                            /\ OfTheCall(s, loaded)
  <2>1. CASE CheckPermission(s)
    <3>1. {} \subseteq Active(rows) /\ OfTheCall(s, {})
      BY DEF OfTheCall
    <3>. QED
      BY <2>1, <3>1 DEF CheckPermission, LoadNothing
  <2>2. CASE LoadPermission(s)
    <3>. DEFINE loaded == {row \in Active(rows) : row.id = call[s].id}
    <3>1. loaded \subseteq Active(rows) /\ OfTheCall(s, loaded)
      BY <2>2 DEF LoadPermission, OfTheCall
    <3>. QED
      BY <2>2, <3>1 DEF LoadPermission, LoadNothing
  <2>3. CASE LoadUser(s)
    <3>. DEFINE loaded == {row \in Active(rows) : row.user = call[s].user}
    <3>1. loaded \subseteq Active(rows) /\ OfTheCall(s, loaded)
      BY <2>3 DEF LoadUser, OfTheCall
    <3>. QED
      BY <2>3, <3>1 DEF LoadUser, LoadNothing
  <2>. QED
    BY <1>7, <2>1, <2>2, <2>3
<1>8. CASE \E u \in Users : GetManagementRoles(u)
  BY <1>8 DEF GetManagementRoles
<1>. QED
  BY <1>1, <1>2, <1>3, <1>4, <1>5, <1>6, <1>7, <1>8 DEF Next, Handle

LEMMA RoleStoreStep ==
    ASSUME RoleStoreInv, [Next]_vars
    PROVE  RoleStoreInv'
<1>1. TypeInv'
  BY TypeStep DEF RoleStoreInv
<1>2. ASSUME NEW t \in Threads, NEW old \in found'[t]
      PROVE  /\ old.id \in given'
             /\ \A row \in rows' :
                   row.id = old.id => row = old \/ row = SoftDeleted(old)
             /\ pc'[t] = "commit" => ~old.inactive
             /\ pc'[t] = "update" =>
                   old.user = call'[t].user /\ old.role = call'[t].role
             /\ pc'[t] = "commit" /\ call'[t].op = "RemovePermission" =>
                   old.id = call'[t].id
             /\ pc'[t] = "commit" /\ call'[t].op = "DeleteUser" =>
                   old.user = call'[t].user
  <2>1. CASE old \in found[t] /\ pc'[t] = pc[t] /\ call'[t] = call[t]
    <3>1. old \in Row
      BY <2>1 DEF RoleStoreInv, TypeInv, TypeOK
    <3>2. /\ old.id \in given
          /\ \A row \in rows :
                row.id = old.id => row = old \/ row = SoftDeleted(old)
      BY <2>1 DEF RoleStoreInv, FoundRowsKeepTheirIds
    <3>3. SoftDeleted(SoftDeleted(old)) = SoftDeleted(old)
      BY <3>1, SoftDeletedRow
    <3>4. \A row \in rows' : row.id = old.id => row = old \/ row = SoftDeleted(old)
      BY <3>2, <3>3, RowsKeepTheirIds
    <3>. QED
      BY <2>1, <3>2, <3>4, RowsKeepTheirIds DEF RoleStoreInv, FoundRowsKeepTheirIds
  <2>2. CASE old \in rows /\ rows' = rows /\ given' = given
    BY <2>2, <1>2, WhatIsFound DEF RoleStoreInv, FoundRowsKeepTheirIds, IdsOf
  <2>. QED
    BY <2>1, <2>2, <1>2, WhatIsFound
<1>3. FoundRowsKeepTheirIds'
  BY <1>2, RowsKeepTheirIds DEF FoundRowsKeepTheirIds
<1>. QED
  BY <1>1, <1>3 DEF RoleStoreInv

\* Between two statements of a thread an id it holds keeps its meaning: the row it
\* was found as, that row soft-deleted, or nothing.
THEOREM RoleStoreHolds == Spec => []RoleStoreInv
<1>1. Init => RoleStoreInv
  BY RoleStoreAssumption
     DEF Init, RoleStoreInv, FoundRowsKeepTheirIds, TypeInv, TypeOK,
         CallsKeepToTheirSteps, IdsOf, Row
<1>. QED
  BY <1>1, RoleStoreStep, PTL DEF Spec

-----------------------------------------------------------------------------
(* History, removals, and the cache.                                        *)

LEMMA HistoryStep ==
    ASSUME RoleStoreInv, [Next]_vars, NEW row \in rows, row.inactive
    PROVE  /\ [row EXCEPT !.inactive = FALSE] \notin rows'
           /\ \/ row \in rows'
              \/ \E t \in Threads : \E old \in found[t] :
                    pc[t] = "commit" /\ ~old.inactive /\ row = SoftDeleted(old)
<1>. DEFINE alive == [row EXCEPT !.inactive = FALSE]
<1>1. rows \subseteq Row /\ row \in Row
  BY DEF RoleStoreInv, TypeInv, TypeOK
<1>2. alive.id = row.id /\ alive.inactive = FALSE
  BY <1>1 DEF Row
<1>3. row.id \in given /\ \A other \in rows : other.id = row.id => other = row
  BY DEF RoleStoreInv, FoundRowsKeepTheirIds, IdsOf
<1>. HIDE DEF alive
<1>4. alive \notin rows'
  <2>1. SUFFICES ASSUME alive \in rows'
                 PROVE  FALSE
    OBVIOUS
  <2>2. PICK old \in rows :
            old.id = alive.id /\ (alive = old \/ alive = SoftDeleted(old))
    BY <2>1, <1>2, <1>3, RowsKeepTheirIds
  <2>3. old = row
    BY <2>2, <1>2, <1>3
  <2>4. alive # row
    BY <1>2
  <2>5. SoftDeleted(row).inactive = TRUE
    BY <1>1, SoftDeletedRow
  <2>. QED
    BY <2>2, <2>3, <2>4, <2>5, <1>2
<1>5. \/ row \in rows'
      \/ \E t \in Threads : \E old \in found[t] :
            pc[t] = "commit" /\ ~old.inactive /\ row = SoftDeleted(old)
  <2>1. CASE UNCHANGED <<rows, given>> \/ \E user, role : NewRow(user, role)
    BY <2>1, NewRowIsNew
  <2>2. ASSUME NEW t \in Threads, Update(t)
        PROVE  row \in rows'
    BY <2>2, <1>1, UpdateRows, UpdatedRow
  <2>3. ASSUME NEW t \in Threads, CommitDelete(t), row \notin rows'
        PROVE  \E old \in found[t] :
                  pc[t] = "commit" /\ ~old.inactive /\ row = SoftDeleted(old)
    <3>1. pc[t] = "commit" /\ row.id \in IdsOf(found[t])
      BY <2>3 DEF CommitDelete
    <3>2. PICK old \in found[t] : old.id = row.id
      BY <3>1 DEF IdsOf
    <3>. QED
      BY <3>1, <3>2 DEF RoleStoreInv, FoundRowsKeepTheirIds
  <2>. QED
    BY <2>1, <2>2, <2>3, StepEffect DEF Effect
<1>. QED
  BY <1>4, <1>5 DEF alive

\* Soft-deleted rows stay, and stay soft-deleted, whatever overlaps.
THEOREM HistoryStaysHolds == Spec => HistoryStays
<1>1. RoleStoreInv /\ [Next]_vars =>
          [\A row \in rows :
              row.inactive =>
                  /\ [row EXCEPT !.inactive = FALSE] \notin rows'
                  /\ \/ row \in rows'
                     \/ \E t \in Threads : \E old \in found[t] :
                           pc[t] = "commit" /\ ~old.inactive /\ row = SoftDeleted(old)
          ]_vars
  BY HistoryStep
<1>. QED
  BY <1>1, RoleStoreHolds, PTL DEF Spec, HistoryStays

LEMMA RemovalStep ==
    ASSUME RoleStoreInv, [Next]_vars,
           NEW row \in rows, ~row.inactive, SoftDeleted(row) \in rows'
    PROVE  \E t \in Threads :
              /\ pc[t] = "update"
              /\ row.user = call[t].user /\ row.role = call[t].role
<1>1. rows \subseteq Row /\ row \in Row
  BY DEF RoleStoreInv, TypeInv, TypeOK
<1>2. row.id \in given /\ \A other \in rows : other.id = row.id => other = row
  BY DEF RoleStoreInv, FoundRowsKeepTheirIds, IdsOf
<1>3. SoftDeleted(row).id = row.id /\ SoftDeleted(row) \notin rows
  BY <1>1, <1>2, SoftDeletedRow
<1>4. PICK t \in Threads : Update(t)
  <2>1. ~UNCHANGED <<rows, given>>
    BY <1>3
  <2>2. ~\E user, role : NewRow(user, role)
    BY <1>2, <1>3, NewRowIsNew
  <2>3. ~\E t \in Threads : CommitDelete(t)
    BY <1>3 DEF CommitDelete
  <2>. QED
    BY <2>1, <2>2, <2>3, StepEffect DEF Effect
<1>5. PICK other \in rows : SoftDeleted(row) = Updated(t, other)
  BY <1>4, UpdateRows
<1>6. other = row
  BY <1>1, <1>2, <1>3, <1>5, UpdatedRow
<1>7. row.id \in IdsOf(found[t])
  BY <1>3, <1>5, <1>6 DEF Updated
<1>8. PICK old \in found[t] : old.id = row.id
  BY <1>7 DEF IdsOf
<1>9. row.user = old.user /\ row.role = old.role
  <2>1. old \in Row /\ (row = old \/ row = SoftDeleted(old))
    BY <1>8 DEF RoleStoreInv, FoundRowsKeepTheirIds, TypeInv, TypeOK
  <2>. QED
    BY <2>1, SoftDeletedRow
<1>. QED
  BY <1>4, <1>8, <1>9 DEF Update, RoleStoreInv, FoundRowsKeepTheirIds

\* A removal takes away the role it names from the user it names, although it
\* updates by an id it read in an earlier statement.
THEOREM RemovalsHitTheirTargetHolds == Spec => RemovalsHitTheirTarget
<1>1. RoleStoreInv /\ [Next]_vars =>
          [\A row \in rows :
              ~row.inactive /\ SoftDeleted(row) \in rows' =>
                  \E t \in Threads :
                      /\ pc[t] = "update"
                      /\ row.user = call[t].user /\ row.role = call[t].role]_vars
  BY RemovalStep
<1>. QED
  BY <1>1, RoleStoreHolds, PTL DEF Spec, RemovalsHitTheirTarget

LEMMA StaleRightsStep ==
    ASSUME RoleStoreInv, StaleRightsWereSoftDeleted, [Next]_vars
    PROVE  StaleRightsWereSoftDeleted'
<1>1. SUFFICES ASSUME NEW u \in Users, cached'[u] # NoResult, NEW role \in cached'[u]
               PROVE  \E row \in rows' : row.user = u /\ row.role = role
  BY DEF StaleRightsWereSoftDeleted, RowsOf
<1>2. rows \subseteq Row /\ cached \in [Users -> {NoResult} \cup SUBSET Roles]
  BY DEF RoleStoreInv, TypeInv, TypeOK
<1>3. CASE cached'[u] = cached[u]
  <2>1. PICK row \in rows : row.user = u /\ row.role = role
    BY <1>1, <1>3 DEF StaleRightsWereSoftDeleted, RowsOf
  <2>2. CASE UNCHANGED <<rows, given>> \/ \E user, r : NewRow(user, r)
    BY <2>1, <2>2, NewRowIsNew
  <2>3. ASSUME NEW t \in Threads, Update(t)
        PROVE  \E other \in rows' : other.user = u /\ other.role = role
    <3>1. Updated(t, row) \in rows'
      BY <2>3, UpdateRows
    <3>2. row \in Row
      BY <1>2, <2>1
    <3>3. Updated(t, row).user = row.user /\ Updated(t, row).role = row.role
      BY <3>2, SoftDeletedRow DEF Updated
    <3>. QED
      BY <3>1, <3>3, <2>1
  <2>4. ASSUME NEW t \in Threads, CommitDelete(t)
        PROVE  FALSE
    BY <2>4, <1>1 DEF CommitDelete, Invalidate
  <2>. QED
    BY <2>2, <2>3, <2>4, StepEffect DEF Effect
<1>4. CASE cached'[u] # cached[u]
  <2>1. PICK v \in Users : GetManagementRoles(v)
    BY <1>1, <1>4
       DEF Next, vars, Submit, Handle, Abort, InsertUserInRole, FindPermission,
           Update, CheckPermission, LoadPermission, LoadUser, LoadNothing,
           LoadRows, CommitAdd, CommitDelete, CommitFails, Invalidate
  <2>2. u = v
    BY <2>1, <1>2, <1>4 DEF GetManagementRoles
  <2>3. role \in {row.role : row \in {r \in Active(rows) :
                                        r.user = u /\ r.role \in ManageRoles}}
    BY <2>1, <2>2, <1>1, <1>2 DEF GetManagementRoles
  <2>4. rows' = rows
    BY <2>1 DEF GetManagementRoles, tables
  <2>. QED
    BY <2>3, <2>4 DEF Active
<1>. QED
  BY <1>3, <1>4

\* What the cache grants and the table does not, another program took away.
THEOREM StaleRightsHold == Spec => []StaleRightsWereSoftDeleted
<1>1. Init => StaleRightsWereSoftDeleted
  BY DEF Init, StaleRightsWereSoftDeleted
<1>2. RoleStoreInv /\ StaleRightsWereSoftDeleted /\ [Next]_vars
          => StaleRightsWereSoftDeleted'
  BY StaleRightsStep
<1>. QED
  BY <1>1, <1>2, RoleStoreHolds, PTL DEF Spec
-----------------------------------------------------------------------------
(* The ledger of rights.                                                    *)

\* Rows a reader of rights tells apart from nothing are of users and known roles.
LEMMA ActiveRows ==
    ASSUME NEW rs \in SUBSET Row, NEW row \in Active(rs)
    PROVE  /\ row \in rs /\ row.user \in Users /\ row.role \in Roles
           /\ RightOf(row).holder = UserId[row.user]
           /\ RightOf(row) \in
                 [holder : Nat, app : {Application}, role : Roles]
BY RoleStoreAssumption, UserIdAssumption DEF Active, RightOf, Row

\* Two rows are the same right if they are of one user and role, and only then.
LEMMA SameRight ==
    ASSUME NEW rs \in SUBSET Row, NEW x \in Active(rs), NEW y \in Active(rs)
    PROVE  RightOf(x) = RightOf(y) <=> x.user = y.user /\ x.role = y.role
BY ActiveRows, UserIdAssumption DEF RightOf

\* The row an insert adds is one right more, or none if its role is unknown.
LEMMA NewRowAppoints ==
    ASSUME RoleStoreInv, NEW user \in Users, user \in users,
           NEW role \in Known \cup {NoRole}, NewRow(user, role), users' = users
    PROVE  Ledger!Next \/ UNCHANGED Ledger!ledger
<1>1. PICK id \in Ids \ given :
          rows' = rows \cup
              {[id |-> id, user |-> user, role |-> role, inactive |-> FALSE]}
  BY DEF NewRow
<1>. DEFINE new == [id |-> id, user |-> user, role |-> role, inactive |-> FALSE]
<1>2. CASE role = NoRole
  <2>1. Active(rows') = Active(rows)
    BY <1>1, <1>2 DEF Active
  <2>. QED
    BY <2>1 DEF RightsIn, AccountsIn, Ledger!ledger
<1>3. CASE role # NoRole
  <2>1. Active(rows') = Active(rows) \cup {new}
    BY <1>1, <1>3 DEF Active
  <2>2. RightsIn(rows') =
            RightsIn(rows) \cup
                {[holder |-> UserId[user], app |-> Application, role |-> r] :
                     r \in {role}}
    <3>1. RightsIn(rows') = RightsIn(rows) \cup {RightOf(new)}
      BY <2>1 DEF RightsIn
    <3>2. RightOf(new) =
              [holder |-> UserId[user], app |-> Application, role |-> role]
      BY DEF RightOf
    <3>. QED
      BY <3>1, <3>2
  <2>3. UserId[user] \in Ledger!Numbers
    <3>1. AccountOf(user) \in AccountsIn(users)
      BY DEF AccountsIn
    <3>2. AccountOf(user).number = UserId[user]
      BY DEF AccountOf
    <3>. QED
      BY <3>1, <3>2 DEF Ledger!Numbers
  <2>4. {role} \in Ledger!AtMostOneOf(Roles) /\ {} \in Ledger!AtMostOneOf({})
    BY <1>3, RoleStoreAssumption DEF Ledger!AtMostOneOf
  <2>5. Ledger!Appoint(UserId[user], Application, {role}, {})
    BY <2>2 DEF Ledger!Appoint, AccountsIn
  <2>. QED
    BY <2>3, <2>4, <2>5 DEF Ledger!Next
<1>. QED
  BY <1>2, <1>3

\* Whatever takes away rows of one user and one role only, and leaves the users,
\* revokes one right or none.
LEMMA LessOfOneRight ==
    ASSUME RoleStoreInv, users' = users,
           NEW user, NEW role,
           Active(rows') \subseteq Active(rows),
           \A row \in Active(rows) \ Active(rows') :
               row.user = user /\ row.role = role
    PROVE  Ledger!Next \/ UNCHANGED Ledger!ledger
<1>1. AccountsIn(users') = AccountsIn(users)
  OBVIOUS
<1>2. CASE RightsIn(rows') = RightsIn(rows)
  BY <1>1, <1>2 DEF Ledger!ledger
<1>3. CASE RightsIn(rows') # RightsIn(rows)
  <2>1. RightsIn(rows') \subseteq RightsIn(rows)
    BY DEF RightsIn
  <2>2. PICK right \in RightsIn(rows) : right \notin RightsIn(rows')
    BY <1>3, <2>1
  <2>3. PICK row \in Active(rows) : right = RightOf(row)
    BY <2>2 DEF RightsIn
  <2>4. row.user = user /\ row.role = role
    BY <2>2, <2>3 DEF RightsIn
  <2>5. ASSUME NEW other \in RightsIn(rows), other \notin RightsIn(rows')
        PROVE  other = right
    <3>1. PICK r \in Active(rows) : other = RightOf(r)
      BY <2>5 DEF RightsIn
    <3>2. r.user = user /\ r.role = role
      BY <2>5, <3>1 DEF RightsIn
    <3>. QED
      BY <2>3, <2>4, <3>1, <3>2 DEF RightOf
  <2>6. RightsIn(rows') = RightsIn(rows) \ {right}
    BY <2>1, <2>2, <2>5
  <2>7. Ledger!Revoke(right)
    BY <1>1, <2>6 DEF Ledger!Revoke
  <2>. QED
    BY <2>2, <2>7 DEF Ledger!Next
<1>. QED
  BY <1>2, <1>3

LEMMA UpdateRevokes ==
    ASSUME RoleStoreInv, NEW t \in Threads, Update(t)
    PROVE  Ledger!Next \/ UNCHANGED Ledger!ledger
<1>1. rows \subseteq Row /\ found[t] \subseteq Row /\ pc[t] = "update"
  BY DEF RoleStoreInv, TypeInv, TypeOK, Update
<1>2. ASSUME NEW row \in Active(rows')
      PROVE  row \in Active(rows)
  <2>1. PICK old \in rows : row = Updated(t, old)
    BY <1>2, UpdateRows DEF Active
  <2>2. row = old \/ row = SoftDeleted(old)
    BY <1>1, <2>1, UpdatedRow
  <2>3. ~row.inactive /\ row.role # NoRole
    BY <1>2 DEF Active
  <2>4. row = old
    <3>1. old \in Row
      BY <1>1
    <3>2. SoftDeleted(old).inactive
      BY <3>1, SoftDeletedRow
    <3>. QED
      BY <2>2, <2>3, <3>2
  <2>. QED
    BY <2>3, <2>4 DEF Active
<1>3. ASSUME NEW row \in Active(rows), row \notin Active(rows')
      PROVE  row.user = call[t].user /\ row.role = call[t].role
  <2>1. row \in rows /\ row \in Row
    BY <1>1 DEF Active
  <2>2. Updated(t, row) \in rows'
    BY <2>1, UpdateRows
  <2>3. Updated(t, row) # row
    BY <1>3, <2>2 DEF Active
  <2>4. PICK old \in found[t] : old.id = row.id
    BY <2>3 DEF Updated, IdsOf
  <2>5. row = old \/ row = SoftDeleted(old)
    BY <2>1, <2>4 DEF RoleStoreInv, FoundRowsKeepTheirIds
  <2>6. row.user = old.user /\ row.role = old.role
    BY <1>1, <2>4, <2>5, SoftDeletedRow
  <2>. QED
    BY <1>1, <2>4, <2>6 DEF RoleStoreInv, FoundRowsKeepTheirIds
<1>4. Active(rows') \subseteq Active(rows)
  BY <1>2
<1>5. users' = users
  BY DEF Update
<1>. QED
  BY <1>3, <1>4, <1>5, LessOfOneRight

LEMMA RemovalRevokes ==
    ASSUME RoleStoreInv, NEW t \in Threads, CommitDelete(t),
           call[t].op = "RemovePermission"
    PROVE  Ledger!Next \/ UNCHANGED Ledger!ledger
<1>1. /\ rows' = {row \in rows : row.id \notin IdsOf(found[t])}
      /\ users' = users /\ pc[t] = "commit"
  BY DEF CommitDelete
<1>2. \A row \in rows : row.id \in IdsOf(found[t]) => row.id = call[t].id
  BY <1>1 DEF IdsOf, RoleStoreInv, FoundRowsKeepTheirIds
<1>3. Active(rows') \subseteq Active(rows)
  BY <1>1 DEF Active
<1>4. \A row \in Active(rows) \ Active(rows') :
          row \in rows /\ row.id = call[t].id
  BY <1>1, <1>2 DEF Active
<1>5. \A x, y \in Active(rows) \ Active(rows') : x = y
  BY <1>4 DEF RoleStoreInv, FoundRowsKeepTheirIds
<1>6. \E user, role : \A row \in Active(rows) \ Active(rows') :
          row.user = user /\ row.role = role
  <2>1. CASE Active(rows) \ Active(rows') = {}
    BY <2>1
  <2>2. CASE Active(rows) \ Active(rows') # {}
    <3>1. PICK x \in Active(rows) \ Active(rows') : TRUE
      BY <2>2
    <3>. QED
      BY <3>1, <1>5
  <2>. QED
    BY <2>1, <2>2
<1>. QED
  BY <1>1, <1>3, <1>6, LessOfOneRight

LEMMA DeletionDismisses ==
    ASSUME RoleStoreInv, NEW t \in Threads, CommitDelete(t),
           call[t].op = "DeleteUser"
    PROVE  Ledger!Next
<1>. DEFINE user == call[t].user
<1>1. /\ rows' = {row \in rows : row.id \notin IdsOf(found[t])}
      /\ users' = users \ {user} /\ pc[t] = "commit"
      /\ user \in users
      /\ \A row \in rows' : row.user # user
  BY DEF CommitDelete, CanDelete
<1>2. rows \subseteq Row /\ found[t] \subseteq Row /\ users \subseteq Users
      /\ user \in Users
  BY <1>1 DEF RoleStoreInv, TypeInv, TypeOK
<1>3. ASSUME NEW row \in rows, row.id \in IdsOf(found[t])
      PROVE  row.user = user
  <2>1. PICK old \in found[t] : old.id = row.id
    BY <1>3 DEF IdsOf
  <2>2. row = old \/ row = SoftDeleted(old)
    BY <2>1 DEF RoleStoreInv, FoundRowsKeepTheirIds
  <2>3. old.user = user
    BY <1>1, <2>1 DEF RoleStoreInv, FoundRowsKeepTheirIds
  <2>4. old \in Row
    BY <1>2
  <2>5. SoftDeleted(old).user = old.user
    BY <2>4, SoftDeletedRow
  <2>. QED
    BY <2>2, <2>3, <2>5
<1>4. Active(rows') = {row \in Active(rows) : row.user # user}
  BY <1>1, <1>3 DEF Active
<1>5. RightsIn(rows') = {r \in RightsIn(rows) : r.holder # UserId[user]}
  <2>1. \A row \in Active(rows) :
            row.user # user <=> RightOf(row).holder # UserId[user]
    BY <1>2, ActiveRows, UserIdAssumption
  <2>. QED
    BY <1>4, <2>1 DEF RightsIn
<1>6. AccountsIn(users') = {a \in AccountsIn(users) : a.number # UserId[user]}
  <2>1. \A u \in users : u # user <=> AccountOf(u).number # UserId[user]
    BY <1>2, UserIdAssumption DEF AccountOf
  <2>. QED
    BY <1>1, <2>1 DEF AccountsIn
<1>7. UserId[user] \in Ledger!Numbers
  <2>1. AccountOf(user) \in AccountsIn(users)
    BY <1>1 DEF AccountsIn
  <2>2. AccountOf(user).number = UserId[user]
    BY DEF AccountOf
  <2>. QED
    BY <2>1, <2>2 DEF Ledger!Numbers
<1>8. Ledger!Dismiss(UserId[user])
  BY <1>5, <1>6 DEF Ledger!Dismiss
<1>. QED
  BY <1>7, <1>8 DEF Ledger!Next

\* Every step is one change of the ledger, or none.
LEMMA LedgerStep ==
    ASSUME RoleStoreInv, [Next]_vars
    PROVE  Ledger!Next \/ UNCHANGED Ledger!ledger
<1>1. CASE UNCHANGED <<rows, users>>
  BY <1>1 DEF Ledger!ledger
<1>2. ASSUME NEW t \in Threads, InsertUserInRole(t), ~UNCHANGED <<rows, users>>
      PROVE  Ledger!Next \/ UNCHANGED Ledger!ledger
  <2>1. call[t].user \in users /\ users' = users
    BY <1>2 DEF InsertUserInRole, tables
  <2>2. PICK role \in Known \cup {NoRole} : NewRow(call[t].user, role)
    BY <1>2 DEF InsertUserInRole, tables
  <2>3. call[t].user \in Users
    BY <2>1 DEF RoleStoreInv, TypeInv, TypeOK
  <2>. QED
    BY <2>1, <2>2, <2>3, NewRowAppoints
<1>3. ASSUME NEW t \in Threads, CommitAdd(t)
      PROVE  Ledger!Next \/ UNCHANGED Ledger!ledger
  <2>1. call[t].user \in users /\ users' = users /\ NewRow(call[t].user, call[t].role)
    BY <1>3 DEF CommitAdd
  <2>2. call[t].user \in Users /\ call[t].role \in Known
    BY <1>3, CallKinds
       DEF CommitAdd, RoleStoreInv, TypeInv, CallsKeepToTheirSteps
  <2>. QED
    BY <2>1, <2>2, NewRowAppoints
<1>4. ASSUME NEW t \in Threads, CommitDelete(t)
      PROVE  Ledger!Next \/ UNCHANGED Ledger!ledger
  BY <1>4, RemovalRevokes, DeletionDismisses DEF CommitDelete
<1>5. \/ UNCHANGED <<rows, users>>
      \/ \E t \in Threads :
            \/ InsertUserInRole(t) \/ Update(t) \/ CommitAdd(t) \/ CommitDelete(t)
  BY DEF Next, vars, tables, Submit, Handle, Abort, GetManagementRoles,
         FindPermission, CheckPermission, LoadPermission, LoadUser,
         LoadNothing, LoadRows, CommitFails
<1>. QED
  BY <1>1, <1>2, <1>3, <1>4, <1>5, UpdateRevokes

\* Where every row has its user, every right has its account.
LEMMA RowsOfUsersAreSound ==
    ASSUME rows \subseteq Row, users \subseteq Users, RowsHaveUsers
    PROVE  Ledger!Sound
<1>1. \A a, b \in AccountsIn(users) :
          a.number = b.number \/ a.login = b.login => a = b
  BY UserIdAssumption DEF AccountsIn, AccountOf
<1>2. \A a \in AccountsIn(users) : a.number <= LastUserId
  BY UserIdAssumption DEF AccountsIn, AccountOf
<1>3. ASSUME NEW row \in Active(rows)
      PROVE  RightOf(row).holder \in Ledger!Numbers
  <2>1. row.user \in users /\ RightOf(row).holder = UserId[row.user]
    BY DEF RowsHaveUsers, Active, RightOf
  <2>2. AccountOf(row.user) \in AccountsIn(users)
    BY <2>1 DEF AccountsIn
  <2>. QED
    BY <2>1, <2>2 DEF Ledger!Numbers, AccountOf
<1>. QED
  BY <1>1, <1>2, <1>3 DEF Ledger!Sound, RightsIn

LEMMA LedgerInit ==
    ASSUME Init
    PROVE  Ledger!Init
<1>1. rows \subseteq Row /\ users = Users
  BY RoleStoreAssumption DEF Init
<1>2. Ledger!TypeOK
  <2>1. AccountsIn(users) \subseteq Ledger!Account
    BY <1>1, UserIdAssumption DEF AccountsIn, AccountOf, Ledger!Account
  <2>2. RightsIn(rows) \subseteq Ledger!Right
    BY <1>1, ActiveRows DEF RightsIn, Ledger!Right
  <2>. QED
    BY <2>1, <2>2, UserIdAssumption DEF Ledger!TypeOK
<1>3. Ledger!Sound
  BY <1>1, RowsOfUsersAreSound DEF RowsHaveUsers, Row
<1>. QED
  BY <1>2, <1>3 DEF Ledger!Init

\* Programs that call the procedures and administrators who use the pages keep
\* one ledger of rights, however their statements and requests overlap.
THEOREM LedgerImplemented == Spec => ImplementsLedger
<1>1. RoleStoreInv /\ [Next]_vars => [Ledger!Next]_(Ledger!ledger)
  BY LedgerStep
<1>. QED
  BY <1>1, LedgerInit, RoleStoreHolds, PTL DEF Spec, ImplementsLedger, Ledger!Spec

\* No row is made for a user who is gone, and none outlives its user.
LEMMA RowsHaveUsersStep ==
    ASSUME TypeInv, RowsHaveUsers, [Next]_vars
    PROVE  RowsHaveUsers'
<1>1. CASE UNCHANGED <<rows, users>>
  BY <1>1 DEF RowsHaveUsers
<1>2. ASSUME NEW t \in Threads, InsertUserInRole(t), ~UNCHANGED <<rows, users>>
      PROVE  RowsHaveUsers'
  BY <1>2 DEF InsertUserInRole, NewRow, tables, RowsHaveUsers
<1>3. ASSUME NEW t \in Threads, CommitAdd(t)
      PROVE  RowsHaveUsers'
  BY <1>3 DEF CommitAdd, NewRow, RowsHaveUsers
<1>4. ASSUME NEW t \in Threads, Update(t)
      PROVE  RowsHaveUsers'
  <2>1. \A row \in rows : Updated(t, row).user = row.user
    BY UpdatedRow DEF TypeInv, TypeOK, SoftDeleted, Row
  <2>2. rows' = {Updated(t, row) : row \in rows} /\ users' = users
    BY <1>4, UpdateRows DEF Update
  <2>. QED
    BY <2>1, <2>2 DEF RowsHaveUsers
<1>5. ASSUME NEW t \in Threads, CommitDelete(t)
      PROVE  RowsHaveUsers'
  BY <1>5 DEF CommitDelete, CanDelete, RowsHaveUsers
<1>. QED
  BY <1>1, <1>2, <1>3, <1>4, <1>5
  DEF Next, vars, tables, Submit, Handle, Abort, GetManagementRoles,
      FindPermission, CheckPermission, LoadPermission, LoadUser, LoadNothing,
      LoadRows, CommitFails

\* Whichever program gave it, at every moment every right is one of a user who is
\* there: no insert of usp_insertUserInRole slips in behind the deletion of a user.
THEOREM LedgerStaysSound == Spec => []Ledger!Sound
<1>1. Init => RowsHaveUsers
  BY RoleStoreAssumption DEF Init, RowsHaveUsers, Row
<1>2. TypeInv /\ RowsHaveUsers /\ [Next]_vars => RowsHaveUsers'
  BY RowsHaveUsersStep
<1>3. TypeInv /\ RowsHaveUsers => Ledger!Sound
  BY RowsOfUsersAreSound DEF TypeInv, TypeOK
<1>. QED
  BY <1>1, <1>2, <1>3, TypeCorrect, PTL DEF Spec

-----------------------------------------------------------------------------
(* One call at a time.                                                      *)

LEMMA FoundIsCurrentStep ==
    ASSUME \A s, t \in Threads : s = t,
           TypeInv, FoundIsCurrent, [Next]_vars
    PROVE  FoundIsCurrent'
<1>1. SUFFICES ASSUME NEW t \in Threads, pc'[t] = "update"
               PROVE  LET matches == {row \in rows' : row.user = call'[t].user
                                                      /\ row.role = call'[t].role}
                      IN  found'[t] = IF Cardinality(matches) = 1 THEN matches ELSE {}
  BY DEF FoundIsCurrent, RowsOf
<1>2. pc \in [Threads -> {"idle", "insert", "find", "update", "load", "commit"}]
      /\ found \in [Threads -> SUBSET Row]
  BY DEF TypeInv, TypeOK
<1>3. CASE FindPermission(t)
  BY <1>2, <1>3 DEF FindPermission, RowsOf, tables
<1>4. CASE UNCHANGED <<rows, pc, call, found>>
  BY <1>1, <1>4 DEF FoundIsCurrent, RowsOf
<1>5. ASSUME NEW s \in Threads, Submit(s) \/ Handle(s) \/ Abort(s), ~FindPermission(s)
      PROVE  pc'[s] # "update"
  <2>1. CASE Submit(s)
    <3>1. PICK c \in Calls : pc' = [pc EXCEPT ![s] = FirstStep(c)]
      BY <2>1 DEF Submit
    <3>2. FirstStep(c) # "update"
      BY CallKinds DEF FirstStep
    <3>. QED
      BY <1>2, <3>1, <3>2
  <2>2. CASE End(s)
    BY <1>2, <2>2 DEF End
  <2>3. CASE \E loaded : LoadRows(s, loaded)
    BY <1>2, <2>3 DEF LoadRows
  <2>. QED
    BY <1>5, <2>1, <2>2, <2>3
       DEF Handle, Abort, InsertUserInRole, Update, CheckPermission,
           LoadPermission, LoadUser, LoadNothing, CommitAdd, CommitDelete, CommitFails
<1>6. \A s \in Threads : s = t
  OBVIOUS
<1>7. \/ UNCHANGED <<rows, pc, call, found>>
      \/ \E s \in Threads : Submit(s) \/ Handle(s) \/ Abort(s)
  BY DEF Next, vars, tables, GetManagementRoles
<1>. QED
  BY <1>1, <1>3, <1>4, <1>5, <1>6, <1>7

\* A removal that finds what is there ends the role, or found more than one row.
LEMMA RemovalOutcome ==
    ASSUME RoleStoreInv, FoundIsCurrent, NEW t \in Threads, Update(t)
    PROVE  LET user == call[t].user
               role == call[t].role
           IN  IsUserInRole(rows', user, role) <=>
                   /\ IsUserInRole(rows, user, role)
                   /\ Cardinality(RowsOf(user, role)) # 1
<1>. DEFINE user == call[t].user
            role == call[t].role
            matches == RowsOf(user, role)
<1>1. rows \subseteq Row /\ pc[t] = "update"
  BY DEF RoleStoreInv, TypeInv, TypeOK, Update
<1>2. found[t] = IF Cardinality(matches) = 1 THEN matches ELSE {}
  BY <1>1 DEF FoundIsCurrent
<1>3. rows' = {Updated(t, row) : row \in rows}
  BY UpdateRows
<1>4. CASE Cardinality(matches) # 1
  <2>1. \A row \in rows : Updated(t, row) = row
    BY <1>2, <1>4 DEF Updated, IdsOf
  <2>2. rows' = rows
    BY <1>3, <2>1
  <2>. QED
    BY <1>4, <2>2
<1>5. CASE Cardinality(matches) = 1
  <2>1. SUFFICES ASSUME NEW row \in Active(rows'), row.user = user, row.role = role
                 PROVE  FALSE
    BY <1>5 DEF IsUserInRole
  <2>2. PICK old \in rows : row = Updated(t, old)
    BY <1>3 DEF Active
  <2>3. old \in Row
    BY <1>1
  <2>4. old.user = row.user /\ old.role = row.role
    BY <2>2, <2>3, SoftDeletedRow DEF Updated
  <2>5. old \in found[t]
    BY <1>2, <1>5, <2>1, <2>4 DEF RowsOf
  <2>6. row = SoftDeleted(old)
    BY <2>2, <2>5 DEF Updated, IdsOf
  <2>7. row.inactive = TRUE
    BY <2>3, <2>6, SoftDeletedRow
  <2>. QED
    BY <2>7 DEF Active
<1>. QED
  BY <1>4, <1>5

\* When nothing overlaps, the second row is the only reason for which a removal
\* leaves the user in the role, and it always is one.
THEOREM RemovalsFailOnCopiesOnlyHolds ==
    ASSUME \A s, t \in Threads : s = t
    PROVE  Spec => RemovalsFailOnCopiesOnly
<1>1. Init => FoundIsCurrent
  BY DEF Init, FoundIsCurrent
<1>2. RoleStoreInv /\ FoundIsCurrent /\ [Next]_vars => FoundIsCurrent'
  BY FoundIsCurrentStep DEF RoleStoreInv
<1>3. RoleStoreInv /\ FoundIsCurrent /\ [Next]_vars =>
          [\A t \in Threads :
              Update(t) =>
                  LET user == call[t].user
                      role == call[t].role
                  IN  IsUserInRole(rows', user, role) <=>
                          /\ IsUserInRole(rows, user, role)
                          /\ Cardinality(RowsOf(user, role)) # 1]_vars
  BY RemovalOutcome
<1>. QED
  BY <1>1, <1>2, <1>3, RoleStoreHolds, PTL DEF Spec, RemovalsFailOnCopiesOnly
=============================================================================
