------------------------- MODULE OrganizationProofs -------------------------
(***************************************************************************)
(* Proofs about Organization: type correctness, that deletions never open  *)
(* a loop of parents however old their pages are, that edits never mix, and *)
(* that a successful edit is there; for any number of threads and forms.    *)
(***************************************************************************)
EXTENDS Organization, TLAPS

\* What a form asks for, by its op.
LEMMA FormKinds ==
    ASSUME NEW f \in Forms
    PROVE  /\ f.op \in {"CreateUnit", "EditUnit"} =>
                 /\ f.code \in Codes /\ f.school \in Schools
                 /\ f.parent \in Ids \cup {NoUnit}
           /\ f.op \in {"EditUnit", "AskDeleteUnit", "DeleteUnit"} => f.id \in Ids
           /\ f.op \in {"CreateSchool", "AskDeleteSchool", "DeleteSchool"} =>
                 f.school \in Schools
           /\ f.op \in {"CreateUnit", "EditUnit", "AskDeleteUnit", "DeleteUnit",
                        "CreateSchool", "AskDeleteSchool", "DeleteSchool"}
BY OrganizationAssumption DEF UnitForm, UnitPage, SchoolForm

\* The row a form is mapped to.
LEMMA MappedType ==
    ASSUME TypeInv, NEW t \in Threads, NEW id \in Ids, pc[t] = "commit",
           form[t].op \in {"CreateUnit", "EditUnit"}
    PROVE  /\ Mapped(t, id) \in Row
           /\ Mapped(t, id).id = id
<1>1. form[t] \in Forms /\ parent[t] \in Ids \cup {NoUnit}
  BY DEF TypeInv, TypeOK, HandlersKeepToTheirSteps
<1>. QED
  BY <1>1, FormKinds DEF Mapped, Row

\* The Unit table stays one.
LEMMA UnitsAfterType ==
    ASSUME TypeInv, NEW t \in Threads, pc[t] = "commit",
           NEW rows \in UnitsAfter(t)
    PROVE  rows \subseteq Row
<1>1. units \subseteq Row /\ form[t] \in Forms
  BY DEF TypeInv, TypeOK, HandlersKeepToTheirSteps
<1>2. CASE form[t].op = "CreateUnit"
  BY <1>1, <1>2, MappedType DEF UnitsAfter
<1>3. CASE form[t].op = "EditUnit"
  <2>1. ASSUME NEW row \in units
        PROVE  EditRow(t, row) \in Row
    <3>1. row \in Row /\ row.id \in Ids
      BY <1>1 DEF Row
    <3>2. Mapped(t, row.id) \in Row
      BY <3>1, <1>3, MappedType
    <3>. QED
      BY <3>1, <3>2 DEF EditRow
  <2>2. rows = {EditRow(t, row) : row \in units}
    BY <1>3 DEF UnitsAfter
  <2>. QED
    BY <2>1, <2>2
<1>4. CASE form[t].op \notin {"CreateUnit", "EditUnit"}
  BY <1>1, <1>4 DEF UnitsAfter
<1>. QED
  BY <1>2, <1>3, <1>4

-----------------------------------------------------------------------------
(* Type correctness. *)

\* A request that ends leaves every other thread where it is.
LEMMA EndRequestType ==
    ASSUME TypeInv, NEW t \in Threads, EndRequest(t),
           units' \subseteq Row, schools' \subseteq Schools, used' \subseteq Ids,
           given' \subseteq Ids, pages' \subseteq UnitPage \cup SchoolForm
    PROVE  TypeInv'
<1>1. TypeOK'
  BY DEF TypeInv, TypeOK, EndRequest, Step
<1>2. HandlersKeepToTheirSteps'
  BY DEF TypeInv, TypeOK, EndRequest, HandlersKeepToTheirSteps
<1>. QED
  BY <1>1, <1>2 DEF TypeInv

LEMMA RollbackType ==
    ASSUME TypeInv, NEW t \in Threads, Rollback(t)
    PROVE  TypeInv'
BY EndRequestType DEF Rollback, tables, TypeInv, TypeOK

\* The queries of a handler keep it to its steps.
LEMMA QueryType ==
    ASSUME TypeInv, NEW t \in Threads,
           \/ FindSchool(t) \/ FindParent(t) \/ FindUnit(t)
           \/ FindAssociations(t) \/ FindChildren(t) \/ FindUnits(t)
    PROVE  TypeInv'
<1>. USE DEF TypeInv, TypeOK, HandlersKeepToTheirSteps
<1>0. form[t] \in Forms \cup {NoForm} /\ (pc[t] # "idle" => form[t] \in Forms)
  OBVIOUS
<1>1. CASE FindSchool(t)
  <2>1. CASE Rollback(t)
    BY <2>1, RollbackType
  <2>2. CASE ~Rollback(t)
    BY <1>0, <1>1, <2>2, FormKinds DEF FindSchool, Continue, tables, Step
  <2>. QED
    BY <2>1, <2>2
<1>2. CASE FindParent(t)
  BY <1>0, <1>2, FormKinds DEF FindParent, Continue, tables, Step
<1>3. CASE FindUnit(t)
  <2>1. CASE Rollback(t)
    BY <2>1, RollbackType
  <2>2. CASE ~Rollback(t)
    BY <1>0, <1>3, <2>2, FormKinds DEF FindUnit, Continue, tables, Step
  <2>. QED
    BY <2>1, <2>2
<1>4. CASE FindAssociations(t)
  <2>1. CASE Rollback(t)
    BY <2>1, RollbackType
  <2>2. CASE ~Rollback(t)
    BY <1>0, <1>4, <2>2 DEF FindAssociations, Continue, tables, Step
  <2>. QED
    BY <2>1, <2>2
<1>5. CASE FindChildren(t)
  <2>1. CASE Rollback(t)
    BY <2>1, RollbackType
  <2>2. CASE ~Rollback(t)
    <3>1. form[t].id \in Ids
      BY <1>0, <1>5, FormKinds DEF FindChildren
    <3>2. [op |-> "DeleteUnit", id |-> form[t].id] \in UnitPage
      BY <3>1 DEF UnitPage
    <3>. QED
      BY <1>5, <2>2, <3>2, EndRequestType DEF FindChildren, ShowPage
  <2>. QED
    BY <2>1, <2>2
<1>6. CASE FindUnits(t)
  <2>1. CASE Rollback(t)
    BY <2>1, RollbackType
  <2>2. CASE ~Rollback(t)
    <3>1. form[t].school \in Schools
      BY <1>0, <1>6, FormKinds DEF FindUnits
    <3>2. [op |-> "DeleteSchool", school |-> form[t].school] \in SchoolForm
      BY <3>1 DEF SchoolForm
    <3>. QED
      BY <1>6, <2>2, <3>2, EndRequestType DEF FindUnits, ShowPage
  <2>. QED
    BY <2>1, <2>2
<1>. QED
  BY <1>1, <1>2, <1>3, <1>4, <1>5, <1>6

LEMMA CommitType ==
    ASSUME TypeInv, NEW t \in Threads, Commit(t)
    PROVE  TypeInv'
<1>1. form[t] \in Forms /\ pc[t] = "commit"
  BY DEF Commit, TypeInv, HandlersKeepToTheirSteps
<1>2. units' \in UnitsAfter(t) /\ units' \subseteq Row
  BY <1>1, UnitsAfterType DEF Commit
<1>3. given' \subseteq Ids
  BY <1>2 DEF Commit, TypeInv, TypeOK, IdsOf, Row
<1>4. schools' \subseteq Schools
  BY <1>1, FormKinds DEF Commit, SchoolsAfter, TypeInv, TypeOK
<1>. QED
  BY <1>2, <1>3, <1>4, EndRequestType DEF Commit, TypeInv, TypeOK

\* Spec => []TypeInv: the types hold, and every thread is at a step of the request
\* it handles.
THEOREM TypeCorrect == Spec => []TypeInv
<1>1. Init => TypeInv
  BY OrganizationAssumption
     DEF Init, TypeInv, TypeOK, HandlersKeepToTheirSteps, Step, ReferencesHold,
         IdsOf, Row
<1>2. TypeInv /\ [Next]_vars => TypeInv'
  <2>. SUFFICES ASSUME TypeInv, [Next]_vars
                PROVE  TypeInv'
    OBVIOUS
  <2>1. CASE UNCHANGED vars
    BY <2>1 DEF vars, TypeInv, TypeOK, HandlersKeepToTheirSteps
  <2>2. ASSUME NEW t \in Threads, Submit(t)
        PROVE  TypeInv'
    <3>1. PICK f \in Forms : /\ pc[t] = "idle"
                             /\ pc' = [pc EXCEPT ![t] = FirstStep(f)]
                             /\ form' = [form EXCEPT ![t] = f]
      BY <2>2 DEF Submit
    <3>2. TypeOK'
      BY <2>2, <3>1 DEF Submit, TypeInv, TypeOK, FirstStep, Step
    <3>3. HandlersKeepToTheirSteps'
      BY <2>2, <3>1, FormKinds
         DEF Submit, TypeInv, TypeOK, FirstStep, HandlersKeepToTheirSteps
    <3>. QED
      BY <3>2, <3>3 DEF TypeInv
  <2>3. ASSUME NEW t \in Threads, Handle(t)
        PROVE  TypeInv'
    BY <2>3, QueryType, CommitType, RollbackType DEF Handle, CommitFails
  <2>4. ASSUME NEW t \in Threads, Abort(t)
        PROVE  TypeInv'
    BY <2>4, RollbackType DEF Abort
  <2>5. ASSUME NEW id \in Ids, AssociateUnit(id) \/ RemoveAssociations(id)
        PROVE  TypeInv'
    BY <2>5 DEF AssociateUnit, RemoveAssociations, TypeInv, TypeOK,
                HandlersKeepToTheirSteps
  <2>. QED
    BY <2>1, <2>2, <2>3, <2>4, <2>5 DEF Next
<1>. QED
  BY <1>1, <1>2, PTL DEF Spec

-----------------------------------------------------------------------------
(* The tables change only at a commit, and by the environment.               *)

\* A step that is no commit leaves the units and the schools alone.
LEMMA OtherStepsKeepUnits ==
    ASSUME [Next]_vars, \A t \in Threads : ~Commit(t)
    PROVE  units' = units /\ schools' = schools
<1>. USE DEF tables, Rollback, Continue, ShowPage
<1>1. ASSUME NEW t \in Threads, Submit(t) \/ Handle(t) \/ Abort(t)
      PROVE  units' = units /\ schools' = schools
  BY <1>1 DEF Submit, Handle, Abort, FindSchool, FindParent, FindUnit,
              FindAssociations, FindChildren, FindUnits, CommitFails
<1>2. ASSUME NEW id \in Ids, AssociateUnit(id) \/ RemoveAssociations(id)
      PROVE  units' = units /\ schools' = schools
  BY <1>2 DEF AssociateUnit, RemoveAssociations
<1>3. CASE UNCHANGED vars
  BY <1>3 DEF vars
<1>. QED
  BY <1>1, <1>2, <1>3 DEF Next

-----------------------------------------------------------------------------
(* Edits.                                                                     *)

\* The row a thread commits is as its form says.
LEMMA MappedIsPosted ==
    ASSUME TypeInv, NEW t \in Threads, NEW id \in Ids, pc[t] = "commit",
           form[t].op \in {"CreateUnit", "EditUnit"},
           form[t].op = "EditUnit" => id = form[t].id
    PROVE  \E f \in Forms :
              /\ f.op \in {"CreateUnit", "EditUnit"}
              /\ f.op = "EditUnit" => Mapped(t, id).id = f.id
              /\ Mapped(t, id).code = f.code /\ Mapped(t, id).school = f.school
              /\ Mapped(t, id).parent \in {f.parent, NoUnit}
<1>1. form[t] \in Forms /\ parent[t] \in {form[t].parent, NoUnit}
  BY DEF TypeInv, TypeOK, HandlersKeepToTheirSteps
<1>2. /\ Mapped(t, id).id = id /\ Mapped(t, id).code = form[t].code
      /\ Mapped(t, id).school = form[t].school
      /\ Mapped(t, id).parent = parent[t]
  BY DEF Mapped
<1>. QED
  BY <1>1, <1>2

\* Spec => []FormsNeverMix: a row is that of the start, or of one form.
THEOREM FormsNeverMixHolds == Spec => []FormsNeverMix
<1>1. Init => FormsNeverMix
  BY DEF Init, FormsNeverMix
<1>2. TypeInv /\ FormsNeverMix /\ [Next]_vars => FormsNeverMix'
  <2>. SUFFICES ASSUME TypeInv, FormsNeverMix, [Next]_vars
                PROVE  FormsNeverMix'
    OBVIOUS
  <2>1. ASSUME NEW t \in Threads, Commit(t), NEW row \in units'
        PROVE  \/ row \in units
               \/ /\ form[t].op \in {"CreateUnit", "EditUnit"}
                  /\ \E id \in Ids :
                        /\ form[t].op = "EditUnit" => id = form[t].id
                        /\ row = Mapped(t, id)
    <3>1. units' \in UnitsAfter(t)
      BY <2>1 DEF Commit
    <3>2. CASE form[t].op = "CreateUnit"
      BY <3>1, <3>2 DEF UnitsAfter
    <3>3. CASE form[t].op = "EditUnit"
      <4>1. PICK old \in units : row = EditRow(t, old)
        BY <3>1, <3>3 DEF UnitsAfter
      <4>2. old.id \in Ids
        BY DEF TypeInv, TypeOK, Row
      <4>. QED
        BY <3>3, <4>1, <4>2 DEF EditRow
    <3>4. CASE form[t].op \notin {"CreateUnit", "EditUnit"}
      BY <3>1, <3>4 DEF UnitsAfter
    <3>. QED
      BY <3>2, <3>3, <3>4
  <2>2. ASSUME NEW t \in Threads, Commit(t)
        PROVE  FormsNeverMix'
    <3>. pc[t] = "commit"
      BY <2>2 DEF Commit
    <3>. QED
      BY <2>1, <2>2, MappedIsPosted DEF FormsNeverMix
  <2>3. CASE \A t \in Threads : ~Commit(t)
    BY <2>3, OtherStepsKeepUnits DEF FormsNeverMix
  <2>. QED
    BY <2>2, <2>3
<1>. QED
  BY <1>1, <1>2, TypeCorrect, PTL DEF Spec

\* The commit of an edit that changes something leaves the unit as posted.
THEOREM EditsAreNotLostHolds == Spec => EditsAreNotLost
<1>1. ASSUME TypeInv, NEW t \in Threads, pc[t] = "commit",
             form[t].op = "EditUnit", Commit(t), IsDirty(t)
      PROVE  Mapped(t, form[t].id) \in units'
  <2>1. units' = {EditRow(t, row) : row \in units}
    BY <1>1 DEF Commit, UnitsAfter
  <2>2. PICK row \in units : row.id = form[t].id
    BY <1>1 DEF Commit, RowIsThere, IdsOf
  <2>3. EditRow(t, row) = Mapped(t, form[t].id)
    BY <1>1, <2>2 DEF EditRow
  <2>. QED
    BY <2>1, <2>3
<1>2. TypeInv /\ [Next]_vars =>
          [\A t \in Threads :
              pc[t] = "commit" /\ form[t].op = "EditUnit" /\ Commit(t) =>
                  ~IsDirty(t) \/ Mapped(t, form[t].id) \in units']_vars
  BY <1>1
<1>. QED
  BY <1>2, TypeCorrect, PTL DEF Spec, EditsAreNotLost


-----------------------------------------------------------------------------
(* Loops of parents.                                                          *)

\* A commit takes a unit out of the table only if no other unit names it.
LEMMA CommitKeepsLoops ==
    ASSUME TypeInv, NEW t \in Threads, Commit(t),
           NEW ids \in SUBSET IdsOf(units), ParentLoop(ids, units)
    PROVE  ids \subseteq IdsOf(units')
<1>. SUFFICES ASSUME NEW id \in ids
              PROVE  id \in IdsOf(units')
  OBVIOUS
<1>1. PICK row \in units : row.id = id
  BY DEF IdsOf
<1>2. /\ units' \in UnitsAfter(t)
      /\ \A r \in units' : r.parent \in IdsOf(units') \cup {NoUnit}
  BY DEF Commit, CanCommit, ReferencesHold
<1>3. CASE form[t].op = "CreateUnit"
  BY <1>1, <1>2, <1>3 DEF UnitsAfter, IdsOf
<1>4. CASE form[t].op = "EditUnit"
  <2>1. EditRow(t, row) \in units'
    BY <1>1, <1>2, <1>4 DEF UnitsAfter
  <2>2. EditRow(t, row).id = id
    BY <1>1 DEF EditRow, Mapped
  <2>. QED
    BY <2>1, <2>2 DEF IdsOf
<1>5. CASE form[t].op = "DeleteUnit"
  <2>1. units' = {r \in units : r.id # form[t].id}
    BY <1>2, <1>5 DEF UnitsAfter
  <2>2. PICK child \in units : child.id \in ids \ {id} /\ child.parent = id
    BY DEF ParentLoop
  <2>3. id # NoUnit
    BY <1>1, OrganizationAssumption DEF TypeInv, TypeOK, Row
  <2>4. CASE id = form[t].id
    BY <1>2, <2>1, <2>2, <2>3, <2>4
  <2>5. CASE id # form[t].id
    BY <1>1, <2>1, <2>5 DEF IdsOf
  <2>. QED
    BY <2>4, <2>5
<1>6. CASE form[t].op \notin {"CreateUnit", "EditUnit", "DeleteUnit"}
  BY <1>1, <1>2, <1>6 DEF UnitsAfter, IdsOf
<1>. QED
  BY <1>3, <1>4, <1>5, <1>6

\* However old the page a deletion comes from, it leaves every loop of parents
\* whole.
THEOREM LoopsOutliveDeletionsHolds == Spec => LoopsOutliveDeletions
<1>. DEFINE Whole == \A ids \in SUBSET IdsOf(units) :
                       ParentLoop(ids, units) => ids \subseteq IdsOf(units')
<1>1. TypeInv /\ [Next]_vars => [Whole]_vars
  <2>. SUFFICES ASSUME TypeInv, [Next]_vars
                PROVE  Whole
    OBVIOUS
  <2>1. CASE \E t \in Threads : Commit(t)
    BY <2>1, CommitKeepsLoops
  <2>2. CASE \A t \in Threads : ~Commit(t)
    BY <2>2, OtherStepsKeepUnits
  <2>. QED
    BY <2>1, <2>2
<1>. QED
  BY <1>1, TypeCorrect, PTL DEF Spec, LoopsOutliveDeletions

=============================================================================
