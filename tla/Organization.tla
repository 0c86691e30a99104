---------------------------- MODULE Organization ----------------------------
(***************************************************************************)
(* Schools and units, as administrators change them: UnitController and    *)
(* SchoolController.  A unit belongs to a school and may have a parent.    *)
(* Deleting takes two requests: the first looks whether the unit or school *)
(* is in use and shows a page that asks for confirmation, the second       *)
(* deletes.  Whatever happens in between, only the foreign keys can stop   *)
(* the second.                                                             *)
(*                                                                         *)
(* As in UserManagement a request is one transaction at READ COMMITTED:    *)
(* its queries are steps of their own and its writes take effect at the    *)
(* commit.                                                                 *)
(***************************************************************************)
EXTENDS Naturals, FiniteSets

CONSTANTS
    Threads,     \* the server's request threads
    Ids,         \* unit ids: IDENTITY values, given out in any order, once
    Codes,       \* FIS codes
    Schools,     \* school codes
    NoUnit,      \* no parent, no unit
    Forms,       \* the forms administrators may post
    NoForm,      \* the form of an idle thread
    InitUnits,   \* the Unit table,
    InitSchools, \* the school codes in use
    InitUsed     \* and the units with associations at the start

Row == [id : Ids, code : Codes, school : Schools, parent : Ids \cup {NoUnit}]

UnitForm ==
    [op : {"CreateUnit"}, code : Codes, school : Schools,
     parent : Ids \cup {NoUnit}]
    \cup [op : {"EditUnit"}, id : Ids, code : Codes, school : Schools,
          parent : Ids \cup {NoUnit}]

UnitPage == [op : {"AskDeleteUnit", "DeleteUnit"}, id : Ids]

SchoolForm ==
    [op : {"CreateSchool", "AskDeleteSchool", "DeleteSchool"}, school : Schools]

IdsOf(rows) == {row.id : row \in rows}

\* Every reference leads somewhere: FK_Unit_Schools, FK_Unit_Unit_Parent,
\* FK_UnitAssociations_Unit.
ReferencesHold(rows, codes, used) ==
    /\ \A row \in rows :
          row.school \in codes /\ row.parent \in IdsOf(rows) \cup {NoUnit}
    /\ used \subseteq IdsOf(rows)

\* PK_Unit and IX_Unit.
KeysHold(rows) ==
    \A x, y \in rows : x.id = y.id \/ x.code = y.code => x = y

ASSUME OrganizationAssumption ==
    /\ Forms \subseteq UnitForm \cup UnitPage \cup SchoolForm
    /\ NoForm \notin Forms /\ NoUnit \notin Ids
    /\ InitUnits \subseteq Row /\ InitSchools \subseteq Schools
    /\ ReferencesHold(InitUnits, InitSchools, InitUsed)
    /\ KeysHold(InitUnits)

-----------------------------------------------------------------------------
VARIABLES
    units,     \* the Unit table
    schools,   \* the codes in the Schools table
    used,      \* the units with associations
    given,     \* the ids ever given out
    pages,     \* the confirmation pages shown: the forms they post
    pc,        \* the next step of each thread
    form,      \* the form it handles
    parent,    \* the parent unit the binder found for it
    loaded     \* the unit row its session has loaded, as a set

vars == <<units, schools, used, given, pages, pc, form, parent, loaded>>
tables == <<units, schools, used, given, pages>>

Step == {"idle", "school", "parent", "unit", "associations", "children",
         "units", "commit"}

TypeOK ==
    /\ units \subseteq Row
    /\ schools \subseteq Schools
    /\ used \subseteq Ids
    /\ given \subseteq Ids
    /\ pages \subseteq UnitPage \cup SchoolForm
    /\ pc \in [Threads -> Step]
    /\ form \in [Threads -> Forms \cup {NoForm}]
    /\ parent \in [Threads -> Ids \cup {NoUnit}]
    /\ loaded \in [Threads -> SUBSET Row]

Init ==
    /\ units = InitUnits
    /\ schools = InitSchools
    /\ used = InitUsed
    /\ given = IdsOf(InitUnits)
    /\ pages = {}
    /\ pc = [t \in Threads |-> "idle"]
    /\ form = [t \in Threads |-> NoForm]
    /\ parent = [t \in Threads |-> NoUnit]
    /\ loaded = [t \in Threads |-> {}]

-----------------------------------------------------------------------------
\* The binder loads the school and the parent of a unit form; the other
\* requests begin with the row they name, a new school with none.
FirstStep(f) ==
    CASE f.op \in {"CreateUnit", "EditUnit"} -> "school"
      [] f.op \in {"AskDeleteUnit", "DeleteUnit"} -> "unit"
      [] f.op \in {"AskDeleteSchool", "DeleteSchool"} -> "school"
      [] OTHER -> "commit"

\* A deletion is posted from a page, which stays open as long as one likes.
Submit(t) ==
    \E f \in Forms :
        /\ pc[t] = "idle"
        /\ f.op \in {"DeleteUnit", "DeleteSchool"} => f \in pages
        /\ pc' = [pc EXCEPT ![t] = FirstStep(f)]
        /\ form' = [form EXCEPT ![t] = f]
        /\ UNCHANGED <<units, schools, used, given, pages, parent, loaded>>

\* A slip of the step below: the session and its row outlive the request.
EndRequestKeepingRow(t) ==
    /\ pc' = [pc EXCEPT ![t] = "idle"]
    /\ form' = [form EXCEPT ![t] = NoForm]
    /\ UNCHANGED <<parent, loaded>>

EndRequest(t) ==
    /\ pc' = [pc EXCEPT ![t] = "idle"]
    /\ form' = [form EXCEPT ![t] = NoForm]
    /\ parent' = [parent EXCEPT ![t] = NoUnit]
    /\ loaded' = [loaded EXCEPT ![t] = {}]

Rollback(t) == EndRequest(t) /\ UNCHANGED tables

Abort(t) ==
    /\ pc[t] # "idle"
    /\ Rollback(t)

Continue(t, next) ==
    /\ pc' = [pc EXCEPT ![t] = next]
    /\ UNCHANGED <<tables, form>>

\* A unit form without a school is invalid and comes back; a school that is
\* not there is a redirect.
FindSchool(t) ==
    LET next == CASE form[t].op \in {"CreateUnit", "EditUnit"} -> "parent"
                  [] form[t].op = "AskDeleteSchool" -> "units"
                  [] OTHER -> "commit"
    IN  /\ pc[t] = "school"
        /\ \/ /\ form[t].school \in schools
              /\ Continue(t, next)
              /\ UNCHANGED <<parent, loaded>>
           \/ /\ form[t].school \notin schools
              /\ Rollback(t)

\* A parent that is gone may be bound to null, so that the unit is saved without
\* one, or to a proxy, so that the save fails.
FindParent(t) ==
    /\ pc[t] = "parent"
    /\ \E up \in {form[t].parent, NoUnit} :
          /\ form[t].parent \in IdsOf(units) => up = form[t].parent
          /\ parent' = [parent EXCEPT ![t] = up]
    /\ Continue(t, IF form[t].op = "EditUnit" THEN "unit" ELSE "commit")
    /\ UNCHANGED loaded

\* GetNullableById: a unit that is not there is a redirect.
FindUnit(t) ==
    /\ pc[t] = "unit"
    /\ \/ \E row \in units :
             /\ row.id = form[t].id
             /\ loaded' = [loaded EXCEPT ![t] = {row}]
             /\ Continue(t, IF form[t].op = "AskDeleteUnit" THEN "associations"
                            ELSE "commit")
             /\ UNCHANGED parent
       \/ /\ form[t].id \notin IdsOf(units)
          /\ Rollback(t)

\* "Can not delete if there are any unit associations related to this unit"
FindAssociations(t) ==
    /\ pc[t] = "associations"
    /\ \/ /\ form[t].id \notin used
          /\ Continue(t, "children")
          /\ UNCHANGED <<parent, loaded>>
       \/ /\ form[t].id \in used
          /\ Rollback(t)

ShowPage(t, post) ==
    /\ pages' = pages \cup {post}
    /\ EndRequest(t)
    /\ UNCHANGED <<units, schools, used, given>>

\* "Can not delete if there are any units with this as its parent"
FindChildren(t) ==
    LET children == {row \in units : row.parent = form[t].id}
    IN  /\ pc[t] = "children"
        /\ \/ /\ children = {}
              /\ ShowPage(t, [op |-> "DeleteUnit", id |-> form[t].id])
           \/ /\ children # {}
              /\ Rollback(t)

\* "Can't delete school if any units are associated with it"
FindUnits(t) ==
    LET inSchool == {row \in units : row.school = form[t].school}
    IN  /\ pc[t] = "units"
        /\ \/ /\ inSchool = {}
              /\ ShowPage(t, [op |-> "DeleteSchool", school |-> form[t].school])
           \/ /\ inSchool # {}
              /\ Rollback(t)

-----------------------------------------------------------------------------
(* The commit. *)

\* The row of a unit form, for the unit with that id.
Mapped(t, id) ==
    [id |-> id, code |-> form[t].code, school |-> form[t].school,
     parent |-> parent[t]]

\* Does the row differ from what the session loaded?
IsDirty(t) == loaded[t] # {Mapped(t, form[t].id)}

\* A slip of the step below: only the columns that changed are written.
EditChangedColumns(t, row) ==
    LET old == CHOOSE r \in loaded[t] : TRUE
        new == Mapped(t, row.id)
    IN  IF row.id = form[t].id
        THEN [column \in DOMAIN row |->
                 IF new[column] # old[column] THEN new[column] ELSE row[column]]
        ELSE row

\* Mapper.Map copies every field of the form, and NHibernate writes all columns
\* of a row that is dirty.
EditRow(t, row) ==
    IF row.id = form[t].id /\ IsDirty(t) THEN Mapped(t, row.id) ELSE row

\* What the Unit table may become; a new unit's id comes from the IDENTITY.
UnitsAfter(t) ==
    CASE form[t].op = "CreateUnit" ->
             {units \cup {Mapped(t, id)} : id \in Ids \ given}
      [] form[t].op = "EditUnit" -> {{EditRow(t, row) : row \in units}}
      [] form[t].op = "DeleteUnit" ->
             {{row \in units : row.id # form[t].id}}
      [] OTHER -> {units}

SchoolsAfter(t) ==
    CASE form[t].op = "CreateSchool" -> schools \cup {form[t].school}
      [] form[t].op = "DeleteSchool" -> schools \ {form[t].school}
      [] OTHER -> schools

\* A slip of the check below: the rows of an update are not counted.
RowOfDeleteIsThere(t) ==
    CASE form[t].op = "DeleteUnit" -> form[t].id \in IdsOf(units)
      [] form[t].op = "DeleteSchool" -> form[t].school \in schools
      [] OTHER -> TRUE

\* NHibernate counts the rows each update and delete touches; an edit that
\* changes nothing sends no update.
RowIsThere(t) ==
    CASE form[t].op = "EditUnit" -> form[t].id \in IdsOf(units) \/ ~IsDirty(t)
      [] form[t].op = "DeleteUnit" -> form[t].id \in IdsOf(units)
      [] form[t].op = "DeleteSchool" -> form[t].school \in schools
      [] OTHER -> TRUE

\* A slip of the check below: without the foreign keys.
CanCommitUnreferenced(rows, codes) == KeysHold(rows)

CanCommit(rows, codes) ==
    /\ ReferencesHold(rows, codes, used)
    /\ KeysHold(rows)

Commit(t) ==
    /\ pc[t] = "commit"
    /\ RowIsThere(t)
    /\ \E rows \in UnitsAfter(t) :
          /\ CanCommit(rows, SchoolsAfter(t))
          /\ units' = rows
          /\ schools' = SchoolsAfter(t)
          /\ given' = given \cup IdsOf(rows)
    /\ EndRequest(t)
    /\ UNCHANGED <<used, pages>>

CommitFails(t) ==
    /\ pc[t] = "commit"
    /\ \/ ~RowIsThere(t)
       \/ \E rows \in UnitsAfter(t) : ~CanCommit(rows, SchoolsAfter(t))
    /\ Rollback(t)

-----------------------------------------------------------------------------
(* The rest of the server gives users units and takes them away. *)

AssociateUnit(id) ==
    /\ id \in IdsOf(units)
    /\ used' = used \cup {id}
    /\ UNCHANGED <<units, schools, given, pages, pc, form, parent, loaded>>

RemoveAssociations(id) ==
    /\ id \in used
    /\ used' = used \ {id}
    /\ UNCHANGED <<units, schools, given, pages, pc, form, parent, loaded>>

Handle(t) ==
    \/ FindSchool(t)
    \/ FindParent(t)
    \/ FindUnit(t)
    \/ FindAssociations(t)
    \/ FindChildren(t)
    \/ FindUnits(t)
    \/ Commit(t)
    \/ CommitFails(t)

Next ==
    \/ \E t \in Threads : Submit(t) \/ Handle(t) \/ Abort(t)
    \/ \E id \in Ids : AssociateUnit(id) \/ RemoveAssociations(id)

Spec == Init /\ [][Next]_vars

-----------------------------------------------------------------------------
(* Properties. *)

\* Which requests may be where, and what their sessions have loaded.
HandlersKeepToTheirSteps ==
    \A t \in Threads :
        /\ pc[t] # "idle" => form[t] \in Forms
        /\ pc[t] = "idle" => parent[t] = NoUnit /\ loaded[t] = {}
        /\ pc[t] = "school" => form[t].op \notin {"AskDeleteUnit", "DeleteUnit"}
        /\ pc[t] = "parent" => form[t].op \in {"CreateUnit", "EditUnit"}
        /\ pc[t] = "unit" =>
              form[t].op \in {"EditUnit", "AskDeleteUnit", "DeleteUnit"}
        /\ pc[t] \in {"associations", "children"} =>
              form[t].op = "AskDeleteUnit"
        /\ pc[t] = "units" => form[t].op = "AskDeleteSchool"
        /\ pc[t] = "commit" =>
              /\ form[t].op \notin {"AskDeleteUnit", "AskDeleteSchool"}
              /\ form[t].op \in {"EditUnit", "DeleteUnit"} =>
                    \E row \in Row :
                        row.id = form[t].id /\ loaded[t] = {row}
        /\ /\ pc[t] \in {"unit", "commit"}
           /\ form[t].op \in {"CreateUnit", "EditUnit"}
           => parent[t] \in {form[t].parent, NoUnit}

TypeInv == TypeOK /\ HandlersKeepToTheirSteps

\* Two edits of a unit may overwrite each other, but they never mix: code,
\* school and parent of a unit come from one form, but for a parent that was
\* gone when the form was bound.
FormsNeverMix ==
    \A row \in units :
        \/ row \in InitUnits
        \/ \E f \in Forms :
              /\ f.op \in {"CreateUnit", "EditUnit"}
              /\ f.op = "EditUnit" => row.id = f.id
              /\ row.code = f.code /\ row.school = f.school
              /\ row.parent \in {f.parent, NoUnit}

\* "Unit Edited Successfully" is true: the unit is then as the form says, even if
\* it is being deleted by someone else, unless the form changed nothing.
EditsAreNotLost ==
    [][\A t \in Threads :
          pc[t] = "commit" /\ form[t].op = "EditUnit" /\ Commit(t) =>
              ~IsDirty(t) \/ Mapped(t, form[t].id) \in units']_vars

\* Units each of which is the parent of another of them: a loop, or several.
ParentLoop(ids, rows) ==
    \A id \in ids : \E row \in rows : row.id \in ids \ {id} /\ row.parent = id

\* The page of parents offers every unit, so edits can close a loop of parents.
\* No deletion then takes a unit out of it, not even one whose page was shown
\* before the loop was there: a loop stays until an edit opens it.
LoopsOutliveDeletions ==
    [][\A ids \in SUBSET IdsOf(units) :
          ParentLoop(ids, units) => ids \subseteq IdsOf(units')]_vars
=============================================================================
