----------------------- MODULE ApplicationRolesLists -----------------------
(***************************************************************************)
(* ApplicationRoles implements RoleLists.  Of the ApplicationRoles table a  *)
(* reader of levels sees, for each application, which role is at which      *)
(* level; what the threads have read and cleared so far is nothing to see.  *)
(***************************************************************************)
EXTENDS ApplicationRoles

\* An edit or a new application whose commit is next names roles there are, or
\* were: retired ones are still in the table.
PostedRolesExist ==
    \A t \in Threads :
        pc[t] = "commit" /\ form[t].op \in {"Create", "Edit"} =>
            \A i \in DOMAIN Posted(form[t]) :
                status[Posted(form[t])[i]] # "absent"

\* The roles of an application and their levels.
ListIn(rs, app) ==
    {[role |-> row.role, level |-> row.level] : row \in RowsOf(rs, app)}

Book == INSTANCE RoleLists WITH
    lists <- [app \in apps |-> ListIn(rows, app)],
    names <- status

\* However many edits of SetApplicationRoles overlap, and whatever becomes of the
\* role names meanwhile, each commit is one save: a whole ranking replaces the
\* list of one application, and no other list changes.  As with OneFormAtATime
\* it takes applications that are never without roles.
ImplementsLists == Book!Spec

=============================================================================
