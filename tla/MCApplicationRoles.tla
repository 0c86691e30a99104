------------------------ MODULE MCApplicationRoles ------------------------
(* Instances of ApplicationRoles for TLC. *)
EXTENDS ApplicationRolesLists, TLC

CONSTANTS t1, t2, hr, travel, admin, editor, reader

MCThreads == {t1, t2}
MCApps == {hr, travel}
MCInitApps == {hr}
MCNoRows == {}
MCRoles == {admin, editor, reader}
MCInitStatus == (admin :> "active" @@ editor :> "active" @@ reader :> "absent")

Edit(app, ordered, unordered) ==
    [op |-> "Edit", app |-> app, ordered |-> ordered, unordered |-> unordered]
Create(app, ordered, unordered) ==
    [op |-> "Create", app |-> app, ordered |-> ordered,
     unordered |-> unordered]

\* hr is there with two levels; travel is not there yet.
HrRows ==
    {[id |-> 1, app |-> hr, role |-> admin, level |-> 1],
     [id |-> 2, app |-> hr, role |-> editor, level |-> 2]}

\* Two forms that reorder hr's roles, one that keeps a single role, one that
\* waits for a role to be created, and forms for an application that may not be
\* there yet.
MCForms ==
    {Edit(hr, <<editor, admin>>, <<>>),
     Edit(hr, <<>>, <<admin>>),
     Edit(hr, <<admin, reader>>, <<editor>>),
     Create(travel, <<admin>>, <<editor>>),
     Edit(travel, <<editor>>, <<>>),
     [op |-> "CreateRole", role |-> reader]}

\* The same form twice for an application without roles: Save was clicked again
\* before the answer came.
MCEmptyForms == {Edit(hr, <<admin, editor>>, <<>>)}
=============================================================================
