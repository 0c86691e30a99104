SPECIFICATION Spec
CONSTANTS
    t1 = t1
    t2 = t2
    hr = hr
    travel = travel
    admin = admin
    editor = editor
    reader = reader
    NoLevel = NoLevel
    NoForm = NoForm
    Threads <- MCThreads
    Apps <- MCApps
    Roles <- MCRoles
    Forms <- MCForms
    InitApps <- MCInitApps
    InitRows <- HrRows
    InitIdentity = 2
    InitStatus <- MCInitStatus
    MaxId = 6
INVARIANTS
    ReconciliationInv
    OneFormAtATime
    RolesAreReconciled
PROPERTIES
    RetiredNamesStayTaken
    ImplementsLists
