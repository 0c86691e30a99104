SPECIFICATION Spec
CONSTANTS
    t1 = t1
    t2 = t2
    hr = hr
    travel = travel
    admin = admin
    editor = editor
    reader = reader
    NoLevel = NoLevel
    NoForm = NoForm
    Threads <- MCThreads
    Apps <- MCApps
    Roles <- MCRoles
    Forms <- MCEmptyForms
    InitApps <- MCInitApps
    InitRows <- MCNoRows
    InitIdentity = 0
    InitStatus <- MCInitStatus
    MaxId = 4
INVARIANTS
    RolesAreReconciled
