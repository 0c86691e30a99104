SPECIFICATION Spec
SYMMETRY Symmetry
CONSTANTS
    t1 = t1
    t2 = t2
    dean = dean
    chair = chair
    lab = lab
    c1 = c1
    c2 = c2
    c3 = c3
    arts = arts
    law = law
    NoUnit = NoUnit
    NoForm = NoForm
    Threads <- MCThreads
    Ids <- MCIds
    Codes <- MCCodes
    Schools <- MCSchools
    Forms <- MCForms
    InitUnits <- MCUnits
    InitSchools <- MCInitSchools
    InitUsed <- MCUsed
INVARIANTS
    TypeInv
    FormsNeverMix
PROPERTIES
    EditsAreNotLost
    LoopsOutliveDeletions
