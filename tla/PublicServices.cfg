\* Tokens are switched, messages edited and deleted while programs ask for them.
SPECIFICATION Spec
SYMMETRY Symmetry
CONSTANTS
    t1 = t1
    t2 = t2
    payroll = payroll
    travel = travel
    k1 = k1
    k2 = k2
    m1 = m1
    m2 = m2
    m3 = m3
    Everyone = Everyone
    NoRequest = NoRequest
    Threads <- MCThreads
    Apps <- MCApps
    TokenIds <- MCTokenIds
    MessageIds <- MCMessageIds
    Requests <- MCRequests
    InitTokens <- MCTokens
    InitMessages <- MCMessages
    MaxTime = 3
INVARIANTS
    TypeInv
    AnswersAreOfTheCall
PROPERTIES
    OnlyALaterSwitchReopens
    DeletedMessagesStayGone
