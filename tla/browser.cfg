SPECIFICATION Spec
CONSTANTS
    Tabs = {tab1, tab2}
    Orgs = {OrgA, OrgB}
    Calls = {k1, k2}
    MaxTokens = 3
    Faults <- AllFaults
    NoAccess = NoAccess
    NoCall = NoCall
    NoAnswer = NoAnswer
    Keep = Keep
CONSTRAINT FewOverlaps
SYMMETRY Symmetry
CHECK_DEADLOCK FALSE
INVARIANTS
    TypeOK
    SessionSurvives
    SettledTab
PROPERTY
    CallsKeepTheirOrg
