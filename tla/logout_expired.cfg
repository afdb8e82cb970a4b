SPECIFICATION Spec
CONSTANTS
    Tabs = {tab1}
    Orgs = {OrgA}
    Calls = {k1}
    MaxTokens = 2
    Faults <- NoFaults
    NoAccess = NoAccess
    NoCall = NoCall
    NoAnswer = NoAnswer
    Keep = Keep
CHECK_DEADLOCK FALSE
INVARIANT
    LogoutEndsSession
