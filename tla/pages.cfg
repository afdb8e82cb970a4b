SPECIFICATION Spec
CONSTANTS
    Orgs = {OrgA, OrgB}
    Mine = {OrgA, OrgB}
    Me = Me
    Other = Other
    Ids = {i1}
    MaxCalls = 2
    MaxHung = 2
    MaxTouches = 1
    NoOrg = NoOrg
    Absent = Absent
    NoAnswer = NoAnswer
    Unknown = Unknown
CONSTRAINT Followed
SYMMETRY Symmetry
CHECK_DEADLOCK FALSE
INVARIANTS
    TypeOK
    SettledRows
    OffersAccepted
