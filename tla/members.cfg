SPECIFICATION Spec
CONSTANTS
    Users = {root, ann, bob}
    PSAs = {root}
    Orgs = {o1, o2}
    Roles <- TwoRoles
    MaxRows = 3
    MaxTokens = 1
    MaxSessions = 1
    Slots = {s1, s2}
    NoOrg = NoOrg
    NoRole = NoRole
    Idle = Idle
SYMMETRY Symmetry
CONSTRAINT Followed
CHECK_DEADLOCK FALSE
INVARIANTS
    TypeOK
    ClaimsEarned
    AuthorityFromAdmins
PROPERTIES
    UpdatesWhatItSaw
