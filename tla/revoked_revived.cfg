CONSTANTS
    Orgs = {OrgA, OrgB}
    Conns = {c1, c2}
    Requests = {r1, r2}
    Callers <- AdminsOnly
    NoOrg = NoOrg
    NoEvent = NoEvent
SPECIFICATION Spec
CHECK_DEADLOCK FALSE
PROPERTY RevokedStaysRevoked
