\* Two organizations, a connection and its successor, two handlers at once;
\* no symmetry, because of the liveness property.
CONSTANTS
    Orgs = {OrgA, OrgB}
    Conns = {c1, c2}
    Requests = {r1, r2}
    Callers <- AdminsOnly
    NoOrg = NoOrg
    NoEvent = NoEvent
SPECIFICATION FairSpec
CHECK_DEADLOCK FALSE
INVARIANTS TypeOK OneLivePerPair ApprovalIsConsent
PROPERTIES FollowsLifecycle AuditedFirst RequestsEnd
