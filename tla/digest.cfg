SPECIFICATION Spec
CONSTANTS
    u1 = u1
    u2 = u2
    o1 = o1
    o2 = o2
    Users <- TwoUsers
    Orgs <- TwoOrgs
    Seed <- OneMember
    Tickets = {t1}
    PRs = {p1}
    Cycles = {k1}
    MaxChanges = 3
    MaxNotes = 1
    Nobody = Nobody
    NoTicket = NoTicket
    NoPR = NoPR
    NoEdit = NoEdit
    NoCycle = NoCycle
    NoMember = NoMember
ACTION_CONSTRAINT EditsUninterrupted QuietAfterwards
CHECK_DEADLOCK FALSE
INVARIANTS
    TypeOK
    AssigneesWereMembers
    EveryoneElseServed
PROPERTIES
    DigestTellsTheTruth
    CyclesEnd
