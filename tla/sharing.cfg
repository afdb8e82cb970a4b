\* One partner organization, a connection and its successor, two handlers.
CONSTANTS
    Owner = Owner
    Partners = {Partner}
    Conns = {c1, c2}
    Ids = {i1, i2}
    Requests = {r1, r2}
    Callers <- SomeCallers
    OwnerRoles <- AllRoles
    TheResource = TheResource
    NoOrg = NoOrg
    Absent = Absent
    NoHandler = NoHandler
SPECIFICATION Spec
SYMMETRY Symmetry
CHECK_DEADLOCK FALSE
INVARIANTS TypeOK OneActiveShare GuestRowsRestOnSharing NothingWithoutConnection AttachmentsOnDisk
PROPERTY AuditedFirst
