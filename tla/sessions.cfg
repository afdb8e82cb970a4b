SPECIFICATION Spec
CONSTANTS
    Tokens = {t1, t2, t3}
    Devices = {d1}
    Contexts = {c1, c2}
    Requests = {r1, r2}
    Faults <- AllFaults
    NoToken = NoToken
    NoContext = NoContext
    NoHandler = NoHandler
CONSTRAINT FewDisturbances
SYMMETRY Symmetry
CHECK_DEADLOCK FALSE
INVARIANTS
    TypeOK
    SingleUse
    LogoutIsComplete
    NoStaleCookie
    SwitchSticks
PROPERTIES
    DeadStaysDead
