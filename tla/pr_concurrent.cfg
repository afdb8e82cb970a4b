\* Two handlers at once.
CONSTANTS
    Admins = {alice}
    Reviewers = {rex}
    Contents = {x}
    MaxRequired = 2
    Patches <- OneFieldPatches
    Requests = {r1, r2}
    MaxVersions = 2
    Keep = Keep
    NoHandler = NoHandler
SPECIFICATION Spec
SYMMETRY Symmetry
CHECK_DEADLOCK FALSE
INVARIANT VersionNumbersDense
PROPERTY StatusAudited
