\* One handler at a time; two reviewers and an admin, every body
\* but those that change requiredApprovals and merge in one.
CONSTANTS
    Admins = {alice}
    Reviewers = {rex, ria}
    Contents = {x, y}
    MaxRequired = 3
    Patches <- MergeAlonePatches
    Requests = {r1}
    MaxVersions = 3
    Keep = Keep
    NoHandler = NoHandler
SPECIFICATION Spec
SYMMETRY Symmetry
CHECK_DEADLOCK FALSE
INVARIANTS TypeOK ApprovedHasEnough VersionsTellTheContent
PROPERTY FollowsLifecycle
