\* One handler at a time; a reviewer and an admin, every body.
CONSTANTS
    Admins = {alice}
    Reviewers = {rex}
    Contents = {x}
    MaxRequired = 2
    Patches <- AnyPatches
    Requests = {r1}
    MaxVersions = 3
    Keep = Keep
    NoHandler = NoHandler
SPECIFICATION Spec
CHECK_DEADLOCK FALSE
PROPERTY MergedFromApproved
