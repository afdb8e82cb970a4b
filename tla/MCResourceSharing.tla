------------------------- MODULE MCResourceSharing -------------------------
(***************************************************************************)
(* TLC instances of ResourceSharing: the callers, and the symmetries.      *)
(***************************************************************************)
EXTENDS ResourceSharing, TLC

AllRoles == {"ORG_ADMIN", "SUPPORT_AGENT", "REVIEWER"}

(* An owner's admin, who may do everything, an owner's reviewer, who may   *)
(* not upload, and a guest: the role of a guest is asked for nowhere.      *)
SomeCallers == [org : {Owner}, role : {"ORG_ADMIN", "REVIEWER"}]
                   \cup [org : Partners, role : {"REVIEWER"}]

Symmetry == Permutations(Conns) \cup Permutations(Ids)
                \cup Permutations(Requests) \cup Permutations(Partners)
=============================================================================
