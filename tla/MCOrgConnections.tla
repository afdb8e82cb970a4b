-------------------------- MODULE MCOrgConnections --------------------------
(***************************************************************************)
(* TLC instances of OrgConnections: the callers.                           *)
(***************************************************************************)
EXTENDS OrgConnections, TLC

Admin(o) == [org |-> o, admin |-> TRUE, psa |-> FALSE]

(* The admins of the organizations; OrgConnectionsProofs has every caller. *)
AdminsOnly == {Admin(o) : o \in Orgs}
=============================================================================
