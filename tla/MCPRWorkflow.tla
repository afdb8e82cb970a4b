---------------------------- MODULE MCPRWorkflow ----------------------------
(***************************************************************************)
(* TLC instances of PRWorkflow: the PATCH bodies, and the symmetries.      *)
(***************************************************************************)
EXTENDS PRWorkflow, TLC

Given(p) == {f \in DOMAIN p : p[f] # Keep}

(* What review-console sends (prs/[id]/page.js): the content, or a status, *)
(* never both; other clients may send requiredApprovals alone.             *)
OneFieldPatches == {p \in AllPatches : Cardinality(Given(p)) = 1}

(* Every body but those that change requiredApprovals and merge in one. *)
MergeAlonePatches == {p \in AllPatches : MergesAlone(p)}

(* Every body updatePRSchema accepts. *)
AnyPatches == AllPatches

Symmetry == Permutations(Admins) \cup Permutations(Reviewers)
            \cup Permutations(Contents) \cup Permutations(Requests)
=============================================================================
