------------------------------ MODULE MCMembers ------------------------------
(* A small instance of Members for TLC: a platform admin, two emails, two   *)
(* organizations and two handlers at a time.                                *)
EXTENDS Members, TLC

TwoRoles == {"ORG_ADMIN", "REVIEWER"}

(* Not explored further: a platform admin who has become a member; two      *)
(* handlers at a time after the third membership; a token and a session     *)
(* that say different things, unless a switch-org has been written into     *)
(* another user's session; two handlers at a time, a third membership or    *)
(* another such switch-org after that.                                      *)
Followed ==
    /\ \A m \in rows : m.user \notin PSAs
    /\ created = 3 => \E s \in Slots : local[s] = Idle
    /\ IF lent = {} THEN {} \in {tokens, sessions} \/ tokens = sessions
       ELSE created <= 2 /\ Cardinality(lent) = 1 /\ \E s \in Slots : local[s] = Idle

Symmetry == Permutations(Users \ PSAs) \cup Permutations(Orgs) \cup Permutations(Slots)

=============================================================================
