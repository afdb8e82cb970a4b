----------------------------- MODULE MCBrowser -----------------------------
(* Small instances of Browser for TLC. *)
EXTENDS Browser, TLC

NoFaults == {}
AllFaults == {"reload", "unreachable", "error"}

(* Histories with at most MaxOverlaps different pairs of kinds of requests *)
(* under way at once, and none beyond a lost answer.                       *)
MaxOverlaps == 1
FewOverlaps == Cardinality(overlapped) <= MaxOverlaps /\ ~lost

Symmetry == Permutations(Tabs) \cup Permutations(Orgs) \cup Permutations(Calls)
=============================================================================
