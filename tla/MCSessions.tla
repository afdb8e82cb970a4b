----------------------------- MODULE MCSessions -----------------------------
(* Small instances of Sessions for TLC.  Tokens are only compared and taken *)
(* fresh, browsers and slots are interchangeable, so all are symmetric.     *)
EXTENDS Sessions, TLC

AllFaults == {"crash", "delay", "expiry"}

(* Histories with at most two different pairs of overlapping kinds, or     *)
(* with handlers that stop half-way and none that overlap.                 *)
FewDisturbances ==
    Cardinality(overlapped) <= (IF interrupted THEN 0 ELSE 2)

Symmetry == Permutations(Tokens) \cup Permutations(Devices)
                \cup Permutations(Requests) \cup Permutations(Contexts)

=============================================================================
