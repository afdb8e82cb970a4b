------------------------------ MODULE MCDigest ------------------------------
(* A small instance of Digest for TLC: one member at the beginning; the    *)
(* others may join.                                                         *)
EXTENDS Digest

CONSTANTS u1, u2, o1, o2

TwoUsers == {u1, u2}
TwoOrgs == {o1, o2}
OneMember == {<<u1, o1>>}

(* While a handler waits for its audit call no cycle makes a step.  Those   *)
(* steps read nothing of the handler, so they may as well come before its   *)
(* check or after its write.                                                *)
EditsUninterrupted == edit # NoEdit => cycle' = cycle \/ edit' = NoEdit

(* After the last notification the world stands still. *)
QuietAfterwards == changes' # changes => Cardinality(notes) < MaxNotes

=============================================================================
