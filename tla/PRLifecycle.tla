---------------------------- MODULE PRLifecycle ----------------------------
(***************************************************************************)
(* The life of a pull request as pr.service.js:15-27 and api_reference.md  *)
(* promise it, whatever handler causes a step: submitted for review,       *)
(* approved and un-approved by its reviews, rejected from review, merged   *)
(* from APPROVED only, and final once rejected or merged.  The promise     *)
(* covers requests that come one after the other: disturbed says that two  *)
(* have overlapped.                                                        *)
(***************************************************************************)
VARIABLES status, disturbed

vars == <<status, disturbed>>

Init == status = "NONE" /\ disturbed = FALSE

Moves == { <<"NONE", "DRAFT">>,
           <<"DRAFT", "IN_REVIEW">>,
           <<"IN_REVIEW", "APPROVED">>, <<"APPROVED", "IN_REVIEW">>,
           <<"IN_REVIEW", "REJECTED">>, <<"APPROVED", "REJECTED">>,
           <<"APPROVED", "MERGED">> }
         \cup {"DRAFT", "IN_REVIEW", "APPROVED", "REJECTED", "MERGED"} \X {"DELETED"}

Move == /\ <<status, status'>> \in Moves
        /\ UNCHANGED disturbed

(* Two requests overlap: nothing is promised from here on. *)
Disturb == disturbed' = TRUE

Next == Move \/ Disturb

Spec == Init /\ [][Next]_vars
=============================================================================
