------------------------ MODULE ConnectionLifecycle ------------------------
(***************************************************************************)
(* What identity-service promises about cross-org connections, without its *)
(* handlers: the life of the OrgConnection rows as schema.prisma and       *)
(* api_reference.md describe it.  A connection is requested, approved and  *)
(* revoked, in that order and each once; a pair of organizations has at    *)
(* most one live (PENDING or APPROVED) row; re-approval after a revoke     *)
(* needs a new row.                                                        *)
(*                                                                         *)
(* The promise is only kept by a service whose requests on one pair do not *)
(* overlap in time (there is no database constraint behind it), so the     *)
(* specification names the pairs on which requests have overlapped,        *)
(* contended, and promises nothing more about those.                       *)
(***************************************************************************)
CONSTANTS Orgs,     \* organization ids
          Conns,    \* connection ids
          NoOrg     \* the org fields of a row that does not exist

VARIABLES conn,       \* the OrgConnection table: connection id -> row
          contended   \* the pairs on which requests have overlapped

vars == <<conn, contended>>

Statuses == {"ABSENT", "PENDING", "APPROVED", "REVOKED"}

NoRow == [status |-> "ABSENT", from |-> NoOrg, to |-> NoOrg]

Row(s, a, b) == [status |-> s, from |-> a, to |-> b]

(* The two organizations a row relates, whichever of them asked. *)
Pair(c) == {conn[c].from, conn[c].to}

Live(c) == conn[c].status \in {"PENDING", "APPROVED"}

LiveBetween(a, b) == \E c \in Conns : Live(c) /\ Pair(c) = {a, b}

-----------------------------------------------------------------------------
Init == /\ conn = [c \in Conns |-> NoRow]
        /\ contended = {}

(* A new row between two organizations that have no live one. *)
Request(c, a, b) ==
    /\ a # b
    /\ conn[c] = NoRow
    /\ ~LiveBetween(a, b)
    /\ conn' = [conn EXCEPT ![c] = Row("PENDING", a, b)]
    /\ UNCHANGED contended

Approve(c) ==
    /\ conn[c].status = "PENDING"
    /\ conn' = [conn EXCEPT ![c].status = "APPROVED"]
    /\ UNCHANGED contended

Revoke(c) ==
    /\ conn[c].status = "APPROVED"
    /\ conn' = [conn EXCEPT ![c].status = "REVOKED"]
    /\ UNCHANGED contended

(* Two requests on the pair {a, b} overlap. *)
Contend(a, b) ==
    /\ a # b
    /\ contended' = contended \cup {{a, b}}
    /\ UNCHANGED conn

(* On a contended pair a row may appear beside a live one, and an existing *)
(* row may change its status out of order.                                 *)
Disordered(c, a, b, s) ==
    /\ {a, b} \in contended
    /\ conn[c] = NoRow \/ (conn[c].from = a /\ conn[c].to = b)
    /\ conn' = [conn EXCEPT ![c] = Row(s, a, b)]
    /\ UNCHANGED contended

Next ==
    \/ \E c \in Conns : Approve(c) \/ Revoke(c)
    \/ \E a, b \in Orgs : Contend(a, b)
    \/ \E c \in Conns, a, b \in Orgs :
          \/ Request(c, a, b)
          \/ \E s \in Statuses \ {"ABSENT"} : Disordered(c, a, b, s)

Spec == Init /\ [][Next]_vars
=============================================================================
