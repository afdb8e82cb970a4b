--------------------------- MODULE OrgConnections ---------------------------
(***************************************************************************)
(* The cross-org connection handlers of identity-service                   *)
(* (packages/identity-service/src/services/connection.service.js): POST    *)
(* /orgs/:id/connections (requestConnection) and PATCH /connections/:id    *)
(* (respondToConnection), running concurrently.                            *)
(*                                                                         *)
(* A handler is a request slot with a program counter.  It reads the       *)
(* database and checks everything in one query and the synchronous code    *)
(* after it (idle -> audit), waits for audit-service (audit -> write),     *)
(* then writes unconditionally (write -> idle).  Between the steps of one  *)
(* request any step of another may happen: there is no transaction, lock   *)
(* or database constraint.  A rejected request (400, 403, 404, 409)        *)
(* changes nothing and is the absence of a step.                           *)
(*                                                                         *)
(* Ghost variables: applied, the events whose write has been done, and     *)
(* contended, the pairs on which two requests were ever in flight at once. *)
(***************************************************************************)
CONSTANTS Orgs,      \* organizations (never deleted)
          Conns,     \* connection ids randomUUID can return
          Callers,   \* the access tokens requests come with
          Requests,  \* slots for concurrently running handlers
          NoOrg,     \* the null activeOrgId
          NoEvent    \* the event of an idle slot

ASSUME ConstantsAssumption ==
    /\ NoOrg \notin Orgs
    /\ Callers \subseteq [org : Orgs \cup {NoOrg}, admin : BOOLEAN, psa : BOOLEAN]

VARIABLES conn,      \* OrgConnection table
          audit,     \* AuditLog table of audit-service
          pc,        \* where each handler is
          event,     \* the audit event a running handler has built
          applied,   \* ghost: events whose write has been done
          contended  \* ghost: pairs on which requests have overlapped

vars == <<conn, audit, pc, event, applied, contended>>

Statuses == {"ABSENT", "PENDING", "APPROVED", "REVOKED"}

NoRow == [status |-> "ABSENT", from |-> NoOrg, to |-> NoOrg]

Rows == {NoRow} \cup
        {row \in [status : Statuses \ {"ABSENT"}, from : Orgs, to : Orgs] : row.from # row.to}

(* The event handed to logAudit; "action" is named by the status it leads  *)
(* to, so that the write that follows sets status to action.               *)
Events == {e \in [action : Statuses \ {"ABSENT"}, entity : Conns,
                  from : Orgs, to : Orgs, actor : Callers, orgId : Orgs] : e.from # e.to}

Row(s, a, b) == [status |-> s, from |-> a, to |-> b]

Pair(c) == {conn[c].from, conn[c].to}

Live(c) == conn[c].status \in {"PENDING", "APPROVED"}

(* Mutant of LiveBetween: looks in the direction asked for only. *)
LiveFromTo(a, b) == \E c \in Conns : Live(c) /\ conn[c].from = a /\ conn[c].to = b

LiveBetween(a, b) == \E c \in Conns : Live(c) /\ Pair(c) = {a, b}

(* GET /internal/connections/status, asked by ticket- and pr-service. *)
checkStatusBetween(a, b) ==
    \E c \in Conns : conn[c].status = "APPROVED" /\ Pair(c) = {a, b}

EventPair(e) == {e.from, e.to}

Busy(r) == pc[r] # "idle"

(* An id that neither a row, an event nor a running handler has. *)
Fresh(c) == /\ conn[c] = NoRow
            /\ \A e \in audit : e.entity # c
            /\ \A r \in Requests : Busy(r) => event[r].entity # c

-----------------------------------------------------------------------------
Init ==
    /\ conn = [c \in Conns |-> NoRow]
    /\ audit = {}
    /\ pc = [r \in Requests |-> "idle"]
    /\ event = [r \in Requests |-> NoEvent]
    /\ applied = {}
    /\ contended = {}

(* requireRole(['ORG_ADMIN'], { allowPlatformAdmin: true }) on both routes. *)
PassesRoleGate(caller) == caller.psa \/ caller.admin

assertOrgAdminOrPSA(caller, orgId) ==
    caller.psa \/ (caller.org = orgId /\ caller.admin)

(* A handler has passed its checks and calls logAudit(e). *)
Start(r, e) ==
    /\ pc[r] = "idle"
    /\ pc' = [pc EXCEPT ![r] = "audit"]
    /\ event' = [event EXCEPT ![r] = e]
    /\ contended' = IF \E q \in Requests : Busy(q) /\ EventPair(event[q]) = EventPair(e)
                    THEN contended \cup {EventPair(e)} ELSE contended
    /\ UNCHANGED <<conn, audit, applied>>

Finish(r) ==
    /\ pc' = [pc EXCEPT ![r] = "idle"]
    /\ event' = [event EXCEPT ![r] = NoEvent]

(* Mutant: an organization may ask for a connection to itself. *)
RequestsItself(r, caller, orgId, targetOrgId) ==
    /\ PassesRoleGate(caller)
    /\ assertOrgAdminOrPSA(caller, orgId)
    /\ ~LiveBetween(orgId, targetOrgId)
    /\ \E c \in Conns :
          /\ Fresh(c)
          /\ Start(r, [action |-> "PENDING", entity |-> c,
                       from |-> orgId, to |-> targetOrgId,
                       actor |-> caller, orgId |-> orgId])

(* requestConnection up to its audit call: the caller may act for orgId, no *)
(* live connection exists in either direction, an id is generated.          *)
requestConnection(r, caller, orgId, targetOrgId) ==
    /\ PassesRoleGate(caller)
    /\ assertOrgAdminOrPSA(caller, orgId)
    /\ orgId # targetOrgId
    /\ ~LiveBetween(orgId, targetOrgId)
    /\ \E c \in Conns :
          /\ Fresh(c)
          /\ Start(r, [action |-> "PENDING", entity |-> c,
                       from |-> orgId, to |-> targetOrgId,
                       actor |-> caller, orgId |-> orgId])

(* Mutants of MayRespond: either end may approve; approval from any status. *)
EitherEndApproves(caller, c, status) ==
    /\ caller.psa \/ (caller.admin /\ caller.org \in Pair(c))
    /\ conn[c].status = (IF status = "APPROVED" THEN "PENDING" ELSE "APPROVED")

ApprovesAnyStatus(caller, c, status) ==
    /\ caller.psa \/ (caller.admin /\ caller.org = conn[c].to)
    /\ status = "APPROVED" \/ conn[c].status = "APPROVED"

(* Who may set a connection to status, and from which status. *)
MayRespond(caller, c, status) ==
    LET isRequesterOrgAdmin == caller.org = conn[c].from /\ caller.admin
        isTargetOrgAdmin    == caller.org = conn[c].to /\ caller.admin
    IN  \/ /\ status = "APPROVED"
           /\ caller.psa \/ isTargetOrgAdmin
           /\ conn[c].status = "PENDING"
        \/ /\ status = "REVOKED"
           /\ caller.psa \/ isRequesterOrgAdmin \/ isTargetOrgAdmin
           /\ conn[c].status = "APPROVED"

(* The org whose audit log shows the response. *)
FiledUnder(caller, c) == IF caller.org # NoOrg THEN caller.org ELSE conn[c].from

(* respondToConnection up to its audit call. *)
respondToConnection(r, caller, c, status) ==
    /\ conn[c] # NoRow
    /\ PassesRoleGate(caller)
    /\ MayRespond(caller, c, status)
    /\ Start(r, [action |-> status, entity |-> c,
                 from |-> conn[c].from, to |-> conn[c].to,
                 actor |-> caller, orgId |-> FiledUnder(caller, c)])

(* Mutant of logAudit: a failed audit call is swallowed. *)
LogsAndGoesOn(r) ==
    /\ pc[r] = "audit"
    /\ audit' \in {audit, audit \cup {event[r]}}
    /\ pc' = [pc EXCEPT ![r] = "write"]
    /\ UNCHANGED <<conn, event, applied, contended>>

(* audit-service has recorded the event and answered in time. *)
logAudit(r) ==
    /\ pc[r] = "audit"
    /\ audit' = audit \cup {event[r]}
    /\ pc' = [pc EXCEPT ![r] = "write"]
    /\ UNCHANGED <<conn, event, applied, contended>>

(* Mutant of AuditFails: the audit call has no timeout. *)
WaitsForEver(r) ==
    /\ pc[r] = "hung"
    /\ Finish(r)
    /\ UNCHANGED <<conn, audit, applied, contended>>

(* The 5 s timeout, or a refused or failed call: the handler throws         *)
(* AuditLogError.  audit-service may have recorded the event all the same.  *)
AuditFails(r) ==
    /\ pc[r] = "audit"
    /\ audit' \in {audit, audit \cup {event[r]}}
    /\ Finish(r)
    /\ UNCHANGED <<conn, applied, contended>>

(* The unconditional write at the end of both handlers: create with status *)
(* PENDING, or update of the row's status.                                 *)
Write(r) ==
    /\ pc[r] = "write"
    /\ conn' = [conn EXCEPT ![event[r].entity] =
                    Row(event[r].action, event[r].from, event[r].to)]
    /\ applied' = applied \cup {event[r]}
    /\ Finish(r)
    /\ UNCHANGED <<audit, contended>>

(* The process stops, or the write fails, after the event was recorded.  A *)
(* crash of the service is this step for each of its running handlers.     *)
Crash(r) ==
    /\ pc[r] = "write"
    /\ Finish(r)
    /\ UNCHANGED <<conn, audit, applied, contended>>

Next ==
    \E r \in Requests :
        \/ \E caller \in Callers :
              \/ \E a, b \in Orgs : requestConnection(r, caller, a, b)
              \/ \E c \in Conns, s \in {"APPROVED", "REVOKED"} :
                    respondToConnection(r, caller, c, s)
        \/ logAudit(r)
        \/ AuditFails(r)
        \/ Write(r)
        \/ Crash(r)

(* The audit call is bounded by AbortSignal.timeout(5000), so a handler    *)
(* waiting for it either gets its answer or gives up; the database         *)
(* answers.  Nothing forces audit-service to answer.                       *)
Fairness == \A r \in Requests : WF_vars(AuditFails(r)) /\ WF_vars(Write(r))

Spec == Init /\ [][Next]_vars

FairSpec == Spec /\ Fairness

-----------------------------------------------------------------------------
TypeOK ==
    /\ conn \in [Conns -> Rows]
    /\ audit \subseteq Events
    /\ pc \in [Requests -> {"idle", "audit", "write"}]
    /\ event \in [Requests -> Events \cup {NoEvent}]
    /\ \A r \in Requests : Busy(r) => event[r] \in Events
    /\ applied \subseteq Events
    /\ contended \subseteq SUBSET Orgs

(* Approval is the target organization's consent: whatever requests        *)
(* overlap or fail, a row that is or was APPROVED has an audited approval  *)
(* by an admin of its target organization or by a platform admin           *)
(* (connection.service.js:128-131), and a REVOKED one was approved before. *)
ApprovalIsConsent ==
    \A c \in Conns :
        conn[c].status \in {"APPROVED", "REVOKED"} =>
            \E e \in audit :
                /\ e.entity = c
                /\ e.action = "APPROVED"
                /\ e.actor.psa \/ (e.actor.admin /\ e.actor.org = conn[c].to)

(* The duplicate guard of requestConnection (lines 44-73) does its job for *)
(* every pair whose requests never overlapped: at most one live row, in    *)
(* whichever direction it was requested.                                   *)
OneLivePerPair ==
    \A c, d \in Conns :
        Live(c) /\ Live(d) /\ Pair(c) = Pair(d) /\ Pair(c) \notin contended
            => c = d

(* The rows follow the lifecycle of the schema's comment, each step of a   *)
(* handler being a step of ConnectionLifecycle or none: connections of a   *)
(* pair that was never contended go PENDING, APPROVED, REVOKED and never   *)
(* back, and a handler that crashed or gave up leaves no trace on them.    *)
Lifecycle == INSTANCE ConnectionLifecycle
FollowsLifecycle == Lifecycle!Spec

(* Audit first (connection.service.js:9-15): no row is written whose event *)
(* is not in the audit log, whenever audit-service fails and the handler   *)
(* dies.                                                                   *)
Trail == INSTANCE AuditFirst WITH logged <- audit
AuditedFirst == Trail!Spec

(* A hung audit-service does not hang the handler (auditClient.js:39-41):  *)
(* every request that passed its checks ends.                              *)
RequestsEnd == \A r \in Requests : Busy(r) ~> ~Busy(r)

-----------------------------------------------------------------------------
(* A claim that overlapping requests break; identity-service's             *)
(* schema.prisma:63-64: "never flip a REVOKED row back to APPROVED in      *)
(* place".                                                                 *)
RevokedStaysRevoked ==
    [][\A c \in Conns : conn[c].status = "REVOKED" => conn'[c].status = "REVOKED"]_vars
=============================================================================
