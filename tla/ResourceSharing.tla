--------------------------- MODULE ResourceSharing ---------------------------
(***************************************************************************)
(* One ticket or pull request (the resource), its cross-org shares, and    *)
(* the comments and attachments of a ticket: ticket.service.js,            *)
(* share.service.js, comment.service.js and attachment.service.js of       *)
(* ticket-service.  pr-service's resolvePRAccess and share.service.js have *)
(* the same shape, without comments and attachments; what is its own is    *)
(* which roles of the owning organization may look (OwnerRoles).           *)
(*                                                                         *)
(* identity-service is represented by what it promises about connections,  *)
(* ConnectionLifecycle, whose steps happen between those of the handlers.  *)
(*                                                                         *)
(* A handler is a slot.  Its labels are the queries and calls it waits     *)
(* for: the connection status from identity-service, the duplicate check,  *)
(* the audit call, the file, the final write.  Shares, comments and        *)
(* attachments are rows of one table here; every id is random and new.     *)
(***************************************************************************)
EXTENDS FiniteSets

CONSTANTS Owner,      \* the organization the resource belongs to
          Partners,   \* the other organizations
          Conns,      \* connection ids
          Ids,        \* ids of shares, comments and attachments
          Requests,   \* slots for concurrently running handlers
          Callers,    \* the [org, role] of the access tokens requests come with
          OwnerRoles, \* the roles that may look in the owning organization
          TheResource, \* the id of the resource in its audit events
          NoOrg,      \* the org fields of a connection that does not exist
          Absent,     \* a row that does not exist
          NoHandler   \* the local variables of an idle slot

ASSUME SharingAssumption ==
    /\ Owner \notin Partners
    /\ TheResource \notin Ids
    /\ \A caller \in Callers : caller.org \in Partners \cup {Owner}
    /\ Absent \notin [kind : {"share", "comment", "attachment"},
                     org : Partners \cup {Owner}, revoked : BOOLEAN]

VARIABLES conn,       \* identity-service's OrgConnection rows
          contended,  \* ghost of ConnectionLifecycle
          resource,   \* "none", "there" or "deleted"
          row,        \* its shares, comments and attachments
          files,      \* the uploads on disk
          audit,      \* AuditLog
          applied,    \* ghost: the events whose write has been done
          pc,         \* where each handler is
          local,      \* its local variables
          doubled,    \* ghost: partners for which createShares have overlapped
          closed      \* ghost: requests in whose whole life so far the
                      \* organization had no APPROVED connection

rows == <<resource, row, files, applied>>
vars == <<conn, contended, resource, row, files, audit, applied, pc, local, doubled, closed>>

Orgs == Partners \cup {Owner}

Identity == INSTANCE ConnectionLifecycle

(* What checkConnectionApproved is told: some APPROVED row, either way. *)
Approved(p) == \E c \in Conns : conn[c].status = "APPROVED" /\ Identity!Pair(c) = {Owner, p}

Actions == {"created", "shared", "shareRevoked", "commented", "attached", "viewed", "deleted"}

(* A handler's audit event, which also says what it will write; a view has *)
(* neither.                                                                *)
Events == [action : Actions, id : Ids \cup {TheResource}]

Handlers == [event : Events, org : Orgs]

Busy(r) == pc[r] # "idle"

Share(i, p) == row[i] = [kind |-> "share", org |-> p, revoked |-> FALSE]

Shared(p) == \E i \in Ids : Share(i, p)

(* crypto.randomUUID *)
Fresh(i) == /\ row[i] = Absent
            /\ \A e \in audit : e.id # i
            /\ \A r \in Requests : Busy(r) => local[r].event.id # i

-----------------------------------------------------------------------------
Init ==
    /\ Identity!Init
    /\ resource = "none"
    /\ row = [i \in Ids |-> Absent]
    /\ files = {}
    /\ audit = {}
    /\ applied = {}
    /\ pc = [r \in Requests |-> "idle"]
    /\ local = [r \in Requests |-> NoHandler]
    /\ doubled = {}
    /\ closed = {}

Start(r, label, action, i, org) ==
    /\ pc[r] = "idle"
    /\ pc' = [pc EXCEPT ![r] = label]
    /\ local' = [local EXCEPT ![r] = [event |-> [action |-> action, id |-> i], org |-> org]]
    /\ doubled' = IF action = "shared" /\ \E q \in Requests :
                        Busy(q) /\ local[q].event.action = "shared" /\ local[q].org = org
                  THEN doubled \cup {org} ELSE doubled
    /\ UNCHANGED <<rows, audit>>

Goto(r, label) ==
    /\ pc' = [pc EXCEPT ![r] = label]
    /\ local' = [local EXCEPT ![r] = IF label = "idle" THEN NoHandler ELSE @]
    /\ UNCHANGED doubled

ownsResource(caller) == caller.org = Owner

OwnAdmin(caller) == ownsResource(caller) /\ caller.role = "ORG_ADMIN"

-----------------------------------------------------------------------------
(* The one creation of the resource that this is about. *)
createTicket(r, caller) ==
    /\ resource = "none"
    /\ \A q \in Requests : ~Busy(q)
    /\ ownsResource(caller) /\ caller.role \in {"ORG_ADMIN", "SUPPORT_AGENT"}
    /\ Start(r, "audit", "created", TheResource, Owner)

(* Mutant: the owner itself is not refused. *)
createShareWithOwner(r, caller, p, i) ==
    /\ resource = "there"
    /\ OwnAdmin(caller)
    /\ Fresh(i)
    /\ Start(r, "connection", "shared", i, p)

(* createShare up to its first await after the row: an ORG_ADMIN of the    *)
(* resource's organization shares it with another one.                     *)
createShare(r, caller, p, i) ==
    /\ resource = "there"
    /\ OwnAdmin(caller)
    /\ p # Owner
    /\ Fresh(i)
    /\ Start(r, "connection", "shared", i, p)

revokeShare(r, caller, i) ==
    /\ resource = "there"
    /\ OwnAdmin(caller)
    /\ \E p \in Partners : Share(i, p) /\ Start(r, "audit", "shareRevoked", i, p)

(* Mutant: an approved connection is enough. *)
ResolveUnshared(r, caller, granted, action, i) ==
    /\ resource = "there"
    /\ \/ /\ ownsResource(caller) /\ caller.role \in OwnerRoles
          /\ Start(r, granted, action, i, Owner)
       \/ /\ ~ownsResource(caller)
          /\ Start(r, "connection", action, i, caller.org)

(* resolveTicketAccess / resolvePRAccess up to the call of identity-       *)
(* service, which a guest without a share is not worth.  Owners go on to   *)
(* granted at once.                                                        *)
Resolve(r, caller, granted, action, i) ==
    /\ resource = "there"
    /\ \/ /\ ownsResource(caller) /\ caller.role \in OwnerRoles
          /\ Start(r, granted, action, i, Owner)
       \/ /\ ~ownsResource(caller) /\ Shared(caller.org)
          /\ Start(r, "connection", action, i, caller.org)

createComment(r, caller, i) ==
    /\ Fresh(i)
    /\ Resolve(r, caller, "audit", "commented", i)

(* GET of the ticket, its comments and attachments, or of the pull request *)
(* with its versions and diffs.                                            *)
view(r, caller) == Resolve(r, caller, "answer", "viewed", TheResource)

(* An upload, which no share opens. *)
createAttachment(r, caller, i) ==
    /\ resource = "there"
    /\ ownsResource(caller) /\ caller.role \in {"ORG_ADMIN", "SUPPORT_AGENT"}
    /\ Fresh(i)
    /\ Start(r, "audit", "attached", i, Owner)

deleteResource(r, caller) ==
    /\ resource = "there"
    /\ OwnAdmin(caller)
    /\ Start(r, "audit", "deleted", TheResource, Owner)

-----------------------------------------------------------------------------
Granted(action) == CASE action = "shared"    -> "duplicate"
                     [] action = "commented" -> "audit"
                     [] action = "viewed"    -> "answer"

(* checkConnectionApproved answers true: createShare looks for a           *)
(* duplicate, a guest is let in.                                           *)
Connected(r) ==
    /\ pc[r] = "connection"
    /\ Approved(local[r].org)
    /\ Goto(r, Granted(local[r].event.action))
    /\ UNCHANGED <<rows, audit>>

(* Mutant: a failing identity-service counts as true. *)
DeniedFailsOpen(r) ==
    /\ pc[r] = "connection"
    /\ Goto(r, Granted(local[r].event.action))
    /\ UNCHANGED <<rows, audit>>

(* It answers false, or identity-service fails, which counts as false. *)
Denied(r) ==
    /\ pc[r] = "connection"
    /\ Goto(r, "idle")
    /\ UNCHANGED <<rows, audit>>

Answer(r) ==
    /\ pc[r] = "answer"
    /\ Goto(r, "idle")
    /\ UNCHANGED <<rows, audit>>

(* Mutant: the guard is left out. *)
DuplicateUnchecked(r) ==
    /\ pc[r] = "duplicate"
    /\ Goto(r, "audit")
    /\ UNCHANGED <<rows, audit>>

(* createShare's guard against a second active share. *)
NoDuplicate(r) ==
    /\ pc[r] = "duplicate"
    /\ Goto(r, IF Shared(local[r].org) THEN "idle" ELSE "audit")
    /\ UNCHANGED <<rows, audit>>

(* Mutant: the attachment is not written to disk. *)
LogWithoutFile(r) ==
    /\ pc[r] = "audit"
    /\ audit' = audit \cup {local[r].event}
    /\ Goto(r, "write")
    /\ UNCHANGED rows

(* The event is recorded; an attachment is then written to disk. *)
logAudit(r) ==
    /\ pc[r] = "audit"
    /\ audit' = audit \cup {local[r].event}
    /\ Goto(r, IF local[r].event.action = "attached" THEN "file" ELSE "write")
    /\ UNCHANGED rows

(* Mutant: the failure is swallowed. *)
AuditFailureSwallowed(r) ==
    /\ pc[r] = "audit"
    /\ audit' \in {audit, audit \cup {local[r].event}}
    /\ Goto(r, "write")
    /\ UNCHANGED rows

(* The call fails or times out, whether the event was recorded or not. *)
AuditFails(r) ==
    /\ pc[r] = "audit"
    /\ audit' \in {audit, audit \cup {local[r].event}}
    /\ Goto(r, "idle")
    /\ UNCHANGED rows

WriteFile(r) ==
    /\ pc[r] = "file"
    /\ files' = files \cup {local[r].event.id}
    /\ Goto(r, "write")
    /\ UNCHANGED <<resource, row, applied, audit>>

Written(r) ==
    /\ pc[r] = "write"
    /\ applied' = applied \cup {local[r].event}
    /\ Goto(r, "idle")
    /\ UNCHANGED <<files, audit>>

WriteResource(r) ==
    /\ local[r].event.action = "created"
    /\ resource' = "there"
    /\ UNCHANGED row
    /\ Written(r)

(* The row of a share, comment or attachment; its foreign key makes the    *)
(* insert fail when the ticket is gone.                                    *)
RowKind == [shared |-> "share", commented |-> "comment", attached |-> "attachment"]

WriteRow(r) ==
    LET l == local[r]
    IN  /\ resource = "there"
        /\ l.event.action \in DOMAIN RowKind
        /\ row' = [row EXCEPT ![l.event.id] =
                      [kind |-> RowKind[l.event.action], org |-> l.org, revoked |-> FALSE]]
        /\ UNCHANGED resource
        /\ Written(r)

(* revokedAt is set on a row that still exists. *)
WriteRevoked(r) ==
    LET i == local[r].event.id
    IN  /\ local[r].event.action = "shareRevoked"
        /\ row[i] # Absent
        /\ row' = [row EXCEPT ![i].revoked = TRUE]
        /\ UNCHANGED resource
        /\ Written(r)

(* One transaction for the ticket and its children; the files stay. *)
WriteDelete(r) ==
    /\ local[r].event.action = "deleted"
    /\ resource = "there"
    /\ resource' = "deleted"
    /\ row' = [i \in Ids |-> Absent]
    /\ Written(r)

(* The process stops, or a query fails. *)
Crash(r) ==
    /\ Busy(r)
    /\ pc[r] # "audit"
    /\ Goto(r, "idle")
    /\ UNCHANGED <<rows, audit>>

-----------------------------------------------------------------------------
Begin(r) ==
    \E caller \in Callers :
        \/ createTicket(r, caller)
        \/ view(r, caller)
        \/ deleteResource(r, caller)
        \/ \E i \in Ids :
              \/ \E p \in Orgs : createShare(r, caller, p, i)
              \/ revokeShare(r, caller, i)
              \/ createComment(r, caller, i)
              \/ createAttachment(r, caller, i)

Advance(r) ==
    \/ Connected(r) \/ Denied(r) \/ NoDuplicate(r) \/ Answer(r)
    \/ logAudit(r) \/ AuditFails(r) \/ WriteFile(r)
    \/ pc[r] = "write" /\ (WriteResource(r) \/ WriteRow(r) \/ WriteRevoked(r) \/ WriteDelete(r))
    \/ Crash(r)

(* closed after a step: of the requests that run now, those that were in   *)
(* it or begin, and whose organization has no APPROVED connection.         *)
ClosedNext ==
    {r \in Requests : /\ pc'[r] # "idle"
                      /\ Busy(r) => r \in closed
                      /\ \A p \in Partners : local'[r].org = p => ~Approved(p)'}

Next ==
    /\ \/ \E r \in Requests : (Begin(r) \/ Advance(r)) /\ UNCHANGED <<conn, contended>>
       \/ Identity!Next /\ UNCHANGED <<rows, audit, pc, local, doubled>>
    /\ closed' = ClosedNext

Spec == Init /\ [][Next]_vars

-----------------------------------------------------------------------------
Rows == [kind : {"share"}, org : Partners, revoked : BOOLEAN]
        \cup [kind : {"comment"}, org : Orgs, revoked : {FALSE}]
        \cup [kind : {"attachment"}, org : {Owner}, revoked : {FALSE}]

TypeOK ==
    /\ conn \in [Conns -> [status : Identity!Statuses, from : Orgs \cup {NoOrg}, to : Orgs \cup {NoOrg}]]
    /\ contended \subseteq SUBSET Orgs
    /\ resource \in {"none", "there", "deleted"}
    /\ row \in [Ids -> Rows \cup {Absent}]
    /\ files \subseteq Ids
    /\ audit \subseteq Events
    /\ applied \subseteq Events
    /\ pc \in [Requests -> {"idle", "connection", "duplicate", "audit", "file", "write", "answer"}]
    /\ local \in [Requests -> Handlers \cup {NoHandler}]
    /\ \A r \in Requests :
          IF Busy(r)
          THEN local[r] \in Handlers /\ (local[r].event.action = "shared" => local[r].org \in Partners)
          ELSE local[r] = NoHandler
    /\ doubled \subseteq Partners
    /\ closed \subseteq Requests

(* At most one active share per partner (share.service.js:39-48), unless   *)
(* two createShares for that partner have overlapped.                      *)
OneActiveShare ==
    \A i, j \in Ids, p \in Partners \ doubled : Share(i, p) /\ Share(j, p) => i = j

(* Whatever a guest organization has written rests on a share of the       *)
(* resource with it, and every share on a connection that was approved     *)
(* (orgScope.js:20-47), although the three are written by different        *)
(* services, at different times, and any of them may since be revoked.     *)
GuestRowsRestOnSharing ==
    \A i \in Ids : row[i] # Absent /\ row[i].org # Owner =>
        /\ \E j \in Ids : row[j] # Absent /\ row[j].kind = "share" /\ row[j].org = row[i].org
        /\ \/ {Owner, row[i].org} \in contended
           \/ \E c \in Conns : /\ Identity!Pair(c) = {Owner, row[i].org}
                              /\ conn[c].status \in {"APPROVED", "REVOKED"}

(* A share alone is never enough (orgScope.js:35-38): nothing is shared    *)
(* with, shown to or written by an organization in a request during which  *)
(* its connection was at no moment APPROVED, whether identity-service      *)
(* answers or fails.                                                       *)
NothingWithoutConnection ==
    \A r \in closed :
        /\ local[r].org # Owner
        /\ local[r].event.action \in {"shared", "commented", "viewed"}
        => pc[r] = "connection"

(* Every attachment has its file (attachment.service.js:16-23), whatever   *)
(* fails or is deleted meanwhile; a file may be without its attachment.    *)
AttachmentsOnDisk ==
    \A i \in Ids : row[i] # Absent /\ row[i].kind = "attachment" => i \in files

(* Audit first, as for connections: no write without its recorded event.   *)
Trail == INSTANCE AuditFirst WITH logged <- audit
AuditedFirst == Trail!Spec
=============================================================================
