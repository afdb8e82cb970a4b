------------------------------- MODULE Pages -------------------------------
(***************************************************************************)
(* The pages of both front ends: what one tab shows, what it offers its    *)
(* user, and the requests in between.                                      *)
(*                                                                         *)
(* A page keeps what its last answers brought.  Its effects run again when *)
(* the org switcher or a filter changes; nothing withdraws a request, so   *)
(* answers come in any order and may belong to an organization that is not *)
(* the active one any more.  Only useOrgMembers cancels.  What a page      *)
(* offers is decided from what it shows and from the claims of the token;  *)
(* the services decide again from their rows.                              *)
(*                                                                         *)
(* A handler of a service is one step here; PRWorkflow, ResourceSharing    *)
(* and OrgConnections have their interleaving, Browser has the tokens.     *)
(* Texts and comments, the share list and the notifications are left out.  *)
(*                                                                         *)
(* Ghost variables, all about the page that is open: overtaken, a request  *)
(* or an answer was overtaken by a later one of the same page; failed, a   *)
(* request failed or its answer was lost; touched, somebody else changed   *)
(* something since the services answered the page's last load.             *)
(***************************************************************************)
EXTENDS Naturals, FiniteSets, Sequences, SequencesExt

CONSTANTS Orgs,         \* organizations
          Mine,         \* those the user is a member of
          Me, Other,    \* the user and another member of every organization
          Ids,          \* tickets (in support-hub) or pull requests
          MaxCalls,     \* bound: requests of the page at a time
          MaxHung,      \* bound: versions of a pull request, attachments of a ticket
          MaxTouches,   \* bound: steps of other users
          NoOrg, Absent, NoAnswer, Unknown

ASSUME PagesAssumption ==
    /\ Mine \subseteq Orgs /\ Mine # {} /\ Ids # {}
    /\ Me # Other
    /\ MaxCalls \in Nat /\ MaxHung \in Nat \ {0} /\ MaxTouches \in Nat
    /\ NoOrg \notin Orgs

VARIABLES app,        \* the front end
          role,       \* the user's role in each organization
          activeOrg,  \* activeOrgId of the token
          item,       \* tables Ticket or PullRequest, with what hangs on them
          link,       \* table OrgConnection (bound: it has room for one row)
          view,       \* the open page and its state
          members,    \* useOrgMembers: whose members it has, and for whom it waits
          calls,      \* the page's requests, in the order they were sent
          overtaken, failed, touched,   \* ghosts
          touches     \* steps of other users so far

server == <<item, link>>
ghosts == <<overtaken, failed, touched>>
vars == <<app, role, activeOrg, item, link, view, members, calls, ghosts, touches>>

OA == "ORG_ADMIN"  SA == "SUPPORT_AGENT"  REV == "REVIEWER"
Roles == {OA, SA, REV}
Users == {Me, Other}
Lists == {"tickets", "prs", "connections", "audit", "flags"}

TicketStatus == {"OPEN", "CLOSED"}
PRStatus == {"DRAFT", "IN_REVIEW", "APPROVED", "REJECTED", "MERGED"}
Filters == {"", "OPEN"}

Tickets == [org : Orgs, status : TicketStatus, files : 0..MaxHung, guests : SUBSET Orgs]
PRs == [org : Orgs, status : PRStatus, required : 1..2, approved : SUBSET Users,
        reviewers : SUBSET Users, versions : 0..MaxHung, guests : SUBSET Orgs]
Links == [from : Orgs, to : Orgs, status : {"PENDING", "APPROVED", "REVOKED"}]

(* The claims of the token that leaves with a request. *)
Claims == [org |-> activeOrg, role |-> role[activeOrg]]

NewTicket(org) == [org |-> org, status |-> "OPEN", files |-> 0, guests |-> {}]
NewPR(org) == [org |-> org, status |-> "DRAFT", required |-> 1, approved |-> {},
               reviewers |-> {}, versions |-> 0, guests |-> {}]
New(org) == IF app = "support-hub" THEN NewTicket(org) ELSE NewPR(org)

-----------------------------------------------------------------------------
(* What the services answer and what they accept. *)

requireRole(by, roles) == by.role \in roles

ownsResource(by, i) == item[i] # Absent /\ item[i].org = by.org

(* resolveTicketAccess and resolvePRAccess: the own organization, in       *)
(* pr-service without its support agents, or a share with a connection.    *)
Viewable(by, i) ==
    /\ item[i] # Absent
    /\ IF item[i].org = by.org THEN app = "support-hub" \/ by.role \in {OA, REV}
       ELSE by.org \in item[i].guests

Row(i) == [id |-> i, org |-> item[i].org, status |-> item[i].status]

listTickets(by, filter) ==
    {Row(i) : i \in {i \in Ids : Viewable(by, i) /\ (filter = "" \/ item[i].status = filter)}}

listPRs(by) == {Row(i) : i \in {i \in Ids : Viewable(by, i)}}

listConnections(by) ==
    IF link # Absent /\ by.org \in {link.from, link.to} THEN {link} ELSE {}

queryAuditLog(by, filter) == {[org |-> by.org, filter |-> filter]}

listFeatureFlags(by) == {[org |-> by.org]}

Listed(page, by, filter) ==
    CASE page = "tickets" -> listTickets(by, filter)
      [] page = "prs" -> listPRs(by)
      [] page = "connections" -> listConnections(by)
      [] page = "audit" -> queryAuditLog(by, filter)
      [] page = "flags" -> listFeatureFlags(by)

(* The gates of the routes; r is a request for item i.  An assignee is     *)
(* nobody (NoOrg), or somebody of the organization chosen.                 *)
assertValidAssignee(chosen, org) == chosen \in {NoOrg, org}

patchTicket(by, i, r) ==
    /\ requireRole(by, {OA, SA})
    /\ ownsResource(by, i)
    /\ r.do = "assign" => assertValidAssignee(r.choice, item[i].org)

postTicket(by, r) == requireRole(by, {OA, SA}) /\ assertValidAssignee(r.choice, by.org)
postPR(by) == requireRole(by, {OA})

deleteTicket(by, i) == requireRole(by, {OA}) /\ ownsResource(by, i)
postAttachment(by, i, r) == requireRole(by, {OA, SA}) /\ r.choice # "huge" /\ ownsResource(by, i)
deletePR(by, i) == requireRole(by, {OA}) /\ ownsResource(by, i)

ALLOWED_TRANSITIONS ==
    [DRAFT |-> {"IN_REVIEW"}, IN_REVIEW |-> {"REJECTED"},
     APPROVED |-> {"REJECTED", "MERGED"}, REJECTED |-> {}, MERGED |-> {}]

Terminal(i) == item[i].status \in {"REJECTED", "MERGED"}

patchPR(by, i, r) ==
    /\ requireRole(by, {OA})
    /\ ownsResource(by, i)
    /\ r.do = "required" => r.choice # 0     \* updatePRSchema: min(1)
    /\ r.do = "edit" => ~Terminal(i)
    /\ r.do = "status" => r.choice \in ALLOWED_TRANSITIONS[item[i].status]

(* The reviewers of an organization: Other, and the user if that is the    *)
(* user's role there.                                                      *)
Reviewers(org) == {Other} \cup {u \in {Me} : org \in Mine /\ role[org] = REV}

postReviewer(by, i, r) ==
    /\ requireRole(by, {OA})
    /\ ownsResource(by, i)
    /\ r.choice \in Reviewers(item[i].org) \ item[i].reviewers

postReview(by, i) ==
    /\ requireRole(by, {OA, REV})
    /\ ownsResource(by, i)
    /\ by.role = REV => Me \in item[i].reviewers
    /\ item[i].status \in {"IN_REVIEW", "APPROVED"}

(* getDiff: both versions are there. *)
getDiff(by, i, r) == Viewable(by, i) /\ r.choice \in 2..item[i].versions

postConnection(by, r) ==
    /\ requireRole(by, {OA})
    /\ r.choice # by.org
    /\ link # Absent /\ link.status # "REVOKED" => {by.org, r.choice} # {link.from, link.to}

patchConnection(by, r) ==
    /\ requireRole(by, {OA})
    /\ link # Absent
    /\ \/ r.choice = "APPROVED" /\ link.status = "PENDING" /\ by.org = link.to
       \/ r.choice = "REVOKED" /\ link.status = "APPROVED" /\ by.org \in {link.from, link.to}

Accepts(by, i, r) ==
    CASE r.do = "create" -> IF app = "support-hub" THEN postTicket(by, r) ELSE postPR(by)
      [] r.do = "request" -> postConnection(by, r)
      [] r.do = "respond" -> patchConnection(by, r)
      [] r.do = "upload" -> postAttachment(by, i, r)
      [] r.do = "delete" -> IF app = "support-hub" THEN deleteTicket(by, i) ELSE deletePR(by, i)
      [] r.do = "assign" -> patchTicket(by, i, r)
      [] r.do = "status" -> IF app = "support-hub" THEN patchTicket(by, i, r) ELSE patchPR(by, i, r)
      [] r.do \in {"edit", "required"} -> patchPR(by, i, r)
      [] r.do = "reviewer" -> postReviewer(by, i, r)
      [] r.do = "review" -> postReview(by, i)
      [] r.do = "diff" -> getDiff(by, i, r)

(* recomputeApprovalStatus *)
Recomputed(pr) ==
    IF pr.status \notin {"IN_REVIEW", "APPROVED"} THEN pr
    ELSE [pr EXCEPT !.status = IF Cardinality(pr.approved) >= pr.required
                               THEN "APPROVED" ELSE "IN_REVIEW"]

Reviewed(pr, user, verdict) ==
    IF verdict = "APPROVED" THEN Recomputed([pr EXCEPT !.approved = @ \cup {user}])
    ELSE [pr EXCEPT !.approved = @ \ {user}, !.status = "IN_REVIEW"]

(* The row after an accepted request. *)
Effect(it, r, user) ==
    CASE r.do \in {"assign", "diff"} -> it
      [] r.do = "delete" -> Absent
      [] r.do = "upload" -> [it EXCEPT !.files = @ + 1]
      [] r.do = "status" ->
            IF it.status = "DRAFT" THEN [it EXCEPT !.status = r.choice, !.versions = 1]
            ELSE [it EXCEPT !.status = r.choice]
      [] r.do = "edit" ->
            IF it.status = "DRAFT" THEN it ELSE [it EXCEPT !.versions = @ + 1]
      [] r.do = "required" -> Recomputed([it EXCEPT !.required = r.choice])
      [] r.do = "reviewer" -> [it EXCEPT !.reviewers = @ \cup {r.choice}]
      [] r.do = "review" -> Reviewed(it, user, r.choice)

-----------------------------------------------------------------------------
(* What the open page offers. *)
Detail == view.page \in {"ticket", "pr"}

isOwner == view.row # Absent /\ view.row.org = activeOrg

RoleGate(allow, owner) == owner /\ role[activeOrg] \in allow

Offer(gate, do, args) == {[do |-> do, choice |-> a] : a \in IF gate THEN args ELSE {}}

(* The buttons that open the forms for a new ticket and a new pull request. *)
NewTicketGate == view.page = "tickets" /\ RoleGate({OA, SA}, TRUE)
NewPRGate == view.page = "prs" /\ RoleGate({OA}, TRUE)

(* The form itself stays when the organization is switched, with what is   *)
(* in it; without a list of members its assignee is free text.             *)
CreateForm ==
    Offer(view.form, "create", {NoOrg} \cup IF app = "support-hub" THEN Orgs ELSE {})

canManage == role[activeOrg] = OA
canView == role[activeOrg] \in {OA, REV}

RequestForm ==
    Offer(view.page = "connections" /\ canManage, "request", Orgs)

RespondButtons ==
    UNION {Offer(canManage /\ c.status = "PENDING" /\ c.to = activeOrg, "respond", {"APPROVED"})
           \cup Offer(canManage /\ c.status = "APPROVED", "respond", {"REVOKED"}) :
              c \in IF view.page = "connections" THEN view.listed \cup view.created ELSE {}}

DeleteTicketButton == Offer(RoleGate({OA}, isOwner), "delete", {NoOrg})
StatusSelect == Offer(RoleGate({OA, SA}, isOwner), "status", TicketStatus)

(* A choice among the members, or free text where there is no list. *)
AssigneeSelect ==
    Offer(RoleGate({OA, SA}, isOwner), "assign",
          {NoOrg} \cup IF members.of # NoOrg THEN {members.of} ELSE Orgs)

(* Any file, one over the limit of 10 MB too. *)
UploadForm == Offer(RoleGate({OA, SA}, isOwner), "upload", {"file", "huge"})

TicketOffers == DeleteTicketButton \cup StatusSelect \cup AssigneeSelect \cup UploadForm

NEXT_TRANSITIONS ==
    [DRAFT |-> {"IN_REVIEW"}, IN_REVIEW |-> {"REJECTED"},
     APPROVED |-> {"MERGED", "REJECTED"}, REJECTED |-> {}, MERGED |-> {}]

isAssignedReviewer == view.row.reviewers # Unknown /\ Me \in view.row.reviewers

(* Mutant: whatever organization is active. *)
canReviewAnywhere ==
    /\ view.row.status \in {"IN_REVIEW", "APPROVED"}
    /\ role[activeOrg] = OA \/ (role[activeOrg] = REV /\ isAssignedReviewer)

canReview ==
    /\ view.row.status \in {"IN_REVIEW", "APPROVED"}
    /\ isOwner
    /\ role[activeOrg] = OA \/ (role[activeOrg] = REV /\ isAssignedReviewer)

DeletePRButton == Offer(RoleGate({OA}, isOwner), "delete", {NoOrg})
EditForm ==
    Offer(RoleGate({OA}, isOwner /\ view.row.status \notin {"REJECTED", "MERGED"}), "edit", {NoOrg})
RequiredApprovals == Offer(RoleGate({OA}, isOwner), "required", 0..2 \ {view.row.required})
TransitionButtons == Offer(RoleGate({OA}, isOwner), "status", NEXT_TRANSITIONS[view.row.status])
ReviewerSelect ==
    Offer(RoleGate({OA}, isOwner) /\ members.of # NoOrg, "reviewer", Reviewers(members.of))
ReviewButtons == Offer(canReview, "review", {"APPROVED", "CHANGES_REQUESTED"})
DiffButtons == Offer(TRUE, "diff", 2..view.extra)

PROffers ==
    DeletePRButton \cup EditForm \cup RequiredApprovals \cup TransitionButtons
        \cup ReviewerSelect \cup ReviewButtons \cup DiffButtons

Offers ==
    IF Detail THEN IF view.missing \/ view.row = Absent THEN {}
                   ELSE IF view.page = "ticket" THEN TicketOffers ELSE PROffers
    ELSE CreateForm \cup RequestForm \cup RespondButtons

-----------------------------------------------------------------------------
Blank(page, id) ==
    [page |-> page, id |-> id, filter |-> "", form |-> FALSE, listed |-> {}, created |-> {},
     row |-> Absent, extra |-> 0, missing |-> FALSE]

PagesOf(front) ==
    IF front = "support-hub" THEN {"tickets", "connections", "flags", "ticket"}
    ELSE {"prs", "audit", "pr"}

Home(front) == IF front = "support-hub" THEN "tickets" ELSE "prs"

NoMembers == [of |-> NoOrg, waits |-> {}]

Init ==
    /\ app \in {"support-hub", "review-console"}
    /\ role \in [Mine -> Roles]
    /\ activeOrg \in Mine
    /\ item \in [Ids -> {Absent} \cup {New(o) : o \in Orgs}]
    /\ link = Absent
    /\ view = Blank("none", CHOOSE i \in Ids : TRUE)
    /\ members = NoMembers
    /\ calls = <<>>
    /\ overtaken = FALSE /\ failed = FALSE /\ touched = FALSE
    /\ touches = 0

Request(r, by) ==
    [do |-> r.do, choice |-> r.choice, id |-> view'.id, by |-> by, answer |-> NoAnswer,
     extra |-> NoAnswer, late |-> FALSE, orphan |-> FALSE]

Load == [do |-> "load", choice |-> view'.filter]

(* The load of a page; it returns early for a role that is not let in. *)
Closed(page, by) ==
    \/ page = "connections" /\ by.role # OA
    \/ page = "audit" /\ by.role \notin {OA, REV}

PageLoad(page, by) == IF Closed(page, by) THEN <<>> ELSE <<Request(Load, by)>>

(* The effect of useOrgMembers: the last request is cancelled, the members *)
(* stay until the next answer or are cleared.                              *)
useOrgMembers(before, by) ==
    members' = IF view'.page \notin {"tickets", "ticket", "pr"} THEN NoMembers
               ELSE IF by.role # OA THEN [before EXCEPT !.of = NoOrg, !.waits = {}]
               ELSE [before EXCEPT !.waits = {by.org}]

Write(c) == c.do # "load"

(* Writes that are under way when their page is left are still executed,   *)
(* in any order.                                                           *)
Orphans == LET left == SetToSeq({n \in DOMAIN calls : Write(calls[n]) /\ calls[n].answer = NoAnswer})
           IN  [n \in DOMAIN left |-> [calls[left[n]] EXCEPT !.orphan = TRUE]]

(* A page is opened: by a link, or by its URL. *)
Visit(page, id) ==
    /\ view' = Blank(page, id)
    /\ calls' = Orphans \o PageLoad(page, Claims)
    /\ Len(calls') <= MaxCalls
    /\ useOrgMembers(NoMembers, Claims)
    /\ overtaken' = FALSE /\ failed' = FALSE /\ touched' = FALSE
    /\ UNCHANGED <<app, role, activeOrg, server, touches>>

(* Mutant: the list is not loaded again. *)
switchOrgAlone(org) ==
    LET by == [org |-> org, role |-> role[org]]
    IN  /\ org # activeOrg
        /\ activeOrg' = org
        /\ view' = view /\ calls' = calls
        /\ useOrgMembers(members, by)
        /\ UNCHANGED <<app, role, server, ghosts, touches>>

(* The org switcher: effects that depend on the organization run again;    *)
(* those of the detail pages depend on the id alone.                       *)
switchOrg(org) ==
    LET by == [org |-> org, role |-> role[org]]
    IN  /\ org # activeOrg
        /\ activeOrg' = org
        /\ view' = view
        /\ calls' = IF view.page \in Lists THEN calls \o PageLoad(view.page, by) ELSE calls
        /\ Len(calls') <= MaxCalls
        /\ useOrgMembers(members, by)
        /\ UNCHANGED <<app, role, server, ghosts, touches>>

(* The filter of the tickets and the one of the audit log. *)
setFilter(filter) ==
    /\ view.page \in {"tickets", "audit"}
    /\ filter # view.filter
    /\ view' = [view EXCEPT !.filter = filter]
    /\ calls' = calls \o PageLoad(view.page, Claims)
    /\ Len(calls') <= MaxCalls
    /\ UNCHANGED <<app, role, activeOrg, server, members, ghosts, touches>>

toggleForm ==
    /\ NewTicketGate \/ NewPRGate
    /\ view' = [view EXCEPT !.form = ~@]
    /\ UNCHANGED <<app, role, activeOrg, server, members, calls, ghosts, touches>>

(* The user does what the page offers.  Most controls are disabled while   *)
(* their request is under way; those of updateField and respond share one  *)
(* flag, which any answer clears.  View diff only reads, and is left out.  *)
Disabled(do) ==
    \/ do = "diff"
    \/ /\ do \in {"create", "request", "upload", "edit", "reviewer", "review"} \cup
                 {d \in {"status"} : view.page = "pr"}
       /\ \E n \in DOMAIN calls : calls[n].do = do /\ ~calls[n].orphan

Submit(r) ==
    /\ ~Disabled(r.do)
    /\ view' = view
    /\ calls' = Append(calls, Request(r, Claims))
    /\ Len(calls') <= MaxCalls
    /\ UNCHANGED <<app, role, activeOrg, server, members, ghosts, touches>>

-----------------------------------------------------------------------------
(* The services. *)
Unserved(c) ==
    c.answer = NoAnswer \/ (Detail /\ c.do = "load" /\ c.extra = NoAnswer)

(* These requests were sent before one that is further than they are. *)
Overtake(ns) == [m \in DOMAIN calls |-> IF m \in ns THEN [calls[m] EXCEPT !.late = TRUE] ELSE calls[m]]

Answer(n, field, ok, body) ==
    calls' = [Overtake({m \in 1..(n - 1) : Unserved(calls[m])})
                 EXCEPT ![n][field] = [ok |-> ok, body |-> body]]

(* A load rests on what the services have when they serve its first part. *)
Served(n, field) ==
    /\ calls[n].do = "load"
    /\ calls[n][field] = NoAnswer
    /\ touched' = (touched /\ ~(calls[n].answer = NoAnswer /\ calls[n].extra = NoAnswer))
    /\ UNCHANGED <<app, role, activeOrg, server, view, members, overtaken, failed, touches>>

ServeList(n) ==
    LET c == calls[n]
    IN  /\ ~Detail
        /\ Served(n, "answer")
        /\ Answer(n, "answer", TRUE, Listed(view.page, c.by, c.choice))

(* The row in an answer; a PATCH answers without the reviewers. *)
Body(it, reviewers) ==
    IF app = "support-hub" THEN [org |-> it.org, status |-> it.status]
    ELSE [org |-> it.org, status |-> it.status, required |-> it.required, reviewers |-> reviewers]

ServeGet(n) ==
    LET c == calls[n]
        ok == Viewable(c.by, c.id)
    IN  /\ Detail
        /\ Served(n, "answer")
        /\ Answer(n, "answer", ok,
                  IF ok THEN Body(item[c.id], IF app = "support-hub" THEN Unknown ELSE item[c.id].reviewers)
                  ELSE Absent)

(* GET of the attachments or of the versions. *)
Hung(it) == IF app = "support-hub" THEN it.files ELSE it.versions

ServeExtra(n) ==
    LET c == calls[n]
        ok == Viewable(c.by, c.id)
    IN  /\ Detail
        /\ Served(n, "extra")
        /\ Answer(n, "extra", ok,
                  IF ok THEN Hung(item[c.id]) ELSE 0)

(* The answer of a write goes to its page, if that is still there. *)
Written(n, ok, body) ==
    IF calls[n].orphan THEN /\ calls' = RemoveAt(calls, n)
                            /\ touched' = (touched \/ ok)
    ELSE Answer(n, "answer", ok, body) /\ UNCHANGED touched

Refuse(n) ==
    /\ Write(calls[n]) /\ calls[n].answer = NoAnswer
    /\ ~Accepts(calls[n].by, calls[n].id, calls[n])
    /\ Written(n, FALSE, Absent)
    /\ UNCHANGED <<app, role, activeOrg, server, view, members, overtaken, failed, touches>>

Accepted(n, dos) ==
    /\ calls[n].do \in dos /\ calls[n].answer = NoAnswer
    /\ Accepts(calls[n].by, calls[n].id, calls[n])
    /\ UNCHANGED <<app, role, activeOrg, view, members, overtaken, failed, touches>>

ServeCreate(n) ==
    /\ Accepted(n, {"create"})
    /\ \E i \in Ids :
          /\ item[i] = Absent
          /\ item' = [item EXCEPT ![i] = New(calls[n].by.org)]
          /\ Written(n, TRUE, [id |-> i, org |-> item'[i].org, status |-> item'[i].status])
    /\ UNCHANGED link

ServeLink(n) ==
    LET c == calls[n]
    IN  /\ Accepted(n, {"request", "respond"})
        /\ c.do = "request" => link = Absent
        /\ link' = IF c.do = "request"
                   THEN [from |-> c.by.org, to |-> c.choice, status |-> "PENDING"]
                   ELSE [link EXCEPT !.status = c.choice]
        /\ Written(n, TRUE, link')
        /\ UNCHANGED item

ServeWrite(n) ==
    LET c == calls[n]
    IN  /\ Accepted(n, {"status", "assign", "upload", "delete", "edit", "required", "reviewer", "review"})
        /\ item' = [item EXCEPT ![c.id] = Effect(@, c, Me)]
        /\ c.do # "delete" => Hung(item'[c.id]) <= MaxHung
        /\ Written(n, TRUE, IF item'[c.id] = Absent THEN Absent ELSE Body(item'[c.id], Unknown))
        /\ UNCHANGED link

(* A service answers an error, or nobody gets its answer. *)
ServerError(n) ==
    /\ ~calls[n].orphan
    /\ \E field \in {"answer", "extra"} :
          /\ calls[n][field] = NoAnswer
          /\ field = "extra" => Detail /\ ~Write(calls[n])
          /\ Answer(n, field, FALSE, Absent)
    /\ failed' = TRUE
    /\ UNCHANGED <<app, role, activeOrg, server, view, members, overtaken, touched, touches>>

Lost(n) ==
    /\ calls' = RemoveAt(calls, n)
    /\ failed' = TRUE
    /\ UNCHANGED <<app, role, activeOrg, server, view, members, overtaken, touched, touches>>

(* Somebody else does what the services let an admin or a reviewer do. *)
Requests ==
    Offer(TRUE, "delete", {NoOrg}) \cup
    IF app = "support-hub" THEN Offer(TRUE, "status", TicketStatus)
    ELSE Offer(TRUE, "status", PRStatus) \cup Offer(TRUE, "required", 1..2)
            \cup Offer(TRUE, "reviewer", Users)
            \cup Offer(TRUE, "review", {"APPROVED", "CHANGES_REQUESTED"})

SomebodyElse ==
    /\ touches < MaxTouches
    /\ touches' = touches + 1
    /\ touched' = TRUE
    /\ \/ \E i \in Ids, r \in Requests :
             /\ item[i] # Absent
             /\ Accepts([org |-> item[i].org, role |-> OA], i, r)
             /\ item' = [item EXCEPT ![i] = Effect(@, r, Other)]
             /\ UNCHANGED link
       \/ \E i \in Ids, o \in Orgs :     \* a share or a connection comes or goes
             /\ item[i] # Absent /\ o # item[i].org
             /\ item' = [item EXCEPT ![i].guests = IF o \in @ THEN @ \ {o} ELSE @ \cup {o}]
             /\ UNCHANGED link
       \/ \E o \in Orgs, r \in Offer(TRUE, "request", Orgs)
                              \cup Offer(TRUE, "respond", {"APPROVED", "REVOKED"}) :
             /\ app = "support-hub"
             /\ Accepts([org |-> o, role |-> OA], CHOOSE i \in Ids : TRUE, r)
             /\ r.do = "request" => link = Absent
             /\ link' = IF r.do = "request" THEN [from |-> o, to |-> r.choice, status |-> "PENDING"]
                        ELSE [link EXCEPT !.status = r.choice]
             /\ UNCHANGED item
    /\ UNCHANGED <<app, role, activeOrg, view, members, calls, overtaken, failed>>

-----------------------------------------------------------------------------
(* What the handlers of the pages do with the answers. *)
Received(n, dos) ==
    /\ calls[n].do \in dos /\ ~calls[n].orphan /\ ~Unserved(calls[n])
    /\ overtaken' = (overtaken \/ calls[n].late)
    /\ UNCHANGED <<app, role, activeOrg, server, touched, touches>>

Rest(n) == RemoveAt(Overtake(1..(n - 1)), n)

(* load() of a handler that is not an effect: with the token of now. *)
ThenLoad(n, ok) ==
    calls' = IF ok THEN Append(Rest(n), Request(Load, Claims)) ELSE Rest(n)

Ok(n) == calls[n].answer.ok

loadList(n) ==
    /\ view.page \in Lists
    /\ Received(n, {"load"})
    /\ view' = IF Ok(n) THEN [view EXCEPT !.listed = calls[n].answer.body, !.created = {}] ELSE view
    /\ calls' = Rest(n)
    /\ UNCHANGED <<members, failed>>

handleCreate(n) ==
    /\ Received(n, {"create"})
    /\ view' = IF Ok(n) THEN [view EXCEPT !.created = @ \cup {calls[n].answer.body}, !.form = FALSE]
               ELSE view
    /\ calls' = Rest(n)
    /\ UNCHANGED <<members, failed>>

handleRequest(n) ==
    /\ Received(n, {"request"})
    /\ view' = IF Ok(n) THEN [view EXCEPT !.created = @ \cup {calls[n].answer.body}] ELSE view
    /\ calls' = Rest(n)
    /\ UNCHANGED <<members, failed>>

(* map: the row with this id is replaced. *)
respond(n) ==
    LET now(rows) == IF rows = {} THEN {} ELSE {calls[n].answer.body}
    IN  /\ Received(n, {"respond"})
        /\ view' = IF Ok(n) THEN [view EXCEPT !.listed = now(@), !.created = now(@)] ELSE view
        /\ calls' = Rest(n)
        /\ UNCHANGED <<members, failed>>

(* load() of the detail pages.  Nothing resets "not found". *)
loadDetail(n) ==
    LET c == calls[n]
    IN  /\ Detail
        /\ Received(n, {"load"})
        /\ view' = IF ~Ok(n) THEN [view EXCEPT !.missing = TRUE]
                   ELSE [view EXCEPT !.row = c.answer.body,
                                     !.extra = IF c.extra.ok THEN c.extra.body ELSE @]
        /\ calls' = Rest(n)
        /\ UNCHANGED <<members, failed>>

(* Selects of the ticket: its status, its assignee. *)
updateField(n) ==
    /\ view.page = "ticket"
    /\ Received(n, {"status", "assign"})
    /\ view' = IF Ok(n) THEN [view EXCEPT !.row = calls[n].answer.body] ELSE view
    /\ calls' = Rest(n)
    /\ UNCHANGED <<members, failed>>

(* Mutant: the list becomes that of the answer, which has none. *)
handleUploadAnswer(n) ==
    /\ Received(n, {"upload"})
    /\ view' = IF Ok(n) THEN [view EXCEPT !.extra = Unknown] ELSE view
    /\ calls' = Rest(n)
    /\ UNCHANGED <<members, failed>>

handleUpload(n) ==
    /\ Received(n, {"upload"})
    /\ view' = IF Ok(n) THEN [view EXCEPT !.extra = @ + 1] ELSE view
    /\ calls' = Rest(n)
    /\ UNCHANGED <<members, failed>>

(* handleEditSave: the row of the answer, then a load. *)
handleTransition(n) ==
    /\ view.page = "pr"
    /\ Received(n, {"edit", "status"})
    /\ view' = IF Ok(n) THEN [view EXCEPT !.row = calls[n].answer.body] ELSE view
    /\ ThenLoad(n, Ok(n))
    /\ UNCHANGED <<members, failed>>

handleRequiredApprovalsChange(n) ==
    /\ Received(n, {"required"})
    /\ view' = IF Ok(n) THEN [view EXCEPT !.row = calls[n].answer.body] ELSE view
    /\ calls' = Rest(n)
    /\ UNCHANGED <<members, failed>>

(* handleAddReviewer, handleSubmitReview *)
handleSubmitReview(n) ==
    /\ Received(n, {"reviewer", "review"})
    /\ view' = view
    /\ ThenLoad(n, Ok(n))
    /\ UNCHANGED <<members, failed>>

(* Back to the list, when the service has deleted it. *)
handleDelete(n) ==
    /\ calls[n].do = "delete" /\ ~calls[n].orphan /\ calls[n].answer # NoAnswer
    /\ IF Ok(n) THEN Visit(Home(app), view.id)
       ELSE /\ Received(n, {"delete"})
            /\ calls' = Rest(n)
            /\ UNCHANGED <<view, members, failed>>

(* An answer to useOrgMembers that it still waits for. *)
setMembers(org, ok) ==
    /\ org \in members.waits
    /\ members' = [of |-> IF ok THEN org ELSE members.of, waits |-> members.waits \ {org}]
    /\ failed' = (failed \/ ~ok)
    /\ UNCHANGED <<app, role, activeOrg, server, view, calls, overtaken, touched, touches>>

-----------------------------------------------------------------------------
Navigate == \E page \in PagesOf(app) :
                \E i \in IF page \in {"ticket", "pr"} THEN Ids ELSE {view.id} : Visit(page, i)

User ==
    \/ Navigate
    \/ \E org \in Mine : switchOrg(org)
    \/ \E filter \in Filters : setFilter(filter)
    \/ toggleForm
    \/ \E r \in Offers : Submit(r)

Services ==
    \E n \in DOMAIN calls :
        \/ ServeList(n) \/ ServeGet(n) \/ ServeExtra(n)
        \/ Refuse(n) \/ ServeCreate(n) \/ ServeLink(n) \/ ServeWrite(n)
        \/ ServerError(n) \/ Lost(n)

Page ==
    \/ \E n \in DOMAIN calls :
          \/ loadList(n) \/ handleCreate(n) \/ handleRequest(n) \/ respond(n)
          \/ loadDetail(n) \/ updateField(n) \/ handleUpload(n)
          \/ handleTransition(n) \/ handleRequiredApprovalsChange(n)
          \/ handleSubmitReview(n) \/ handleDelete(n)
    \/ \E org \in Orgs, ok \in BOOLEAN : setMembers(org, ok)

Next == User \/ Services \/ Page \/ SomebodyElse

Spec == Init /\ [][Next]_vars

-----------------------------------------------------------------------------
(* Every variable has its type. *)
ListRows == [id : Ids, org : Orgs, status : TicketStatus \cup PRStatus] \cup Links
                \cup [org : Orgs, filter : Filters] \cup [org : Orgs]

DetailRows == {Absent} \cup [org : Orgs, status : TicketStatus]
                 \cup [org : Orgs, status : PRStatus, required : 1..2,
                       reviewers : {Unknown} \cup SUBSET Users]

Answers == [ok : BOOLEAN, body : Nat \cup ListRows \cup (SUBSET ListRows) \cup DetailRows]

ASSUME NothingAssumption ==
    /\ Absent \notin Tickets \cup PRs \cup Links
    /\ NoAnswer \notin Answers

TypeOK ==
    /\ role \in [Mine -> Roles] /\ activeOrg \in Mine
    /\ item \in [Ids -> {Absent} \cup (IF app = "support-hub" THEN Tickets ELSE PRs)]
    /\ link \in {Absent} \cup Links
    /\ view.page \in PagesOf(app) \cup {"none"} /\ view.id \in Ids
    /\ view.listed \subseteq ListRows /\ view.created \subseteq ListRows
    /\ view.row \in DetailRows /\ view.extra \in Nat
    /\ members.of \in Mine \cup {NoOrg} /\ members.waits \subseteq Mine
    /\ Len(calls) <= MaxCalls
    /\ \A n \in DOMAIN calls : calls[n].do # "load" => calls[n].extra = NoAnswer

(* The page has all its answers, none was lost or came out of order, and   *)
(* nobody else has changed anything since.                                 *)
Settled ==
    /\ view.page # "none"
    /\ \A n \in DOMAIN calls : calls[n].orphan
    /\ ~overtaken /\ ~failed /\ ~touched

Shown == view.listed \cup {row \in view.created :
                              view.page = "tickets" /\ view.filter # "" => row.status = view.filter}

(* What a settled page shows is what the services have: lists are those of *)
(* the active organization and of the filter that is set (a new ticket may *)
(* be shown although the filter hides it), a ticket or a pull request is   *)
(* the row of its table, with its attachments or versions, and the members *)
(* offered as assignees are those of the active organization - however the *)
(* user switched, filtered, wrote and went from page to page.  A page that *)
(* the user's role keeps closed may hold another organization's rows.      *)
SettledRows ==
    Settled =>
        /\ view.page \in Lists /\ ~Closed(view.page, Claims) =>
              Shown = Listed(view.page, Claims, view.filter)
        /\ Detail /\ ~view.missing =>
              /\ item[view.id] # Absent
              /\ view.row \in {Body(item[view.id], r) : r \in
                                  {Unknown} \cup (IF app = "review-console"
                                                  THEN {item[view.id].reviewers} ELSE {})}
              /\ view.extra = Hung(item[view.id])
        /\ members.waits = {} /\ view.page \in {"tickets", "ticket", "pr"} =>
              members.of = IF role[activeOrg] = OA THEN activeOrg ELSE NoOrg

(* A settled page offers nothing that the services reject (RoleGate.jsx:   *)
(* "keep the UI from offering an action the API is guaranteed to reject"), *)
(* in whichever organization the user has switched to meanwhile.  Not      *)
(* gated, and left out: the form for a new ticket or pull request, which   *)
(* stays open, the target of a connection, the diffs, reviewers that are   *)
(* assigned already, and what a user may type or pick but the page does    *)
(* not check: without a list of members somebody else as the assignee, no  *)
(* approval as required, a file over the limit.  Nothing is claimed while  *)
(* the members are awaited.                                                *)
Unchecked(r) ==
    \/ r.do = "assign" /\ members.of = NoOrg /\ r.choice \notin {NoOrg, activeOrg}
    \/ r.do = "required" /\ r.choice = 0
    \/ r.do = "upload" /\ r.choice = "huge"

OffersAccepted ==
    Settled =>
        /\ NewTicketGate => postTicket(Claims, [choice |-> NoOrg])
        /\ NewPRGate => postPR(Claims)
        /\ members.waits = {} => \A r \in Offers :
              \/ r.do \in {"create", "request", "diff"} \/ Unchecked(r)
              \/ r.do = "reviewer" /\ r.choice \in item[view.id].reviewers
              \/ Accepts(Claims, view.id, r)

=============================================================================
