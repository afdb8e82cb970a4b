----------------------------- MODULE PRWorkflow -----------------------------
(***************************************************************************)
(* The review workflow of one pull request in pr-service                   *)
(* (packages/pr-service/src/services/pr.service.js and review.service.js): *)
(* createPR, updatePR with recomputeApprovalStatus, submitReview,          *)
(* addReviewer and deletePR, running concurrently on the same PR.          *)
(*                                                                         *)
(* A handler is a slot with a program counter and its local variables.     *)
(* One step is one query or one audit call and the synchronous code after  *)
(* it; between the steps of one handler any step of another may happen.    *)
(* A handler keeps using the row it read (cur), as the code keeps using    *)
(* "pr" and "current".  Prisma's update returns the whole row as it then   *)
(* is, so an update refreshes cur.  A request the code rejects changes     *)
(* nothing and is the absence of a step.                                   *)
(*                                                                         *)
(* Title and description are one content value.  Reviews are kept as each  *)
(* reviewer's latest verdict, which is all recomputeApprovalStatus uses.   *)
(* Every caller is an ORG_ADMIN or REVIEWER of the PR's own org.           *)
(***************************************************************************)
EXTENDS Naturals, Sequences, FiniteSets

CONSTANTS Admins,        \* ORG_ADMINs of the PR's org
          Reviewers,     \* its REVIEWERs
          Contents,      \* what title and description can be
          MaxRequired,   \* bound: the largest requiredApprovals asked for
          Patches,       \* the bodies of PATCH /prs/:id
          Requests,      \* slots for concurrently running handlers
          MaxVersions,   \* bound: no edit starts beyond this many versions
          Keep,          \* a field the body of a PATCH leaves out
          NoHandler      \* the local variables of an idle slot

Statuses == {"DRAFT", "IN_REVIEW", "APPROVED", "REJECTED", "MERGED"}

AllPatches == [content : Contents \cup {Keep}, required : (1..MaxRequired) \cup {Keep},
               status : Statuses \cup {Keep}]

ASSUME PRAssumption ==
    /\ Admins \cap Reviewers = {}
    /\ MaxRequired \in Nat \ {0}
    /\ MaxVersions \in Nat
    /\ Keep \notin Contents /\ Keep \notin 1..MaxRequired /\ Keep \notin Statuses
    /\ Patches \subseteq AllPatches

VARIABLES pr,           \* the PullRequest row
          latest,       \* each user's most recent PRReview status
          assigned,     \* PRReviewer rows
          versions,     \* PRVersion rows in the order they were created
          pc,           \* where each handler is
          local,        \* the local variables of each handler
          contended,    \* ghost: two handlers have been running at once
          interrupted   \* ghost: a handler stopped between two of its writes

db == <<pr, latest, assigned, versions>>
vars == <<pr, latest, assigned, versions, pc, local, contended, interrupted>>

Users == Admins \cup Reviewers

NoPatch == [content |-> Keep, required |-> Keep, status |-> Keep]

(* "NONE" before createPR and "DELETED" after deletePR: no row. *)
PRRows == [status : Statuses \cup {"NONE", "DELETED"}, required : 1..MaxRequired,
           content : Contents]

Exists == pr.status \notin {"NONE", "DELETED"}

Terminal(s) == s \in {"REJECTED", "MERGED"}

UnderReview(s) == s \in {"IN_REVIEW", "APPROVED"}

Handlers == [cur : PRRows,             \* "pr" / "current"
             patch : AllPatches,       \* updatePR's body
             who : Users,              \* the caller
             verdict : {"APPROVED", "CHANGES_REQUESTED", "NONE"},
             number : Nat,             \* nextVersionNumber
             to : Statuses \cup {"NONE", "DELETED"},     \* status about to be written
             logged : Statuses \cup {"NONE", "DELETED"}, \* status last audited
             wrote : BOOLEAN]          \* it has written to the database

AuditLabels == {"createAudit", "flipAudit", "statusAudit", "reviewAudit", "deleteAudit"}

Labels == AuditLabels \cup
          {"idle", "create", "draftEdit", "lastVersion", "addVersion", "edit", "required",
           "count", "flip", "status", "baseline", "review", "force", "delete", "assign"}

Busy(r) == pc[r] # "idle"

Idle == \A r \in Requests : ~Busy(r)

Begun(who, patch, verdict, to) ==
    [cur |-> pr, patch |-> patch, who |-> who, verdict |-> verdict, number |-> 0,
     to |-> to, logged |-> "NONE", wrote |-> FALSE]

-----------------------------------------------------------------------------
Init ==
    /\ \E c \in Contents, n \in 1..MaxRequired :
          pr = [status |-> "NONE", required |-> n, content |-> c]
    /\ latest = [u \in Users |-> "NONE"]
    /\ assigned = {}
    /\ versions = <<>>
    /\ pc = [r \in Requests |-> "idle"]
    /\ local = [r \in Requests |-> NoHandler]
    /\ contended = FALSE
    /\ interrupted = FALSE

(* A request has passed its synchronous checks on the row it read. *)
Start(r, label, l) ==
    /\ pc[r] = "idle"
    /\ pc' = [pc EXCEPT ![r] = label]
    /\ local' = [local EXCEPT ![r] = l]
    /\ contended' = (contended \/ ~Idle)
    /\ UNCHANGED <<db, interrupted>>

(* A running handler goes on at label with local variables l, or returns. *)
Goto(r, label, l) ==
    /\ pc' = [pc EXCEPT ![r] = label]
    /\ local' = [local EXCEPT ![r] = IF label = "idle" THEN NoHandler ELSE l]
    /\ UNCHANGED <<contended, interrupted>>

(* A query of handler r wrote the row; cur is what prisma.update returns. *)
Updated(l, row) == [l EXCEPT !.cur = row, !.wrote = TRUE]

(* What updatePR does next: content, then requiredApprovals, then status. *)
AfterRequired(l) == IF l.patch.status = Keep THEN "idle" ELSE "statusAudit"

AfterContent(l) == IF l.patch.required = Keep THEN AfterRequired(l) ELSE "required"

-----------------------------------------------------------------------------
(* Mutant: the write does not wait for the event to be recorded. *)
LogSkipped(r, label, next) ==
    /\ pc[r] = label
    /\ Goto(r, next, local[r])
    /\ UNCHANGED db

(* logAudit: audit-service records the event and answers in time. *)
LogThen(r, label, next) ==
    /\ pc[r] = label
    /\ Goto(r, next, [local[r] EXCEPT !.logged = local[r].to])
    /\ UNCHANGED db

(* The handler stops where it is. *)
Stop(r) ==
    /\ pc' = [pc EXCEPT ![r] = "idle"]
    /\ local' = [local EXCEPT ![r] = NoHandler]
    /\ interrupted' = (interrupted \/ local[r].wrote)
    /\ UNCHANGED <<db, contended>>

(* logAudit throws AuditLogError (refused, failed or timed out), which     *)
(* every handler lets through.                                             *)
AuditFails(r) == pc[r] \in AuditLabels /\ Stop(r)

(* The process stops, or a query fails: among others every update and      *)
(* insert for a PR that has been deleted meanwhile.                        *)
Crash(r) == Busy(r) /\ pc[r] \notin AuditLabels /\ Stop(r)

-----------------------------------------------------------------------------
(* createPR: the event, then the row with status DRAFT. *)
BeginCreate(r, who) ==
    /\ pr.status = "NONE"
    /\ \A q \in Requests : pc[q] \notin {"createAudit", "create"}
    /\ Start(r, "createAudit", Begun(who, NoPatch, "NONE", "DRAFT"))

CreateAudit(r) == LogThen(r, "createAudit", "create")

Create(r) ==
    /\ pc[r] = "create"
    /\ pr' = [pr EXCEPT !.status = "DRAFT"]
    /\ Goto(r, "idle", local[r])
    /\ UNCHANGED <<latest, assigned, versions>>

-----------------------------------------------------------------------------
(* Mutant: a PR may be merged while it is in review. *)
MergeFromReview(s) ==
    CASE s = "DRAFT"     -> {"IN_REVIEW"}
      [] s = "IN_REVIEW" -> {"REJECTED", "MERGED"}
      [] s = "APPROVED"  -> {"REJECTED", "MERGED"}
      [] OTHER           -> {}

(* ALLOWED_TRANSITIONS, the statuses a caller may ask for. *)
ALLOWED_TRANSITIONS(s) ==
    CASE s = "DRAFT"     -> {"IN_REVIEW"}
      [] s = "IN_REVIEW" -> {"REJECTED"}
      [] s = "APPROVED"  -> {"REJECTED", "MERGED"}
      [] OTHER           -> {}

(* updatePR up to its first await: a content edit is checked first, as are *)
(* terminal states, and which write comes first depends on the body.       *)
updatePR(r, who, patch) ==
    LET l == Begun(who, patch, "NONE", IF patch.status = Keep THEN "NONE" ELSE patch.status)
        first == IF patch.content = Keep THEN AfterContent(l)
                 ELSE IF pr.status = "DRAFT" THEN "draftEdit" ELSE "lastVersion"
    IN  /\ Exists
        /\ patch # NoPatch
        /\ patch.status # Keep => patch.status \in ALLOWED_TRANSITIONS(pr.status)
        /\ patch.content # Keep => ~Terminal(pr.status) /\ Len(versions) < MaxVersions
        /\ Start(r, first, l)

(* The in-place edit of a DRAFT. *)
DraftEdit(r) ==
    LET l == local[r]
    IN  /\ pc[r] = "draftEdit" /\ Exists
        /\ pr' = [pr EXCEPT !.content = l.patch.content]
        /\ Goto(r, AfterContent(l), Updated(l, pr'))
        /\ UNCHANGED <<latest, assigned, versions>>

Numbers == {versions[i].number : i \in DOMAIN versions}

(* Mutant: the first number is 0. *)
NumberFromZero == IF versions = <<>> THEN 0
                  ELSE (CHOOSE n \in Numbers : \A m \in Numbers : m <= n) + 1

(* Mutant: the number of versions is counted instead. *)
NumberByCount == Len(versions) + 1

NextNumber == IF versions = <<>> THEN 1
              ELSE (CHOOSE n \in Numbers : \A m \in Numbers : m <= n) + 1

(* The edit from IN_REVIEW on: read the last number, insert the version,   *)
(* update the row.                                                         *)
LastVersion(r) ==
    /\ pc[r] = "lastVersion"
    /\ Goto(r, "addVersion", [local[r] EXCEPT !.number = NextNumber])
    /\ UNCHANGED db

AddVersion(r) ==
    LET l == local[r]
    IN  /\ pc[r] = "addVersion" /\ Exists
        /\ versions' = Append(versions, [number |-> l.number, content |-> l.patch.content])
        /\ Goto(r, "edit", [l EXCEPT !.wrote = TRUE])
        /\ UNCHANGED <<pr, latest, assigned>>

Edit(r) ==
    LET l == local[r]
    IN  /\ pc[r] = "edit" /\ Exists
        /\ pr' = [pr EXCEPT !.content = l.patch.content]
        /\ Goto(r, AfterContent(l), Updated(l, pr'))
        /\ UNCHANGED <<latest, assigned, versions>>

(* Mutant: the status is not recomputed. *)
RequiredAlone(r) ==
    LET l == local[r]
    IN  /\ pc[r] = "required" /\ Exists
        /\ pr' = [pr EXCEPT !.required = l.patch.required]
        /\ Goto(r, AfterRequired(l), Updated(l, pr'))
        /\ UNCHANGED <<latest, assigned, versions>>

(* requiredApprovals is written, then the status recomputed, unless the    *)
(* row it got back is not under review.                                    *)
Required(r) ==
    LET l == local[r]
    IN  /\ pc[r] = "required" /\ Exists
        /\ pr' = [pr EXCEPT !.required = l.patch.required]
        /\ Goto(r, IF UnderReview(pr.status) THEN "count" ELSE AfterRequired(l),
                Updated(l, pr'))
        /\ UNCHANGED <<latest, assigned, versions>>

ApprovedCount == Cardinality({u \in Users : latest[u] = "APPROVED"})

(* The status recomputeApprovalStatus wants, given the row it was passed   *)
(* and the reviews it reads.                                               *)
Recomputed(row) == IF ApprovedCount >= row.required THEN "APPROVED" ELSE "IN_REVIEW"

(* recomputeApprovalStatus: read the reviews, compare with the row in hand *)
(* (not with the database).                                                *)
Count(r) ==
    LET l == local[r]
        s == Recomputed(l.cur)
    IN  /\ pc[r] = "count"
        /\ IF s = l.cur.status
           THEN Goto(r, AfterRequired(l), l)
           ELSE Goto(r, "flipAudit", [l EXCEPT !.to = s])
        /\ UNCHANGED db

FlipAudit(r) == LogThen(r, "flipAudit", "flip")

(* The flip itself; an updatePR then goes on to its status transition. *)
Flip(r) ==
    LET l == local[r]
    IN  /\ pc[r] = "flip" /\ Exists
        /\ pr' = [pr EXCEPT !.status = l.to]
        /\ Goto(r, AfterRequired(l), Updated([l EXCEPT !.to = l.patch.status], pr'))
        /\ UNCHANGED <<latest, assigned, versions>>

StatusAudit(r) == LogThen(r, "statusAudit", "status")

(* Mutant: no baseline is taken. *)
StatusWithoutBaseline(r) ==
    LET l == local[r]
    IN  /\ pc[r] = "status" /\ Exists
        /\ pr' = [pr EXCEPT !.status = l.to]
        /\ Goto(r, "idle", Updated(l, pr'))
        /\ UNCHANGED <<latest, assigned, versions>>

(* The transition the caller asked for, which was checked against the row  *)
(* read at the beginning; submitting for review also takes the baseline.   *)
Status(r) ==
    LET l == local[r]
    IN  /\ pc[r] = "status" /\ Exists
        /\ pr' = [pr EXCEPT !.status = l.to]
        /\ Goto(r, IF l.to = "IN_REVIEW" /\ l.cur.status = "DRAFT" THEN "baseline" ELSE "idle",
                Updated(l, pr'))
        /\ UNCHANGED <<latest, assigned, versions>>

Baseline(r) ==
    /\ pc[r] = "baseline" /\ Exists
    /\ versions' = Append(versions, [number |-> 1, content |-> local[r].cur.content])
    /\ Goto(r, "idle", local[r])
    /\ UNCHANGED <<pr, latest, assigned>>

-----------------------------------------------------------------------------
(* submitReview up to its first await after the checks.  Only a request    *)
(* for changes has an audit event of its own.                              *)
submitReview(r, who, verdict) ==
    /\ who \in Admins \cup assigned
    /\ UnderReview(pr.status)
    /\ Start(r, IF verdict = "CHANGES_REQUESTED" THEN "reviewAudit" ELSE "review",
             Begun(who, NoPatch, verdict, "IN_REVIEW"))

ReviewAudit(r) == LogThen(r, "reviewAudit", "review")

(* The review is inserted.  A request for changes then forces IN_REVIEW    *)
(* unless the row read at the beginning had that status; an approval       *)
(* recomputes the status from that same row.                               *)
Review(r) ==
    LET l == local[r]
        next == IF l.verdict = "APPROVED" THEN "count"
                ELSE IF l.cur.status = "IN_REVIEW" THEN "idle" ELSE "force"
    IN  /\ pc[r] = "review" /\ Exists
        /\ latest' = [latest EXCEPT ![l.who] = l.verdict]
        /\ Goto(r, next, [l EXCEPT !.wrote = TRUE])
        /\ UNCHANGED <<pr, assigned, versions>>

ForceInReview(r) ==
    /\ pc[r] = "force" /\ Exists
    /\ pr' = [pr EXCEPT !.status = "IN_REVIEW"]
    /\ Goto(r, "idle", local[r])
    /\ UNCHANGED <<latest, assigned, versions>>

(* addReviewer: the row is created after a role lookup in identity-service *)
(* (only REVIEWERs pass); the unique constraint on (prId, userId) makes a  *)
(* second insert fail.                                                     *)
addReviewer(r, admin, u) ==
    /\ Exists
    /\ u \in Reviewers \ assigned
    /\ Start(r, "assign", Begun(u, NoPatch, "NONE", "NONE"))

Assign(r) ==
    /\ pc[r] = "assign" /\ Exists
    /\ local[r].who \notin assigned
    /\ assigned' = assigned \cup {local[r].who}
    /\ Goto(r, "idle", local[r])
    /\ UNCHANGED <<pr, latest, versions>>

(* deletePR: the event, then one transaction for the PR and its children.  *)
deletePR(r, who) ==
    /\ Exists
    /\ Start(r, "deleteAudit", Begun(who, NoPatch, "NONE", "DELETED"))

DeleteAudit(r) == LogThen(r, "deleteAudit", "delete")

Delete(r) ==
    /\ pc[r] = "delete" /\ Exists
    /\ pr' = [pr EXCEPT !.status = "DELETED"]
    /\ latest' = [u \in Users |-> "NONE"]
    /\ assigned' = {}
    /\ versions' = <<>>
    /\ Goto(r, "idle", local[r])

-----------------------------------------------------------------------------
Begin(r) ==
    \/ \E a \in Admins : BeginCreate(r, a) \/ deletePR(r, a)
    \/ \E a \in Admins, p \in Patches : updatePR(r, a, p)
    \/ \E u \in Users, v \in {"APPROVED", "CHANGES_REQUESTED"} : submitReview(r, u, v)
    \/ \E a \in Admins, u \in Reviewers : addReviewer(r, a, u)

Advance(r) ==
    \/ CreateAudit(r) \/ Create(r)
    \/ DraftEdit(r) \/ LastVersion(r) \/ AddVersion(r) \/ Edit(r)
    \/ Required(r) \/ Count(r) \/ FlipAudit(r) \/ Flip(r)
    \/ StatusAudit(r) \/ Status(r) \/ Baseline(r)
    \/ ReviewAudit(r) \/ Review(r) \/ ForceInReview(r)
    \/ Assign(r)
    \/ DeleteAudit(r) \/ Delete(r)

Next == \E r \in Requests : Begin(r) \/ Advance(r) \/ AuditFails(r) \/ Crash(r)

Spec == Init /\ [][Next]_vars

-----------------------------------------------------------------------------
TypeOK ==
    /\ pr \in PRRows
    /\ latest \in [Users -> {"APPROVED", "CHANGES_REQUESTED", "NONE"}]
    /\ assigned \subseteq Reviewers
    /\ versions \in Seq([number : Nat \ {0}, content : Contents])
    /\ pc \in [Requests -> Labels]
    /\ local \in [Requests -> Handlers \cup {NoHandler}]
    /\ \A r \in Requests :
          IF Busy(r) THEN local[r] \in Handlers ELSE local[r] = NoHandler
    /\ contended \in BOOLEAN
    /\ interrupted \in BOOLEAN

(* A body that does not ask for the merge and change requiredApprovals in  *)
(* one: the merge would be checked before, and made after, the approvals   *)
(* are counted against the new number.                                     *)
MergesAlone(p) == p.status = "MERGED" => p.required = Keep

(* Requests that come one at a time move the PR along pr.service.js:15-27  *)
(* and nowhere else, also when handlers crash half way: no path reopens a  *)
(* rejected or merged PR, merges one that is not approved or returns to    *)
(* DRAFT.  Of every body: MergesAlone (see MergedFromApproved below).      *)
Lifecycle == INSTANCE PRLifecycle WITH status <- pr.status, disturbed <- contended
FollowsLifecycle == Lifecycle!Spec

(* api_reference.md:99, one request at a time: when no handler is running  *)
(* and none was cut short, APPROVED means that at least requiredApprovals  *)
(* distinct users' latest review approves, however reviews were changed    *)
(* and requiredApprovals was raised or lowered in between.                 *)
ApprovedHasEnough ==
    ~contended /\ ~interrupted /\ Idle /\ pr.status = "APPROVED"
        => ApprovedCount >= pr.required

(* schema.prisma:45-46 and pr.service.js:299-303, one request at a time:   *)
(* versions are numbered 1, 2, ... in the order they were made, and once   *)
(* review has started the last one is the PR's content, so the diffs of    *)
(* GET /prs/:id/versions/:n/diff add up to what is reviewed.               *)
VersionsTellTheContent ==
    ~contended =>
        /\ \A i \in DOMAIN versions : versions[i].number = i
        /\ ~interrupted /\ Idle /\ Exists /\ pr.status # "DRAFT" =>
              /\ versions # <<>>
              /\ versions[Len(versions)].content = pr.content

(* Under any interleaving and any crash the version numbers have no gap:   *)
(* two edits may take the same number, but version.service.js:56-62 finds  *)
(* a version n - 1 for every version n it diffs.                           *)
VersionNumbersDense == Numbers = 1..Cardinality(Numbers)

(* Audit first (pr.service.js:8-13), under any interleaving: whoever       *)
(* changes the status has before that had an event with that very status   *)
(* recorded.  The status forced by a request for changes rests on the      *)
(* event of the review.                                                    *)
StatusAudited ==
    [][pr'.status # pr.status =>
          \E r \in Requests : pc'[r] # pc[r] /\ local[r].logged = pr'.status]_vars

-----------------------------------------------------------------------------
(* A claim of the repository that the code does not keep.                 *)

(* pr.service.js:15-19: "Only these forward transitions are valid";        *)
(* "APPROVED -> MERGED is the merge action".                               *)
MergedFromApproved ==
    [][pr.status # "MERGED" /\ pr'.status = "MERGED" => pr.status = "APPROVED"]_vars
=============================================================================
