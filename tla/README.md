# Verification of the organization workspace

This directory holds TLA+ models of the platform in `packages/` and `frontend/`: small
abstract specifications of what a component promises, detailed ones that follow the
code query by query, TLC configurations that check them on small instances, and
proofs that TLAPS checks for every instance.

## 1. The system

Four Express services, each with its own PostgreSQL schema, and two Next.js front ends.

| Part | State it keeps | Operations that change it | Talks to |
|---|---|---|---|
| identity: sessions (`lib/session.js`, `services/auth.service.js`) | Redis: `refresh:<token>` (live or tombstone), `session:<userId>`; the browsers' cookie | register, login, refresh, switch-org, logout everywhere | Redis, browsers |
| identity: connections (`services/connection.service.js`) | `OrgConnection` rows | request, approve, revoke; internal status query | audit-service; asked by ticket- and pr-service |
| identity: organizations, members (`services/org.service.js`) | `Organization`, `OrgMembership`, `User` | create, add, change role, remove | read by login, switch-org and the internal role query |
| ticket-service | `Ticket`, `Comment`, `Attachment`, `TicketShare`, feature flags | ticket create/update/delete, comment, attach, share, revoke | identity (role, connection status), audit-service |
| pr-service | `PullRequest`, `PRVersion`, `PRReviewer`, `PRReview`, `PRShare` | create, edit, transition, review, assign, share, delete | identity, audit-service |
| audit-service | `AuditLog` (append-only by grants), `Notification` | record event, digest cycle, notify | asked by all services; asks ticket- and pr-service for facts |
| shared | none | `auditClient.log` (blocking, 5 s), `identityClient` (fails closed), `requireRole`, `orgScope` | |
| front ends: authentication (`packages/ui/auth`) | access token in memory, one cookie for both apps | refresh on load and on 401, login, switch, logout | identity |
| front ends: pages (`apps/*/app/dashboard`) | what the last answers brought, per page | load, filter, switch, create, edit, review, upload, delete, connect | all services |

Every mutating handler has the same skeleton: read, check, call audit-service, wait,
write. There are no locks, no version columns, and no transactions beyond one
`deleteMany` batch, so the interesting behaviour is what happens between the read
and the write.

### Hard behaviours, and what makes each part correct

- **Connections.** The duplicate check and the status check are stale when the write
  comes. Correct: one live row per pair, PENDING to APPROVED to REVOKED, no approval
  without the target's consent, event before change.
- **Review workflow.** Status is derived from reviews and `requiredApprovals` and also
  set by hand; a PATCH is up to five writes and two audit calls. Correct: approvals
  count, terminal is final, versions are dense and tell the content.
- **Sessions.** Each Redis command is atomic, a handler is not, and tabs and both front
  ends share a cookie. Correct: a token is redeemed once, its reuse or a logout leaves
  nothing live, an honest browser is never taken for a thief of its own token.
- **Sharing.** A share is created after an answer from another service about a
  connection that may be revoked meanwhile; access is re-checked on every read.
- **Digests.** The facts of a digest are several queries in two services, next to
  which tickets, reviews and memberships change; any of them may fail. Correct: a
  digest tells what was true of that member in that organization, never a false zero;
  one failure costs nobody else a digest; a cycle ends.
- **Members.** Roles live on in access tokens and in sessions after a membership is
  changed, and handlers act on memberships they looked up before. Correct: claims were
  earned, changes were made for an admin of that organization, and hit the membership
  that was looked up. Switch-org takes the user from the access token and the session
  from the cookie and does not compare them, so an authority may also be lent.
- **Authentication in the browser.** Several requests see a 401 at once, and a logout
  or a switch of organization runs beside them. Correct: no tab is thrown out by what
  is not a logout; a repeated request stays in its organization.
- **Pages.** Effects run again on a switch or a filter, nothing withdraws a request,
  and answers are applied as they come. Correct: a page whose answers came in order
  shows what the services have, and offers nothing they reject.

## 2. Modules

| Module | What it is |
|---|---|
| `ConnectionLifecycle` | abstract: the life of connection rows; the pairs on which requests overlapped are exempt by name |
| `AuditFirst` | abstract: no change without an earlier recorded event |
| `PRLifecycle` | abstract: the status of a PR; nothing is promised once requests overlapped |
| `OrgConnections` | the two connection handlers, step by step; implements the first two |
| `PRWorkflow` | create, update, review, assign and delete of one PR, query by query; implements `PRLifecycle` when undisturbed |
| `Sessions` | the refresh-token handlers of one user, one Redis command at a time, and the browsers' cookie |
| `ResourceSharing` | one ticket or PR with its shares, comments and attachments, composed with `ConnectionLifecycle` in the place of identity-service; implements `AuditFirst` |
| `Members` | organizations, memberships, and the claims that tokens and sessions carry |
| `Digest` | the scheduler's cycles, the facts of ticket- and pr-service, notifications, and the assignment of tickets |
| `Browser` | all tabs of one browser over one cookie: `AuthContext`, `apiRequest`, and the `/auth` handlers as one step each |
| `Pages` | the pages of one tab over the handlers of all services, one step each |
| `OrgConnectionsProofs`, `PRWorkflowProofs`, `SessionsProofs`, `ResourceSharingProofs`, `MembersProofs`, `DigestProofs`, `BrowserProofs`, `PagesProofs` | theorems about the module of that name, and their inductive invariants |
| `MC*` | constants, caller sets, constraints and symmetries for TLC |

`Browser` and `Pages` compose the front end with what the services promise;
`Sessions`, `PRWorkflow`, `ResourceSharing` and `OrgConnections` have those services
query by query.

### From code to state and actions

A handler is a slot in `Requests` with a program counter and its local variables. One
action is one query (or Redis command, or audit call) together with the synchronous
code around it; a rejected request changes nothing and is no step. Everything read
before an `await` is kept in the slot, as the code keeps it in a variable, and is
stale afterwards exactly as in the code. The bodies of requests come from small sets.

- `OrgConnections`: `requestConnection` and `respondToConnection` run to the audit
  call, `logAudit` or `AuditFails` is its answer (on a timeout the event may have been
  recorded), `Write` is the unconditional create or update, `Crash` a stop before it.
- `PRWorkflow`: `updatePR` decides on the row it read which writes follow
  (`DraftEdit`, `LastVersion`/`AddVersion`/`Edit`, `Required`, `Count`/`FlipAudit`/`Flip`,
  `StatusAudit`/`Status`/`Baseline`); `submitReview`, `addReviewer`, `deletePR`
  likewise. Reviews are kept as each user's latest verdict, the only thing
  `recomputeApprovalStatus` looks at.
- `Sessions`: what a handler is, is known after its first GET. `Faults` chooses among
  stops and lost answers ("crash"), requests with an old cookie that arrive late
  ("delay") and the end of a TTL ("expiry").
- `ResourceSharing`: `Resolve` is `resolveTicketAccess` or `resolvePRAccess` up to the
  call of identity-service, `Connected` or `Denied` its answer (a failure counts as
  false). Between any two steps `Identity!Next` may request, approve or revoke a
  connection; `OrgConnections` is proved to implement just that. `NoDuplicate`,
  `logAudit`, `WriteFile` and the final writes are one query each; a write that finds
  its ticket gone is refused by the foreign key, which is the step `Crash`.

- `Members`: a slot holds what `addMember`, `updateMemberRole`, `removeMember`, login
  or switch-org has looked up; its commit is the write with the constraints of the
  schema. `tokens` and `sessions` are what unexpired access tokens and live sessions say:
  login writes both, `refresh` copies a session into a token and reads no membership, and
  `SignSwitch` writes a token of its own user and, with the cookie that came along, the
  organization and role of any live session, whose user it leaves alone. Two users of one
  browser (a tab of each, one cookie) are such a pair.
- `Digest`: a running cycle has the memberships to do and, for the current one, the
  facts found so far in each service; every query is an action, so is every failure.
  `updateTicket` checks an assignee only if the body names one: a change of status goes
  through although the assignee has left the organization.
  `touched` says that the truth changed since the facts were asked for.
- `Browser`: a call is one run of `apiFetch`, login, logout or the mount effect; it
  sends, is answered (`Serve...`), and receives, each a step; the cookie leaves with
  the request and changes with the answer.
- `Pages`: `view` is the state of the open page, `calls` its requests in the order they
  were sent. The user acts (`Visit`, `switchOrg`, `setFilter`, `Submit` of anything in
  `Offers`, which is the JSX with its gates and with what its free inputs take: an
  assignee typed in where there is no list of members, any number of approvals, a file of
  any size), the services answer, the handlers of the page receive. A request whose page was left is an orphan: it is executed, its answer
  goes nowhere.

### Ghost variables

`contended`, `overlapped`, `interrupted` and `doubled` record that requests overlapped or a
handler stopped half-way; `raced` is about single tokens: those on which two refreshes, or a refresh and a
switch-org, have run at the same time; `closed` are the requests in whose whole life no
connection was approved. The code has no protection against overlap, so most promises hold only
with such an exemption; the exemption names exactly which overlap is needed to break the
promise, and everything else (all crashes, all failing audit calls, all unrelated
overlaps) stays inside the claim. Replace a ghost by FALSE or {} and TLC returns the
corresponding race. `held` and `joined` remember memberships, `lent` what a switch-org of
one user wrote into the session of another; `touched`, `overtaken`,
`failed`, `behind` and `lost` say why a digest, a tab or a page may show something old.

## 3. Runs

| Run | Instance | Shows |
|---|---|---|
| `connections` | 2 organizations with an admin each, 2 rows, 2 handlers, weak fairness | `TypeOK`, `OneLivePerPair`, `ApprovalIsConsent`, `FollowsLifecycle`, `AuditedFirst`, and that every request ends (`RequestsEnd`) |
| `pr_sequential` | 2 reviewers, an admin, 2 contents, up to 3 approvals and versions, every body but those that merge and change `requiredApprovals` in one, 1 handler with crashes | `TypeOK`, `ApprovedHasEnough`, `VersionsTellTheContent`, `FollowsLifecycle` |
| `pr_concurrent` | 1 reviewer, an admin, 2 handlers | what no interleaving breaks: `VersionNumbersDense`, `StatusAudited` |
| `sessions` | 3 tokens, a browser with any number of tabs, 2 contexts, 2 handlers, all faults | `TypeOK`, `SingleUse`, `LogoutIsComplete`, `NoStaleCookie`, `SwitchSticks`, `DeadStaysDead` |
| `sharing` | an owner and a partner organization, 2 connections, 2 rows, 2 handlers, all faults | `TypeOK`, `OneActiveShare`, `GuestRowsRestOnSharing`, `NothingWithoutConnection`, `AttachmentsOnDisk`, `AuditedFirst` |
| `members` | a platform admin and 2 users, 2 organizations, 3 memberships, 2 handlers | `TypeOK`, `ClaimsEarned`, `AuthorityFromAdmins`, `UpdatesWhatItSaw` |
| `digest` | 2 users, 2 organizations, a ticket, a PR, 3 changes, a cycle with all failures, weak fairness | `TypeOK`, `AssigneesWereMembers`, `EveryoneElseServed`, `DigestTellsTheTruth`, `CyclesEnd` |
| `browser` | 2 tabs, 2 organizations, 3 tokens, 2 calls, all faults | `TypeOK`, `SessionSurvives`, `SettledTab`, `CallsKeepTheirOrg` |
| `pages` | both front ends, 2 organizations with any roles, one row of each table, 2 requests at a time, a step of another user | `TypeOK`, `SettledRows`, `OffersAccepted` |
| `revoked_revived` | violation | a stale approval is written over a revoke |
| `pr_merge_unapproved` | violation | one PATCH un-approves and merges a PR |
| `logout_expired` | violation | a logout with an expired access token leaves the session alive |

`CHECK_DEADLOCK FALSE` is set where an instance runs out of connection ids, versions,
tokens, memberships or changes, or the PR is deleted: the bound stops it, not the program.

**Bounds.** Two handlers suffice for every race between a read and a write, which is a
matter of two; the proofs are for any number. Two rows are a connection and its successor
after a revoke, or a duplicate. The callers of `connections` are admins of the two
organizations; other roles and platform admins are covered by the theorems, for every set
of callers. Three versions are a baseline and two edits; three approvals exceed the number
of reviewers that can give them. Three tokens are two rotations, or a rotation and another
login. `MCSessions` and `MCBrowser` cut histories with more than two, or one, kinds of
overlapping pairs: the exemptions name one pair each. In `sharing`, two connections are one
and its successor after a revoke, and two rows are two shares, or a share and a comment;
partners do not affect one another, so one is enough. In `members`, three memberships are
one, its removal and its return, with another user's. One token and one session are enough
for each way claims are made, since any of them may end at any time; `Followed` leaves out
histories in which the platform admin joins an organization, in which a token and a
session say different things although nothing was lent, and, once something was lent, a
third membership and handlers that run at the same time. In `digest`, one ticket and one PR tell a
count from a false zero, three changes are enough to move a ticket in and out of a count
between two queries, and the action constraints leave out steps that commute. In `pages`,
`Followed` stops where nothing is claimed any more - a request failed, an answer is late,
somebody else made the page stale and it does not load again - where two writes are
under way at once, which the claims about answers in order do not need, and where what
does not touch one another (awaited members, requests that are refused for what they say,
a second request once somebody else's step has been loaded) would only be interleaved.

**Fairness.** `OrgConnections`: the audit call is bounded by `AbortSignal.timeout(5000)`,
so `AuditFails` is weakly fair, and the database answers, so `Write` is; nothing forces
audit-service to answer. `Digest`: what a cycle waits for ends, with an answer or an
error - `fetch` and the OpenAI client have default time limits, Prisma has one - so
`Advance` is weakly fair; a crash ends a cycle too. Nothing else has or needs fairness: no
other module claims that something must happen, since users and networks owe nothing.

## 4. Where code and documents differ

The three violation runs, and these, found while modelling (each is the
counterexample TLC gives when the ghost exemption is removed):

- Overlapping connection requests create two live rows for a pair
  (`connection.service.js:58`, against its comment at 48-57).
- A platform admin who has switched into a third organization files a response there
  (`connection.service.js:152`, against the comment at 148-150): see `FiledUnder`.
- A handler that read a PR before it was rejected or merged reopens it
  (`pr.service.js:203`, against 178-179); two overlapping submissions for review take
  two baselines (`:304`); a request for changes that read IN_REVIEW does not un-approve a
  PR approved meanwhile (`review.service.js:66`, against `api_reference.md:99`); an
  approval is counted against the `requiredApprovals` read earlier (`review.service.js:70`);
  a failing audit call late in a PATCH leaves the earlier writes (`pr.service.js:288`,
  against `auditClient.js:6-8`).
- A refresh that overlaps a logout leaves a live token outside the set
  (`session.js:109`); one that overlaps a switch-org loses the switch (`session.js:93`)
  or has its tombstone overwritten (`session.js:61`); two refreshes that both read the
  key live both succeed (`session.js:86`).
- Two overlapping `createShare` calls leave two active shares for a partner
  (`share.service.js:43`, against its comment at 39-42), of which a revoke ends one. A
  guest can be let in although its share and its connection were never active at the
  same moment (`ticket.service.js:43-51` reads them one after the other); what remains
  true is `NothingWithoutConnection`.
- Two tabs, of one front end or of both, that refresh at the same time with the cookie
  they share are taken for a thief: the second finds the tombstone of the first and all
  sessions of the user end (`session.js:80`, against `README.md:25`). One page is enough:
  it sends two requests at once (`prs/[id]/page.js:71`), and each refreshes on its 401.
  `NoStaleCookie` and `SessionSurvives` name these overlaps.
- A request repeated after a silent refresh is executed in the organization another tab
  has switched to (`apiClient.js:70`). A switch-org that overlaps the request is not
  needed: if the other tab had switched before, the page still shows the organization it
  was in, and the first of two requests repeats in the new one and brings its token to
  the tab. `CallsKeepTheirOrg` therefore speaks of requests made when the tab was not
  `behind`; that it has to was found in the attempt to prove it.
- The last admin of an organization may remove themselves (`org.service.js:102`).
- Switch-org writes into the session of whatever refresh cookie came along
  (`auth.service.js:155-157`), which keeps its own user (`session.js:60`). Where a second
  user has signed in, in another tab of the browser, a switch in the first user's tab puts
  the organization and role of the first into the session of the second, and the refreshes
  of the second mint an access token with a role its user never had
  (`auth.service.js:117-122`). `ClaimsEarned` and `AuthorityFromAdmins` name it (`lent`);
  without that exception TLC shows it.
- `dashboard/page.js:26-27` (and its like) apply answers as they come: after a switch or
  a change of filter the older list may come last and stays, and a row created just
  before a switch is put on top of the other list. The connections page keeps the rows
  of the organization left when the new role may not see any, under the text that only
  admins view them (`connections/page.js:27`, `:100-102`). The form for a new ticket or
  PR stays open after a switch to a role that may not create one (`:80`); "View diff"
  stays although the new organization may not see the PR; reviewers who are assigned
  already are offered again (`prs/[id]/page.js:306`), which answers 409. Where a support
  agent gets no list of members, an assignee is typed in (`tickets/[id]/page.js:191-201`),
  and any id that is not of a member answers 400 (`ticket.service.js:73-79`); so do 0 as
  required approvals and a file over 10 MB. `OffersAccepted` names these (`Unchecked`),
  besides the forms, the diffs and the assigned reviewers above, and says that nothing
  else that is refused is offered. After a change
  of the required approvals the reviewers are gone until the next load (`:119`). A
  failed load of a detail page says "not found" until the page is left (`:75`).

## 5. Proofs

Each theorem is about the whole specification of its module, for every value of the
constants: any number of users, organizations, rows, tokens and handlers, and any bounds.
Every invariant and action property that a passing run checks is a theorem.

| Module | Theorems |
|---|---|
| `OrgConnectionsProofs` | `TypeCorrect`, `ConsentToApproval`, `OneLiveConnection`; the handlers implement `AuditFirst` (`ConnectionsAuditedFirst`) and `ConnectionLifecycle` (`ImplementsLifecycle`) |
| `PRWorkflowProofs` | `TypeCorrect`, `StatusIsAudited`, `VersionsAreDense`, `ApprovalsSuffice`, `VersionsAreTheContent`; the workflow implements `PRLifecycle` (`LifecycleImplemented`) |
| `SessionsProofs` | `TypeCorrect`, `CookiesAreFresh`, `RotatedOnce`, `DeadIsDead`, `SwitchesStick`, `LogoutsComplete` |
| `ResourceSharingProofs` | `TypeCorrect`, `AttachmentsHaveFiles`, `SharesAreSingle`, `GuestsAreShared`, `GuestsAreConnected`; the handlers implement `AuditFirst` (`AuditFirstImplemented`) |
| `MembersProofs` | `TypeCorrect`, `OnlyEarnedClaims`, `OnlyAdminsManage`, `ChangesHitTheirRow` |
| `DigestProofs` | `TypeCorrect`, `AssigneesChecked`, `NobodyIsBlocked`, `DigestsAreTrue` |
| `BrowserProofs` | `TypeCorrect`, `SessionSurvival`, `TabsSettle`, `LoadsKeepTheirOrg` |
| `PagesProofs` | `TypeCorrect`, `SettledPagesTell`, `OffersAreAccepted` |

None of the properties is inductive: what they say of a row depends on what the handlers
in flight have read before. The invariants that are, in layers that each use the ones
before, were checked by TLC on the small instances before they were proved.

- **Connections.** A handler in flight has a row that is fresh, or the row it read and
  was allowed to change; its event is in the log once it may write; two handlers on one
  pair make the pair contended; no two handlers create the same row. Without the last
  two, the write of a request whose check is long past could not be placed.
- **Review workflow.** `TypeInv`: what a handler carries at each label. `RowsInv`: the
  number a handler is about to use leaves no gap, whoever overtakes it. `AloneInv`: of a
  handler that no other overlapped, what it read is still what is there, and from which
  labels it recounts the approvals or renews the baseline if they are wrong. `MergeInv`:
  a merge under way is of a row that is still approved. That last layer has the one
  hypothesis that is not about types, that no body changes `requiredApprovals` and merges
  at once (`MergesAlone`): with such a body the code does not implement the lifecycle,
  which is the run `pr_merge_unapproved`.
- **Sessions.** `TokenInv`: the token a handler makes is nobody else's until its answer
  arrives, a cookie has been held and is in one browser, a refresh exchanges the cookie of
  its own browser or an old one, and any two handlers that run are in `overlapped`. On it
  rests one invariant for each promise, of the form "a named overlap has happened, or":
  for `SingleUse` the overlap is one on that very token (`raced`), whatever raced on others:
  a token has one successor at most, is not live once it has one, and no two handlers that
  exchange or update it run at a time;
  for `LogoutIsComplete`, that every live token is in the user's set or is being written.
- **Sharing.** `TrailInv`: the event, and for an attachment the file, is there once the
  handler is about to write. `ShareInv`: of two handlers that share with one partner the
  partner is `doubled`, and what `createShare` found before its audit call still holds.
  `GuestInv`: a guest that is about to comment has a share, or the resource is gone, and
  whom a handler writes for has had an approved connection, through every step of
  `ConnectionLifecycle`. `NothingWithoutConnection` is inductive as it is.
- **Members.** What a handler looked up was so at some time, roles and memberships that
  ever were are remembered, and what a token or a session says was signed from one of
  them for its user, or was signed for another user and is `lent` to this one. `lent` only
  grows, so a refresh of a session, or a token that outlives it, keeps its reason.
- **Digest.** `TypeInv`: assignees were members when they were checked, no pull request
  is counted twice, notifications are numbered. `NobodyForgotten`: who was listed is
  served, failed, at hand or to come. `TruthInv`: as long as nothing `touched` the facts of
  the member at hand, every count a query has answered is true, and of the reviews, which
  take three queries, the pull requests still to look at hold all that await the member
  and are not counted yet. A step that leaves the number of awaited reviews as it was
  leaves them the same reviews, since it changes one pull request (`SameAwaiting`).
- **Browser.** `TypeInv`: what a call can be at each step and what its answer brings, and
  that any two requests under way are in `overlapped`. `SurviveInv`: while nothing named
  has happened, a refresh under way carries the cookie, which works until the refresh is
  answered with one that works, so that no refresh fails and no tab asks for a logout.
  `UserInv`: the life of a tab; whatever could sign it in again without its user overlapped
  the logout. `OrgInv`: the live tokens the browser has, or will be brought by a refresh,
  are all of one organization, which every answer under way tells and every tab shows
  that is neither `behind` nor about to be answered. A step moves all of it at once (a
  switch-org) or none of it, since no other call that could tell is under way then.
  `LoadsTell`: a load under way was made in that organization.
- **Pages.** `TypeInv`: which requests a page can have sent, and what their answers can
  bring it; requests left behind by an earlier page come first. `MembersRight`: an admin's
  page has the members of the active organization or waits for them, another role's has
  none. `PageInv` is about a page with requests under way, on which `SettledRows` says
  nothing: as long as none was overtaken or failed, its requests are in a row (`InOrder`:
  those left behind, those answered, at most one load with one of its two parts, the
  rest), so that it will show one thing after the other (`Chain`), and the last of these
  is what the services have now, unless a load is still to come (`PendingIn`) or somebody
  else wrote. A write keeps this since its answer changes what is shown as it changed the
  table: `Truly` goes from one end of the chain to the next. A handler whose answer does
  not tell enough (a review, a new version, a merge) loads again, and that is just where
  the proof needs it. On a list the requests were also made for the active organization
  and the filter that is set, or have a load behind them (`Fresh`). A settled page has no
  requests, so the end of the chain is what it shows: `SettledRows`. `OffersAccepted`
  follows from it gate by gate, since the page's gates read from the row and the token
  what those of the routes read from the table.

The assumptions on the constants are those named `...Assumption` in the modules; TLC
evaluates them in every run. They say that values standing for null are not rows or
members, that the callers of `ResourceSharing` belong to the owner or a partner, that
the tables of `Digest` are finite, and that bounds are numbers; in `Pages`, that there
is an item, and room for the baseline version that a submission for review makes, be it
somebody else's (`MaxHung` at least 1: the proof of `TypeCorrect` asked for it).

Only model-checked: `RequestsEnd` and `CyclesEnd`, since liveness under fairness is out of
the provers' reach, and the three violations. Where a run cuts histories short (the
constraints of `MCSessions`, `MCBrowser` and `MCPages`), the theorems have no
such bound: `SettledRows` holds with any number of requests under way.

## 6. Not modelled

`ShareManager`, `CommentThread` and `NotificationBell` (each repeats the pattern of the
pages over handlers that `ResourceSharing` and `Digest` have); priorities, texts, forms
and layout; the text of diffs, CSV files and digests; JWT signing, password hashing, rate
limiting, validation of bodies; seeds and scripts. A platform admin has no organization
and no pages, and is in the service modules only. `Sessions` and `Browser` are about one user; what a
request with another user's cookie does to claims is in `Members`.

## 7. What could follow

Of the code modelled here, what is left to prove is out of the provers' reach. Worth
modelling next: `ShareManager` over the handlers of `ResourceSharing`, and a page over two
tabs, which would compose `Pages` with `Browser`.
