------------------------------- MODULE Digest -------------------------------
(***************************************************************************)
(* The AI digest: the cycles that audit-service's scheduler starts         *)
(* (digest.service.js), the facts they ask ticket-service and pr-service   *)
(* for (facts.service.js of each), and the notifications they leave; with  *)
(* the assignment of tickets (createTicket, updateTicket), which decides   *)
(* whom the facts are about.                                               *)
(*                                                                         *)
(* The facts of one membership are collected by queries that run one after *)
(* another in each service, the two services side by side, while tickets,  *)
(* pull requests and memberships change.  A query, a service or Groq may   *)
(* fail at every step; nothing is retried in a cycle.  A cycle that is     *)
(* still running when the next one is due is not waited for.               *)
(*                                                                         *)
(* Ghost variables: joined, the memberships there have ever been; and in a *)
(* running cycle touched, that the true facts have changed since they were *)
(* asked for, and failed, the memberships without a digest because one of  *)
(* their own steps failed.                                                 *)
(***************************************************************************)
EXTENDS Naturals, FiniteSets

CONSTANTS Users, Orgs,
          Seed,        \* the memberships at the beginning
          Tickets,     \* ids a ticket can get
          PRs,         \* ids a pull request can get
          Cycles,      \* digest cycles that run at the same time
          MaxChanges,  \* bound: changes of tickets, pull requests, memberships
          MaxNotes,    \* bound: notifications
          Nobody,      \* assignedTo: null
          NoTicket, NoPR, NoEdit, NoCycle, NoMember

ASSUME DigestAssumption ==
    /\ Nobody \notin Users
    /\ Seed \subseteq Users \X Orgs
    /\ NoMember \notin Users \X Orgs
    /\ IsFiniteSet(Tickets) /\ IsFiniteSet(PRs)
    /\ MaxChanges \in Nat /\ MaxNotes \in Nat

VARIABLES members,   \* identity-service: who is a member of which organization
          ticket,    \* ticket-service: table Ticket
          pr,        \* pr-service: PullRequest, PRReviewer, PRReview
          edit,      \* a createTicket or updateTicket between check and write
          cycle,     \* what each running cycle knows
          notes,     \* audit-service: table Notification
          changes,   \* changes so far
          joined     \* ghost

world == <<members, ticket, pr, edit, changes, joined>>
vars == <<world, cycle, notes>>

Memberships == Users \X Orgs
TicketRows == [org : Orgs, to : Users \cup {Nobody}, open : BOOLEAN, old : BOOLEAN]
PRRows == [org : Orgs, inReview : BOOLEAN, reviewers : SUBSET Users, reviewed : SUBSET Users]
ASSUME NoRowAssumption == NoPR \notin PRRows

Edits == [id : Tickets, row : TicketRows, new : BOOLEAN]

TicketCounts == 0..Cardinality(Tickets)
PRCounts == 0..Cardinality(PRs)

(* What getTicketFacts and getPRFacts have found so far. *)
TicketFacts == [step : {"assigned", "overdue", "done", "null"},
                assigned : TicketCounts, overdue : TicketCounts]
PRFacts == [step : {"reviewer", "candidates", "reviews", "done", "null"},
            ids : SUBSET PRs, awaiting : PRCounts]

Running == [list : SUBSET Memberships, todo : SUBSET Memberships,
            at : Memberships \cup {NoMember},
            tf : TicketFacts, pf : PRFacts,
            touched : BOOLEAN, failed : SUBSET Memberships, served : SUBSET Memberships]

Notifications == [id : 1..MaxNotes, user : Users, org : Orgs, assigned : TicketCounts,
                  overdue : TicketCounts, awaiting : PRCounts, read : BOOLEAN]

AskTickets == [step |-> "assigned", assigned |-> 0, overdue |-> 0]
AskPRs == [step |-> "reviewer", ids |-> {}, awaiting |-> 0]

Init ==
    /\ members = Seed
    /\ ticket = [t \in Tickets |-> NoTicket]
    /\ pr = [p \in PRs |-> NoPR]
    /\ edit = NoEdit
    /\ cycle = [k \in Cycles |-> NoCycle]
    /\ notes = {}
    /\ changes = 0
    /\ joined = Seed

-----------------------------------------------------------------------------
(* The queries, for a user and an organization. *)
TicketsOf(u, o) == {t \in Tickets : ticket[t] # NoTicket /\ ticket[t].org = o
                                      /\ ticket[t].to = u /\ ticket[t].open}

(* Mutant: orgId is not part of the query. *)
AssignedAnywhere(u, o) ==
    Cardinality({t \in Tickets : ticket[t] # NoTicket /\ ticket[t].to = u /\ ticket[t].open})

Assigned(u, o) == Cardinality(TicketsOf(u, o))

Overdue(u, o) == Cardinality({t \in TicketsOf(u, o) : ticket[t].old})

ReviewerOf(u) == {p \in PRs : pr[p] # NoPR /\ u \in pr[p].reviewers}

Candidates(ids, o) == {p \in ids : pr[p] # NoPR /\ pr[p].org = o /\ pr[p].inReview}

(* What is true of a member at this moment. *)
Facts(m) ==
    LET mine == {t \in Tickets : ticket[t] # NoTicket /\ ticket[t].open
                                    /\ <<ticket[t].to, ticket[t].org>> = m}
    IN  [assigned |-> Cardinality(mine),
         overdue |-> Cardinality({t \in mine : ticket[t].old}),
         awaiting |-> Cardinality({p \in PRs : pr[p] # NoPR /\ pr[p].inReview /\ pr[p].org = m[2]
                                        /\ m[1] \in pr[p].reviewers \ pr[p].reviewed})]

At(k) == cycle[k].at

Collecting(k) == cycle[k] # NoCycle /\ At(k) # NoMember

(* A change outside of the digest; what a cycle is collecting may now be   *)
(* out of date.                                                            *)
Change ==
    /\ changes < MaxChanges
    /\ changes' = changes + 1
    /\ cycle' = [k \in Cycles |->
                    IF Collecting(k) /\ \E m \in {At(k)} : Facts(m)' # Facts(m)
                    THEN [cycle[k] EXCEPT !.touched = TRUE] ELSE cycle[k]]
    /\ UNCHANGED notes

-----------------------------------------------------------------------------
(* Memberships and reviews, whose handlers Members and PRWorkflow model. *)
Join(m) ==
    /\ members' = members \cup {m}
    /\ joined' = joined \cup {m}
    /\ UNCHANGED <<ticket, pr, edit>>
    /\ Change

Leave(m) ==
    /\ members' = members \ {m}
    /\ UNCHANGED <<ticket, pr, edit, joined>>
    /\ Change

(* A draft counts nowhere, so a pull request is there from the time it is  *)
(* first in review.                                                        *)
createPR(p, o) ==
    /\ pr[p] = NoPR
    /\ pr' = [pr EXCEPT ![p] = [org |-> o, inReview |-> TRUE, reviewers |-> {}, reviewed |-> {}]]
    /\ UNCHANGED <<members, ticket, edit, joined>>
    /\ Change

addReviewer(p, u) ==
    /\ pr[p] # NoPR
    /\ <<u, pr[p].org>> \in members
    /\ pr' = [pr EXCEPT ![p].reviewers = @ \cup {u}]
    /\ UNCHANGED <<members, ticket, edit, joined>>
    /\ Change

(* In review or approved. *)
submitReview(p, u) ==
    /\ pr[p] # NoPR
    /\ u \in pr[p].reviewers
    /\ pr' = [pr EXCEPT ![p].reviewed = @ \cup {u}]
    /\ UNCHANGED <<members, ticket, edit, joined>>
    /\ Change

(* A transition into review or out of it. *)
updatePR(p) ==
    /\ pr[p] # NoPR
    /\ pr' = [pr EXCEPT ![p].inReview = ~@]
    /\ UNCHANGED <<members, ticket, edit, joined>>
    /\ Change

-----------------------------------------------------------------------------
(* Mutant: a failing identity-service counts as a member. *)
AnyAssignee(to, o) == TRUE

(* No assignee, or one whom identity-service calls a member of the         *)
(* organization right now; its failure counts as no.                       *)
assertValidAssignee(to, o) == to = Nobody \/ <<to, o>> \in members

(* createTicket and updateTicket of a caller of organization o, up to and  *)
(* with the check of the assignee.  An update that names none checks none, *)
(* and the ticket keeps the assignee it has, a member still or not.        *)
createTicket(t, o, to) ==
    /\ edit = NoEdit
    /\ ticket[t] = NoTicket
    /\ assertValidAssignee(to, o)
    /\ edit' = [id |-> t, new |-> TRUE,
                row |-> [org |-> o, to |-> to, open |-> TRUE, old |-> FALSE]]
    /\ UNCHANGED <<members, ticket, pr, changes, joined, cycle, notes>>

updateTicket(t, o, to, open) ==
    /\ edit = NoEdit
    /\ ticket[t] # NoTicket
    /\ ticket[t].org = o
    /\ to = ticket[t].to \/ assertValidAssignee(to, o)
    /\ edit' = [id |-> t, new |-> FALSE,
                row |-> [ticket[t] EXCEPT !.to = to, !.open = open]]
    /\ UNCHANGED <<members, ticket, pr, changes, joined, cycle, notes>>

(* The audit event is stored, and the row is written. *)
WriteTicket ==
    /\ edit # NoEdit
    /\ LET old == ticket[edit.id]
       IN  ticket' = [ticket EXCEPT ![edit.id] =
                        IF edit.new THEN edit.row ELSE [edit.row EXCEPT !.old = old.old]]
    /\ edit' = NoEdit
    /\ UNCHANGED <<members, pr, joined>>
    /\ Change

(* The audit call fails, and nothing is written. *)
AbandonEdit ==
    /\ edit # NoEdit
    /\ edit' = NoEdit
    /\ UNCHANGED <<members, ticket, pr, changes, joined, cycle, notes>>

(* A ticket passes the overdue threshold. *)
Age(t) ==
    /\ ticket[t] # NoTicket
    /\ ~ticket[t].old
    /\ ticket' = [ticket EXCEPT ![t].old = TRUE]
    /\ UNCHANGED <<members, pr, edit, joined>>
    /\ Change

-----------------------------------------------------------------------------
(* runDigestCycle: the cron job fires, whether or not another cycle runs,  *)
(* and getOrgMembers answers.  If it fails there is no cycle.              *)
StartCycle(k) ==
    /\ cycle[k] = NoCycle
    /\ cycle' = [cycle EXCEPT ![k] =
            [list |-> members, todo |-> members, at |-> NoMember, tf |-> AskTickets,
             pf |-> AskPRs, touched |-> FALSE, failed |-> {}, served |-> {}]]
    /\ UNCHANGED <<world, notes>>

(* The next membership; both services are asked at once. *)
TakeNext(k) ==
    /\ cycle[k] # NoCycle
    /\ At(k) = NoMember
    /\ \E m \in cycle[k].todo :
          cycle' = [cycle EXCEPT ![k].at = m, ![k].todo = @ \ {m}, ![k].touched = FALSE,
                                 ![k].tf = AskTickets, ![k].pf = AskPRs]
    /\ UNCHANGED <<world, notes>>

(* getTicketFacts of ticket-service: two counts. *)
CountAssigned(k) ==
    /\ Collecting(k)
    /\ cycle[k].tf.step = "assigned"
    /\ cycle' = [cycle EXCEPT ![k].tf.step = "overdue",
                              ![k].tf.assigned = Assigned(At(k)[1], At(k)[2])]
    /\ UNCHANGED <<world, notes>>

CountOverdue(k) ==
    /\ Collecting(k)
    /\ cycle[k].tf.step = "overdue"
    /\ cycle' = [cycle EXCEPT ![k].tf.step = "done",
                              ![k].tf.overdue = Overdue(At(k)[1], At(k)[2])]
    /\ UNCHANGED <<world, notes>>

(* Mutant: what a failed call has not counted is zero. *)
TicketFactsZero(k) ==
    /\ Collecting(k)
    /\ cycle[k].tf.step \in {"assigned", "overdue"}
    /\ cycle' = [cycle EXCEPT ![k].tf.step = "done"]
    /\ UNCHANGED <<world, notes>>

(* ticketClient answers null for every failure. *)
TicketFactsFail(k) ==
    /\ Collecting(k)
    /\ cycle[k].tf.step \in {"assigned", "overdue"}
    /\ cycle' = [cycle EXCEPT ![k].tf.step = "null"]
    /\ UNCHANGED <<world, notes>>

(* getPRFacts of pr-service: the PRReviewer rows of the user, the pull     *)
(* requests among them that are in review in the organization, and for     *)
(* each whether the user has reviewed it.                                  *)
FindReviewerRows(k) ==
    /\ Collecting(k)
    /\ cycle[k].pf.step = "reviewer"
    /\ LET ids == ReviewerOf(At(k)[1])
       IN  cycle' = [cycle EXCEPT ![k].pf.ids = ids,
                        ![k].pf.step = IF ids = {} THEN "done" ELSE "candidates"]
    /\ UNCHANGED <<world, notes>>

FindCandidates(k) ==
    /\ Collecting(k)
    /\ cycle[k].pf.step = "candidates"
    /\ LET ids == Candidates(cycle[k].pf.ids, At(k)[2])
       IN  cycle' = [cycle EXCEPT ![k].pf.ids = ids,
                        ![k].pf.step = IF ids = {} THEN "done" ELSE "reviews"]
    /\ UNCHANGED <<world, notes>>

(* Mutant: a pull request is looked at more than once. *)
FindReviewTwice(k, p) ==
    /\ Collecting(k)
    /\ cycle[k].pf.step = "reviews"
    /\ p \in cycle[k].pf.ids
    /\ cycle' = [cycle EXCEPT
            ![k].pf.awaiting = IF At(k)[1] \in pr[p].reviewed THEN @ ELSE @ + 1]
    /\ UNCHANGED <<world, notes>>

FindReview(k, p) ==
    /\ Collecting(k)
    /\ cycle[k].pf.step = "reviews"
    /\ p \in cycle[k].pf.ids
    /\ cycle' = [cycle EXCEPT
            ![k].pf.ids = @ \ {p},
            ![k].pf.step = IF cycle[k].pf.ids = {p} THEN "done" ELSE @,
            ![k].pf.awaiting = IF At(k)[1] \in pr[p].reviewed THEN @ ELSE @ + 1]
    /\ UNCHANGED <<world, notes>>

PRFactsFail(k) ==
    /\ Collecting(k)
    /\ cycle[k].pf.step \in {"reviewer", "candidates", "reviews"}
    /\ cycle' = [cycle EXCEPT ![k].pf.step = "null"]
    /\ UNCHANGED <<world, notes>>

Settled(k) == Collecting(k) /\ cycle[k].tf.step \in {"done", "null"}
                            /\ cycle[k].pf.step \in {"done", "null"}

Complete(k) == Collecting(k) /\ cycle[k].tf.step = "done" /\ cycle[k].pf.step = "done"

(* buildDigestPrompt: the numbers, and nothing else, are what the text the *)
(* user reads is made from.                                                *)
buildDigestPrompt(tf, pf) ==
    [assigned |-> tf.assigned, overdue |-> tf.overdue, awaiting |-> pf.awaiting]

(* Groq answers, and the notification is stored. *)
Deliver(k) ==
    /\ Complete(k)
    /\ Cardinality(notes) < MaxNotes
    /\ LET told == buildDigestPrompt(cycle[k].tf, cycle[k].pf)
       IN  notes' = notes \cup
              {[id |-> Cardinality(notes) + 1, user |-> At(k)[1], org |-> At(k)[2],
                assigned |-> told.assigned, overdue |-> told.overdue,
                awaiting |-> told.awaiting, read |-> FALSE]}
    /\ cycle' = [cycle EXCEPT ![k].at = NoMember, ![k].served = @ \cup {At(k)}]
    /\ UNCHANGED world

(* Mutant: a failure for one user ends the loop. *)
SkipAll(k) ==
    /\ Settled(k)
    /\ cycle' = [cycle EXCEPT ![k].at = NoMember, ![k].failed = @ \cup {At(k)},
                              ![k].todo = {}]
    /\ UNCHANGED <<world, notes>>

(* Mutant: a failure is tried again at once. *)
SkipRetries(k) ==
    /\ Settled(k)
    /\ cycle' = [cycle EXCEPT ![k].tf = AskTickets, ![k].pf = AskPRs]
    /\ UNCHANGED <<world, notes>>

(* Facts are missing, or Groq or the database fails: the loop goes on. *)
Skip(k) ==
    /\ Settled(k)
    /\ cycle' = [cycle EXCEPT ![k].at = NoMember, ![k].failed = @ \cup {At(k)}]
    /\ UNCHANGED <<world, notes>>

Finish(k) ==
    /\ cycle[k] # NoCycle
    /\ At(k) = NoMember /\ cycle[k].todo = {}
    /\ cycle' = [cycle EXCEPT ![k] = NoCycle]
    /\ UNCHANGED <<world, notes>>

(* audit-service stops; a cycle is not taken up again. *)
Crash ==
    /\ cycle' = [k \in Cycles |-> NoCycle]
    /\ UNCHANGED <<world, notes>>

(* listNotifications shows a user their own; markRead refuses others'. *)
markRead(n, caller) ==
    /\ n.user = caller
    /\ notes' = (notes \ {n}) \cup {[n EXCEPT !.read = TRUE]}
    /\ UNCHANGED <<world, cycle>>

-----------------------------------------------------------------------------
Surroundings ==
    \/ \E m \in Memberships : Join(m) \/ Leave(m)
    \/ \E p \in PRs : \/ \E o \in Orgs : createPR(p, o)
                      \/ \E u \in Users : addReviewer(p, u) \/ submitReview(p, u)
                      \/ updatePR(p)
    \/ \E t \in Tickets :
          \/ Age(t)
          \/ \E o \in Orgs, to \in Users \cup {Nobody} :
                \/ createTicket(t, o, to)
                \/ \E open \in BOOLEAN : updateTicket(t, o, to, open)
    \/ WriteTicket \/ AbandonEdit

Advance(k) ==
    \/ TakeNext(k)
    \/ CountAssigned(k) \/ CountOverdue(k) \/ TicketFactsFail(k)
    \/ FindReviewerRows(k) \/ FindCandidates(k) \/ PRFactsFail(k)
    \/ \E p \in PRs : FindReview(k, p)
    \/ Deliver(k) \/ Skip(k) \/ Finish(k)

Next == \/ Surroundings
        \/ \E k \in Cycles : StartCycle(k) \/ Advance(k)
        \/ Crash
        \/ \E n \in notes, u \in Users : markRead(n, u)

(* Every call a cycle waits for ends, with an answer or an error: fetch    *)
(* and the OpenAI client give up in the end, and so does Prisma.           *)
Spec == Init /\ [][Next]_vars /\ \A k \in Cycles : WF_vars(Advance(k))

-----------------------------------------------------------------------------
TypeOK ==
    /\ members \subseteq joined /\ joined \subseteq Memberships
    /\ ticket \in [Tickets -> TicketRows \cup {NoTicket}]
    /\ pr \in [PRs -> PRRows \cup {NoPR}]
    /\ edit = NoEdit \/ edit \in Edits
    /\ \A k \in Cycles : cycle[k] = NoCycle \/ cycle[k] \in Running
    /\ notes \subseteq Notifications
    /\ changes \in 0..MaxChanges

(* A ticket is assigned only to someone who was a member of its own        *)
(* organization at some time, however the membership, the check and the    *)
(* write interleave.                                                       *)
AssigneesWereMembers ==
    \A t \in Tickets : ticket[t] # NoTicket =>
        ticket[t].to = Nobody \/ <<ticket[t].to, ticket[t].org>> \in joined

(* ai-leakage: what a digest tells is exactly what is true of this user in *)
(* this organization, not a false zero and nothing of another user or      *)
(* organization, unless that has changed since the facts were asked for.   *)
DigestTellsTheTruth ==
    [][\A n \in notes' : n.id > Cardinality(notes) =>
          \E k \in Cycles :
             /\ Collecting(k) /\ At(k) = <<n.user, n.org>>
             /\ cycle[k].touched \/ buildDigestPrompt(n, n) = Facts(At(k))]_vars

(* digest.service.js:38: a failure for one user never blocks the rest: a   *)
(* cycle that comes to its end has left a digest for every membership it   *)
(* found but those of which a step of their own has failed.                *)
EveryoneElseServed ==
    \A k \in Cycles : cycle[k] # NoCycle /\ At(k) = NoMember /\ cycle[k].todo = {} =>
        cycle[k].list \subseteq cycle[k].served \cup cycle[k].failed

(* A cycle comes to its end, whatever fails. *)
CyclesEnd == \A k \in Cycles : cycle[k] # NoCycle ~> cycle[k] = NoCycle

=============================================================================
