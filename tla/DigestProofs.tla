---------------------------- MODULE DigestProofs ----------------------------
(***************************************************************************)
(* Proofs about Digest, for any users, organizations, finite tables of     *)
(* tickets and pull requests, number of cycles that run at the same time,  *)
(* and bounds.                                                             *)
(*                                                                         *)
(* The argument for DigestTellsTheTruth.  As long as the facts of the      *)
(* member a cycle is at have not changed since they were asked for, each   *)
(* count that a query has answered is one of these facts (TicketsTold,     *)
(* ReviewsTold).  pr-service's count is put together from three queries:   *)
(* the pull requests still to be looked at must hold all that await the    *)
(* member and are not counted yet, and none that would be counted wrongly. *)
(* That facts of the same size are the same facts follows from a change    *)
(* being of one pull request (SameAwaiting).                               *)
(***************************************************************************)
EXTENDS Digest, FiniteSetTheorems, TLAPS

(* The assignee of a running createTicket or updateTicket was a member of  *)
(* the ticket's organization, and an update is of a ticket there is.       *)
EditChecked ==
    edit # NoEdit =>
        /\ edit \in Edits
        /\ ~edit.new => ticket[edit.id] \in TicketRows
        /\ edit.row.to = Nobody \/ <<edit.row.to, edit.row.org>> \in joined

(* Cycles are a function, and no pull request is counted twice. *)
CyclesTyped ==
    /\ cycle \in [Cycles -> Running \cup {NoCycle}]
    /\ \A k \in Cycles : cycle[k] # NoCycle =>
          /\ cycle[k].pf.awaiting + Cardinality(cycle[k].pf.ids) <= Cardinality(PRs)
          /\ cycle[k].pf.step = "reviewer" => cycle[k].pf.awaiting = 0

(* Notifications are numbered as they come. *)
NotesNumbered ==
    /\ IsFiniteSet(notes)
    /\ \A n \in notes : n.id <= Cardinality(notes)
    /\ \A m, n \in notes : m.id = n.id => m = n

TypeInv == TypeOK /\ EditChecked /\ AssigneesWereMembers /\ CyclesTyped /\ NotesNumbered

(* Whom a cycle has found is served, failed, yet to come or being served. *)
NobodyForgotten ==
    \A k \in Cycles : cycle[k] # NoCycle =>
        cycle[k].list \subseteq cycle[k].served \cup cycle[k].failed \cup cycle[k].todo
                                  \cup ({At(k)} \ {NoMember})

(* The pull requests that await a review of member m. *)
Awaiting(m) == {p \in PRs : pr[p] # NoPR /\ pr[p].inReview /\ pr[p].org = m[2]
                               /\ m[1] \in pr[p].reviewers \ pr[p].reviewed}

(* Cycle k collects the facts of m, and they have not changed meanwhile. *)
Following(k, m) == cycle[k] # NoCycle /\ cycle[k].at = m /\ ~cycle[k].touched

(* What the queries of such a cycle have found is true. *)
TicketsTold ==
    \A k \in Cycles, m \in Memberships : Following(k, m) =>
        /\ cycle[k].tf.step \in {"overdue", "done"} => cycle[k].tf.assigned = Facts(m).assigned
        /\ cycle[k].tf.step = "done" => cycle[k].tf.overdue = Facts(m).overdue

CandidatesHold(pf, m) ==
    /\ pf.awaiting = 0
    /\ Awaiting(m) \subseteq pf.ids
    /\ \A p \in pf.ids : pr[p] # NoPR /\ m[1] \in pr[p].reviewers

ReviewsHold(pf, m) ==
    /\ pf.awaiting + Cardinality(Awaiting(m) \cap pf.ids) = Cardinality(Awaiting(m))
    /\ \A p \in pf.ids : pr[p] # NoPR /\ (m[1] \in pr[p].reviewed \/ p \in Awaiting(m))

ReviewsTold ==
    \A k \in Cycles, m \in Memberships : Following(k, m) =>
        /\ cycle[k].pf.step = "candidates" => CandidatesHold(cycle[k].pf, m)
        /\ cycle[k].pf.step = "reviews" => ReviewsHold(cycle[k].pf, m)
        /\ cycle[k].pf.step = "done" => cycle[k].pf.awaiting = Cardinality(Awaiting(m))

TruthInv == TicketsTold /\ ReviewsTold

-----------------------------------------------------------------------------
(* The operators.                                                          *)

(* Subsets of the tables are finite, and have a size a count can have.     *)
LEMMA CountsTyped ==
    /\ Cardinality(Tickets) \in Nat /\ Cardinality(PRs) \in Nat
    /\ \A S \in SUBSET Tickets : IsFiniteSet(S) /\ Cardinality(S) \in TicketCounts
    /\ \A S \in SUBSET PRs : IsFiniteSet(S) /\ Cardinality(S) \in PRCounts
<1>1. Cardinality(Tickets) \in Nat /\ Cardinality(PRs) \in Nat
  BY DigestAssumption, FS_CardinalityType
<1>2. ASSUME NEW S \in SUBSET Tickets PROVE IsFiniteSet(S) /\ Cardinality(S) \in TicketCounts
  BY <1>1, DigestAssumption, FS_Subset, FS_CardinalityType DEF TicketCounts
<1>3. ASSUME NEW S \in SUBSET PRs PROVE IsFiniteSet(S) /\ Cardinality(S) \in PRCounts
  BY <1>1, DigestAssumption, FS_Subset, FS_CardinalityType DEF PRCounts
<1> QED
  BY <1>1, <1>2, <1>3

(* Sets that differ in one element at most have different sizes or are     *)
(* equal.                                                                  *)
LEMMA SameSizeSame ==
    ASSUME NEW S, NEW T, NEW x, IsFiniteSet(S), IsFiniteSet(T), S \ {x} = T \ {x},
           Cardinality(S) = Cardinality(T)
    PROVE  S = T
<1>1. ASSUME NEW A, NEW B, IsFiniteSet(A), A \ {x} = B \ {x}, x \notin A, x \in B
      PROVE  Cardinality(B) # Cardinality(A)
  <2>1. B = A \cup {x}
    BY <1>1
  <2>2. Cardinality(A) \in Nat
    BY <1>1, FS_CardinalityType
  <2>3. Cardinality(A \cup {x}) = Cardinality(A) + 1
    BY <1>1, FS_AddElement
  <2> QED
    BY <2>1, <2>2, <2>3
<1>2. CASE x \in S <=> x \in T
  BY <1>2
<1> QED
  BY <1>1, <1>2

(* What the queries count.                                                 *)
LEMMA QueriesCount ==
    ASSUME NEW m \in Memberships
    PROVE  /\ Facts(m).assigned = Assigned(m[1], m[2])
           /\ Facts(m).overdue = Overdue(m[1], m[2])
           /\ Facts(m).awaiting = Cardinality(Awaiting(m))
<1>1. PICK u \in Users, o \in Orgs : m = <<u, o>>
  BY DEF Memberships
<1>2. m[1] = u /\ m[2] = o
  BY <1>1
<1>3. {t \in Tickets : ticket[t] # NoTicket /\ ticket[t].open /\ <<ticket[t].to, ticket[t].org>> = m}
          = TicketsOf(u, o)
  BY <1>1 DEF TicketsOf
<1> QED
  BY <1>2, <1>3 DEF Facts, Assigned, Overdue, Awaiting

-----------------------------------------------------------------------------
(* What each kind of step does.                                            *)

(* A step of the outside: only touched changes in a cycle, and a cycle     *)
(* that stays untouched is at a member whose facts are what they were.     *)
Disturbs ==
    /\ cycle' \in [Cycles -> Running \cup {NoCycle}]
    /\ \A k \in Cycles : cycle[k] = NoCycle => cycle'[k] = NoCycle
    /\ \A k \in Cycles : cycle[k] # NoCycle =>
          /\ cycle'[k].list = cycle[k].list
          /\ cycle'[k].todo = cycle[k].todo
          /\ cycle'[k].at = cycle[k].at
          /\ cycle'[k].tf = cycle[k].tf
          /\ cycle'[k].pf = cycle[k].pf
          /\ cycle'[k].failed = cycle[k].failed
          /\ cycle'[k].served = cycle[k].served
          /\ \A m \in Memberships :
                cycle[k].at = m /\ ~cycle'[k].touched =>
                    ~cycle[k].touched /\ Facts(m)' = Facts(m)

(* Change leaves of a cycle all but touched.                               *)
LEMMA ChangeDisturbs ==
    ASSUME TypeInv, Change
    PROVE  Disturbs /\ changes' \in 0..MaxChanges /\ notes' = notes
<1>0. cycle \in [Cycles -> Running \cup {NoCycle}]
  BY DEF TypeInv, CyclesTyped
<1>1. /\ changes \in 0..MaxChanges /\ MaxChanges \in Nat
      /\ changes < MaxChanges /\ changes' = changes + 1 /\ notes' = notes
  BY DigestAssumption DEF TypeInv, TypeOK, Change
<1>2. ASSUME NEW k \in Cycles
      PROVE  /\ cycle'[k] \in Running \cup {NoCycle}
             /\ cycle[k] = NoCycle => cycle'[k] = NoCycle
             /\ cycle[k] # NoCycle =>
                   /\ cycle'[k].list = cycle[k].list
                   /\ cycle'[k].todo = cycle[k].todo
                   /\ cycle'[k].at = cycle[k].at
                   /\ cycle'[k].tf = cycle[k].tf
                   /\ cycle'[k].pf = cycle[k].pf
                   /\ cycle'[k].failed = cycle[k].failed
                   /\ cycle'[k].served = cycle[k].served
                   /\ cycle[k].touched => cycle'[k].touched
  <2>1. \/ cycle'[k] = cycle[k]
        \/ cycle[k] # NoCycle /\ cycle'[k] = [cycle[k] EXCEPT !.touched = TRUE]
    BY DEF Change, Collecting
  <2>2. cycle[k] # NoCycle => cycle[k] \in Running
    BY <1>0
  <2>3. CASE cycle'[k] = cycle[k]
    BY <2>2, <2>3
  <2>4. CASE cycle[k] # NoCycle /\ cycle'[k] = [cycle[k] EXCEPT !.touched = TRUE]
    BY <2>2, <2>4 DEF Running
  <2> QED
    BY <2>1, <2>3, <2>4
<1>3. ASSUME NEW k \in Cycles, NEW m \in Memberships,
             cycle[k] # NoCycle, cycle[k].at = m, ~cycle'[k].touched
      PROVE  ~cycle[k].touched /\ Facts(m)' = Facts(m)
  <2>1. ~cycle[k].touched
    BY <1>2, <1>3
  <2>2. Collecting(k)
    BY <1>3, DigestAssumption DEF Collecting, At, Memberships
  <2>3. ASSUME Facts(m)' # Facts(m) PROVE FALSE
    <3>1. \E n \in {At(k)} : Facts(n)' # Facts(n)
      BY <1>3, <2>3 DEF At
    <3>2. cycle'[k] = [cycle[k] EXCEPT !.touched = TRUE]
      BY <2>2, <3>1 DEF Change
    <3>3. cycle[k] \in Running
      BY <1>0, <1>3
    <3> QED
      BY <1>3, <3>2, <3>3 DEF Running
  <2> QED
    BY <2>1, <2>3
<1>4. cycle' \in [Cycles -> Running \cup {NoCycle}]
  <2>1. DOMAIN cycle' = Cycles /\ cycle' = [k \in Cycles |-> cycle'[k]]
    BY DEF Change
  <2> QED
    BY <1>2, <2>1
<1> QED
  BY <1>1, <1>2, <1>3, <1>4 DEF Disturbs

(* A step of cycle k. *)
Kept(k) ==
    /\ cycle'[k] \in Running
    /\ cycle'[k].list = cycle[k].list

Takes(k) ==
    /\ Kept(k) /\ notes' = notes
    /\ cycle[k].at = NoMember
    /\ cycle'[k].at \in cycle[k].todo
    /\ cycle'[k].todo = cycle[k].todo \ {cycle'[k].at}
    /\ ~cycle'[k].touched
    /\ cycle'[k].tf = AskTickets /\ cycle'[k].pf = AskPRs
    /\ cycle'[k].failed = cycle[k].failed /\ cycle'[k].served = cycle[k].served

Asks(k) ==
    /\ Kept(k) /\ notes' = notes
    /\ Collecting(k)
    /\ cycle'[k].at = cycle[k].at
    /\ cycle'[k].todo = cycle[k].todo
    /\ cycle'[k].touched = cycle[k].touched
    /\ cycle'[k].failed = cycle[k].failed /\ cycle'[k].served = cycle[k].served

AsksTickets(k) ==
    /\ Asks(k)
    /\ cycle'[k].pf = cycle[k].pf
    /\ LET u == cycle[k].at[1]
           o == cycle[k].at[2]
           tf == cycle[k].tf
       IN  \/ tf.step = "assigned"
              /\ cycle'[k].tf = [step |-> "overdue", assigned |-> Assigned(u, o), overdue |-> tf.overdue]
           \/ tf.step = "overdue"
              /\ cycle'[k].tf = [step |-> "done", assigned |-> tf.assigned, overdue |-> Overdue(u, o)]
           \/ cycle'[k].tf = [step |-> "null", assigned |-> tf.assigned, overdue |-> tf.overdue]

AsksPRs(k) ==
    /\ Asks(k)
    /\ cycle'[k].tf = cycle[k].tf
    /\ LET u == cycle[k].at[1]
           o == cycle[k].at[2]
           pf == cycle[k].pf
           After(ids, step) == IF ids = {} THEN "done" ELSE step
       IN  \/ /\ pf.step = "reviewer"
              /\ cycle'[k].pf = [step |-> After(ReviewerOf(u), "candidates"),
                                 ids |-> ReviewerOf(u), awaiting |-> pf.awaiting]
           \/ /\ pf.step = "candidates"
              /\ cycle'[k].pf = [step |-> After(Candidates(pf.ids, o), "reviews"),
                                 ids |-> Candidates(pf.ids, o), awaiting |-> pf.awaiting]
           \/ /\ pf.step = "reviews"
              /\ \E p \in pf.ids :
                    cycle'[k].pf = [step |-> After(pf.ids \ {p}, "reviews"),
                                    ids |-> pf.ids \ {p},
                                    awaiting |-> IF u \in pr[p].reviewed THEN pf.awaiting
                                                 ELSE pf.awaiting + 1]
           \/ cycle'[k].pf = [step |-> "null", ids |-> pf.ids, awaiting |-> pf.awaiting]

Passes(k) ==
    /\ Kept(k)
    /\ Collecting(k)
    /\ cycle'[k].at = NoMember
    /\ cycle'[k].todo = cycle[k].todo
    /\ cycle'[k].pf = cycle[k].pf
    /\ cycle'[k].failed \cup cycle'[k].served = cycle[k].failed \cup cycle[k].served \cup {At(k)}

(* One record update of a running cycle.                                   *)
LEMMA Updated ==
    ASSUME TypeInv, NEW k \in Cycles, NEW new, cycle' = [cycle EXCEPT ![k] = new]
    PROVE  /\ cycle'[k] = new
           /\ \A j \in Cycles : j # k => cycle'[j] = cycle[j]
           /\ new \in Running \cup {NoCycle} => cycle' \in [Cycles -> Running \cup {NoCycle}]
BY DEF TypeInv, CyclesTyped

(* What the fields of PRFacts range over, as names, which the provers do   *)
(* not enumerate.                                                          *)
PRSets == SUBSET PRs
PRSteps == {"reviewer", "candidates", "reviews", "done", "null"}

(* The updates of the facts a cycle collects.                              *)
LEMMA TicketFactsUpdated ==
    ASSUME NEW tf \in TicketFacts, NEW s \in {"assigned", "overdue", "done", "null"}, NEW n
    PROVE  /\ [tf EXCEPT !.step = s, !.assigned = n] = [step |-> s, assigned |-> n, overdue |-> tf.overdue]
           /\ [tf EXCEPT !.step = s, !.overdue = n] = [step |-> s, assigned |-> tf.assigned, overdue |-> n]
<1> DEFINE stepped == [tf EXCEPT !.step = s]
<1>1. /\ stepped \in TicketFacts
      /\ stepped.step = s /\ stepped.assigned = tf.assigned /\ stepped.overdue = tf.overdue
  BY DEF TicketFacts
<1>2. /\ [tf EXCEPT !.step = s, !.assigned = n] = [stepped EXCEPT !.assigned = n]
      /\ [tf EXCEPT !.step = s, !.overdue = n] = [stepped EXCEPT !.overdue = n]
  BY DEF TicketFacts
<1> HIDE DEF stepped
<1>3. /\ [stepped EXCEPT !.assigned = n] = [step |-> stepped.step, assigned |-> n, overdue |-> stepped.overdue]
      /\ [stepped EXCEPT !.overdue = n] = [step |-> stepped.step, assigned |-> stepped.assigned, overdue |-> n]
  BY <1>1 DEF TicketFacts
<1> QED
  BY <1>1, <1>2, <1>3

(* Likewise of the pull requests found,                                    *)
LEMMA PRFactsUpdated ==
    ASSUME NEW pf \in PRFacts, NEW s \in PRSteps,
           NEW ids \in PRSets
    PROVE  [pf EXCEPT !.ids = ids, !.step = s] = [step |-> s, ids |-> ids, awaiting |-> pf.awaiting]
<1> DEFINE found == [pf EXCEPT !.ids = ids]
<1>1. found \in PRFacts /\ found.ids = ids /\ found.awaiting = pf.awaiting
  BY DEF PRFacts, PRSets, PRSteps
<1>2. [pf EXCEPT !.ids = ids, !.step = s] = [found EXCEPT !.step = s]
  BY DEF PRFacts
<1> HIDE DEF found
<1>3. [found EXCEPT !.step = s] = [step |-> s, ids |-> found.ids, awaiting |-> found.awaiting]
  BY <1>1 DEF PRFacts
<1> QED
  BY <1>1, <1>2, <1>3

(* and of one that is counted.                                             *)
LEMMA PRFactsCounted ==
    ASSUME NEW pf \in PRFacts, NEW s \in PRSteps,
           NEW ids \in PRSets, NEW n
    PROVE  [pf EXCEPT !.ids = ids, !.step = s, !.awaiting = n] = [step |-> s, ids |-> ids, awaiting |-> n]
<1> DEFINE found == [pf EXCEPT !.ids = ids, !.step = s]
<1>1. found = [step |-> s, ids |-> ids, awaiting |-> pf.awaiting]
  BY PRFactsUpdated
<1>2. [pf EXCEPT !.ids = ids, !.step = s, !.awaiting = n] = [found EXCEPT !.awaiting = n]
  BY DEF PRFacts
<1> HIDE DEF found
<1>3. found \in PRFacts /\ found.step = s /\ found.ids = ids
  BY <1>1 DEF PRFacts, PRSets, PRSteps
<1>4. [found EXCEPT !.awaiting = n] = [step |-> found.step, ids |-> found.ids, awaiting |-> n]
  BY <1>3 DEF PRFacts
<1> QED
  BY <1>2, <1>3, <1>4

(* Every step of a cycle is one of these kinds.                            *)
LEMMA CycleSteps ==
    ASSUME TypeInv, NEW k \in Cycles, Advance(k)
    PROVE  /\ cycle[k] \in Running
           /\ UNCHANGED world
           /\ \A j \in Cycles : j # k => cycle'[j] = cycle[j]
           /\ cycle' \in [Cycles -> Running \cup {NoCycle}]
           /\ \/ Takes(k) \/ AsksTickets(k) \/ AsksPRs(k)
              \/ Passes(k) /\ (notes' = notes \/ Deliver(k))
              \/ Finish(k) /\ cycle'[k] = NoCycle /\ notes' = notes
<1>0. cycle \in [Cycles -> Running \cup {NoCycle}]
  BY DEF TypeInv, CyclesTyped
<1>1. cycle[k] # NoCycle => cycle[k] \in Running
  BY <1>0
<1> DEFINE c == cycle[k]
<1>2. CASE TakeNext(k)
  <2>1. PICK m \in c.todo :
           cycle' = [cycle EXCEPT ![k] = [c EXCEPT !.at = m, !.todo = @ \ {m}, !.touched = FALSE,
                                                   !.tf = AskTickets, !.pf = AskPRs]]
    BY ZenonT(40), <1>2 DEF TakeNext
  <2> DEFINE new == [c EXCEPT !.at = m, !.todo = @ \ {m}, !.touched = FALSE,
                              !.tf = AskTickets, !.pf = AskPRs]
  <2>2. c \in Running /\ c.at = NoMember /\ notes' = notes /\ UNCHANGED world
    BY <1>1, <1>2 DEF TakeNext, At
  <2>3. AskTickets \in TicketFacts /\ AskPRs \in PRFacts
    BY CountsTyped DEF AskTickets, AskPRs, TicketFacts, PRFacts, TicketCounts, PRCounts
  <2>4. /\ new \in Running
        /\ new.list = c.list /\ new.at = m /\ new.todo = c.todo \ {m}
        /\ new.touched = FALSE /\ new.tf = AskTickets /\ new.pf = AskPRs
        /\ new.failed = c.failed /\ new.served = c.served
    BY <2>2, <2>3 DEF Running
  <2> HIDE DEF new
  <2>5. /\ cycle'[k] = new
        /\ \A j \in Cycles : j # k => cycle'[j] = cycle[j]
        /\ cycle' \in [Cycles -> Running \cup {NoCycle}]
    BY <2>1, <2>4, Updated DEF new
  <2> QED
    BY <2>2, <2>4, <2>5 DEF Takes, Kept
<1>3. ASSUME NEW tf \in TicketFacts, NEW pf \in PRFacts, Collecting(k), notes' = notes,
             cycle' = [cycle EXCEPT ![k] = [c EXCEPT !.tf = tf, !.pf = pf]]
      PROVE  /\ Asks(k) /\ c \in Running
             /\ cycle'[k].tf = tf /\ cycle'[k].pf = pf
             /\ \A j \in Cycles : j # k => cycle'[j] = cycle[j]
             /\ cycle' \in [Cycles -> Running \cup {NoCycle}]
  <2> DEFINE new == [c EXCEPT !.tf = tf, !.pf = pf]
  <2>1. c \in Running
    BY <1>1, <1>3 DEF Collecting
  <2>2. /\ new \in Running
        /\ new.list = c.list /\ new.at = c.at /\ new.todo = c.todo
        /\ new.touched = c.touched /\ new.tf = tf /\ new.pf = pf
        /\ new.failed = c.failed /\ new.served = c.served
    BY <2>1 DEF Running
  <2> HIDE DEF new
  <2>3. /\ cycle'[k] = new
        /\ \A j \in Cycles : j # k => cycle'[j] = cycle[j]
        /\ cycle' \in [Cycles -> Running \cup {NoCycle}]
    BY <1>3, <2>2, Updated DEF new
  <2> QED
    BY <1>3, <2>1, <2>2, <2>3 DEF Asks, Kept

<1>4. Collecting(k) => /\ c \in Running /\ c.tf \in TicketFacts /\ c.pf \in PRFacts
                       /\ c.at \in Memberships
                       /\ c.at[1] \in Users /\ c.at[2] \in Orgs
  BY <1>1 DEF Collecting, At, Running, Memberships
<1>5. CASE CountAssigned(k) \/ CountOverdue(k) \/ TicketFactsFail(k)
  <2>1. Collecting(k) /\ notes' = notes /\ UNCHANGED world
    BY <1>5 DEF CountAssigned, CountOverdue, TicketFactsFail
  <2>2. Assigned(c.at[1], c.at[2]) \in TicketCounts /\ Overdue(c.at[1], c.at[2]) \in TicketCounts
    BY CountsTyped DEF Assigned, Overdue, TicketsOf
  <2>3. \E tf \in TicketFacts :
           /\ cycle' = [cycle EXCEPT ![k] = [c EXCEPT !.tf = tf, !.pf = c.pf]]
           /\ \/ c.tf.step = "assigned"
                 /\ tf = [step |-> "overdue", assigned |-> Assigned(c.at[1], c.at[2]), overdue |-> c.tf.overdue]
              \/ c.tf.step = "overdue"
                 /\ tf = [step |-> "done", assigned |-> c.tf.assigned, overdue |-> Overdue(c.at[1], c.at[2])]
              \/ tf = [step |-> "null", assigned |-> c.tf.assigned, overdue |-> c.tf.overdue]
    <3>1. CASE CountAssigned(k)
      <4> DEFINE tf == [step |-> "overdue", assigned |-> Assigned(c.at[1], c.at[2]), overdue |-> c.tf.overdue]
      <4>1. tf \in TicketFacts
        BY <1>4, <2>1, <2>2 DEF TicketFacts
      <4>2. [c.tf EXCEPT !.step = "overdue", !.assigned = Assigned(c.at[1], c.at[2])] = tf
        <5>1. \A n : [c.tf EXCEPT !.step = "overdue", !.assigned = n]
                        = [step |-> "overdue", assigned |-> n, overdue |-> c.tf.overdue]
          <6>1. c.tf \in TicketFacts
            BY <1>4, <2>1
          <6> HIDE DEF c
          <6> QED
            BY ZenonT(40), <6>1, TicketFactsUpdated
        <5> QED
          BY <5>1
      <4>3. cycle' = [cycle EXCEPT ![k] = [c EXCEPT !.tf =
                        [c.tf EXCEPT !.step = "overdue", !.assigned = Assigned(c.at[1], c.at[2])]]]
        BY <3>1 DEF CountAssigned, At
      <4>4. [c EXCEPT !.tf = tf] = [c EXCEPT !.tf = tf, !.pf = c.pf]
        BY <1>4, <2>1 DEF Running
      <4>5. c.tf.step = "assigned"
        BY <3>1 DEF CountAssigned
      <4> QED
        BY <4>1, <4>2, <4>3, <4>4, <4>5
    <3>2. CASE CountOverdue(k)
      <4> DEFINE tf == [step |-> "done", assigned |-> c.tf.assigned, overdue |-> Overdue(c.at[1], c.at[2])]
      <4>1. tf \in TicketFacts
        BY <1>4, <2>1, <2>2 DEF TicketFacts
      <4>2. [c.tf EXCEPT !.step = "done", !.overdue = Overdue(c.at[1], c.at[2])] = tf
        BY <1>4, <2>1, TicketFactsUpdated
      <4>3. cycle' = [cycle EXCEPT ![k] = [c EXCEPT !.tf =
                        [c.tf EXCEPT !.step = "done", !.overdue = Overdue(c.at[1], c.at[2])]]]
        BY <3>2 DEF CountOverdue, At
      <4>4. [c EXCEPT !.tf = tf] = [c EXCEPT !.tf = tf, !.pf = c.pf]
        BY <1>4, <2>1 DEF Running
      <4>5. c.tf.step = "overdue"
        BY <3>2 DEF CountOverdue
      <4> QED
        BY <4>1, <4>2, <4>3, <4>4, <4>5
    <3>3. CASE TicketFactsFail(k)
      <4> DEFINE tf == [step |-> "null", assigned |-> c.tf.assigned, overdue |-> c.tf.overdue]
      <4>1. tf \in TicketFacts
        BY <1>4, <2>1 DEF TicketFacts
      <4>2. [c.tf EXCEPT !.step = "null"] = tf
        BY <1>4, <2>1 DEF TicketFacts
      <4>3. cycle' = [cycle EXCEPT ![k] = [c EXCEPT !.tf = [c.tf EXCEPT !.step = "null"]]]
        BY <3>3 DEF TicketFactsFail
      <4>4. [c EXCEPT !.tf = tf] = [c EXCEPT !.tf = tf, !.pf = c.pf]
        BY <1>4, <2>1 DEF Running
      <4> QED
        BY <4>1, <4>2, <4>3, <4>4
    <3> QED
      BY <1>5, <3>1, <3>2, <3>3
  <2>4. PICK tf \in TicketFacts :
           /\ cycle' = [cycle EXCEPT ![k] = [c EXCEPT !.tf = tf, !.pf = c.pf]]
           /\ \/ c.tf.step = "assigned"
                 /\ tf = [step |-> "overdue", assigned |-> Assigned(c.at[1], c.at[2]), overdue |-> c.tf.overdue]
              \/ c.tf.step = "overdue"
                 /\ tf = [step |-> "done", assigned |-> c.tf.assigned, overdue |-> Overdue(c.at[1], c.at[2])]
              \/ tf = [step |-> "null", assigned |-> c.tf.assigned, overdue |-> c.tf.overdue]
    BY <2>3
  <2>5. /\ Asks(k) /\ c \in Running
        /\ cycle'[k].tf = tf /\ cycle'[k].pf = c.pf
        /\ \A j \in Cycles : j # k => cycle'[j] = cycle[j]
        /\ cycle' \in [Cycles -> Running \cup {NoCycle}]
    BY <1>3, <1>4, <2>1, <2>4
  <2>6. AsksTickets(k)
    BY <2>4, <2>5 DEF AsksTickets
  <2> QED
    BY <2>1, <2>5, <2>6
<1>6. CASE \/ FindReviewerRows(k) \/ FindCandidates(k) \/ PRFactsFail(k)
           \/ \E p \in PRs : FindReview(k, p)
  <2> DEFINE After(ids, step) == IF ids = {} THEN "done" ELSE step
             Asked(pf) ==
                \/ /\ c.pf.step = "reviewer"
                   /\ pf = [step |-> After(ReviewerOf(c.at[1]), "candidates"),
                            ids |-> ReviewerOf(c.at[1]), awaiting |-> c.pf.awaiting]
                \/ /\ c.pf.step = "candidates"
                   /\ pf = [step |-> After(Candidates(c.pf.ids, c.at[2]), "reviews"),
                            ids |-> Candidates(c.pf.ids, c.at[2]), awaiting |-> c.pf.awaiting]
                \/ /\ c.pf.step = "reviews"
                   /\ \E p \in c.pf.ids :
                         pf = [step |-> After(c.pf.ids \ {p}, "reviews"),
                               ids |-> c.pf.ids \ {p},
                               awaiting |-> IF c.at[1] \in pr[p].reviewed THEN c.pf.awaiting
                                            ELSE c.pf.awaiting + 1]
                \/ pf = [step |-> "null", ids |-> c.pf.ids, awaiting |-> c.pf.awaiting]
  <2>1. Collecting(k) /\ notes' = notes /\ UNCHANGED world
    BY <1>6 DEF FindReviewerRows, FindCandidates, FindReview, PRFactsFail
  <2>2. \E pf \in PRFacts :
           cycle' = [cycle EXCEPT ![k] = [c EXCEPT !.tf = c.tf, !.pf = pf]] /\ Asked(pf)
    <3>0. ASSUME NEW pf
          PROVE  [c EXCEPT !.pf = pf] = [c EXCEPT !.tf = c.tf, !.pf = pf]
      BY <1>4, <2>1 DEF Running
    <3>1. CASE FindReviewerRows(k)
      <4> DEFINE ids == ReviewerOf(c.at[1])
                 pf == [step |-> After(ids, "candidates"), ids |-> ids, awaiting |-> c.pf.awaiting]
      <4>1. pf \in PRFacts
        BY <1>4, <2>1 DEF PRFacts, ReviewerOf
      <4>2. [c.pf EXCEPT !.ids = ids, !.step = After(ids, "candidates")] = pf
        <5>1. ids \in PRSets /\ After(ids, "candidates") \in PRSteps
          BY DEF ReviewerOf, PRSets, PRSteps
        <5> HIDE DEF ids, After
        <5>2. [c.pf EXCEPT !.ids = ids, !.step = After(ids, "candidates")]
                 = [step |-> After(ids, "candidates"), ids |-> ids, awaiting |-> c.pf.awaiting]
          <6>1. c.pf \in PRFacts
            BY <1>4, <2>1
          <6> HIDE DEF c
          <6> QED
            BY <5>1, <6>1, PRFactsUpdated
        <5> QED
          BY <5>2
      <4>3. cycle' = [cycle EXCEPT ![k] = [c EXCEPT !.pf =
                        [c.pf EXCEPT !.ids = ids, !.step = After(ids, "candidates")]]]
        BY <3>1 DEF FindReviewerRows, At
      <4>4. c.pf.step = "reviewer"
        BY <3>1 DEF FindReviewerRows
      <4> QED
        BY ZenonT(40), <3>0, <4>1, <4>2, <4>3, <4>4
    <3>2. CASE FindCandidates(k)
      <4> DEFINE ids == Candidates(c.pf.ids, c.at[2])
                 pf == [step |-> After(ids, "reviews"), ids |-> ids, awaiting |-> c.pf.awaiting]
      <4>1. pf \in PRFacts
        BY <1>4, <2>1 DEF PRFacts, Candidates
      <4>2. [c.pf EXCEPT !.ids = ids, !.step = After(ids, "reviews")] = pf
        <5>1. ids \in PRSets /\ After(ids, "reviews") \in PRSteps
          BY <1>4, <2>1 DEF PRFacts, Candidates, PRSets, PRSteps
        <5> HIDE DEF ids, After
        <5>2. [c.pf EXCEPT !.ids = ids, !.step = After(ids, "reviews")]
                 = [step |-> After(ids, "reviews"), ids |-> ids, awaiting |-> c.pf.awaiting]
          <6>1. c.pf \in PRFacts
            BY <1>4, <2>1
          <6> HIDE DEF c
          <6> QED
            BY <5>1, <6>1, PRFactsUpdated
        <5> QED
          BY <5>2
      <4>3. cycle' = [cycle EXCEPT ![k] = [c EXCEPT !.pf =
                        [c.pf EXCEPT !.ids = ids, !.step = After(ids, "reviews")]]]
        BY <3>2 DEF FindCandidates, At
      <4>4. c.pf.step = "candidates"
        BY <3>2 DEF FindCandidates
      <4> QED
        BY ZenonT(40), <3>0, <4>1, <4>2, <4>3, <4>4
    <3>3. CASE PRFactsFail(k)
      <4> DEFINE pf == [step |-> "null", ids |-> c.pf.ids, awaiting |-> c.pf.awaiting]
      <4>1. pf \in PRFacts
        BY <1>4, <2>1 DEF PRFacts
      <4>2. [c.pf EXCEPT !.step = "null"] = pf
        BY <1>4, <2>1 DEF PRFacts
      <4>3. cycle' = [cycle EXCEPT ![k] = [c EXCEPT !.pf = [c.pf EXCEPT !.step = "null"]]]
        BY <3>3 DEF PRFactsFail
      <4> QED
        BY <3>0, <4>1, <4>2, <4>3
    <3>4. ASSUME NEW p \in PRs, FindReview(k, p)
          PROVE  \E pf \in PRFacts :
                    cycle' = [cycle EXCEPT ![k] = [c EXCEPT !.tf = c.tf, !.pf = pf]] /\ Asked(pf)
      <4> DEFINE counted == IF c.at[1] \in pr[p].reviewed THEN c.pf.awaiting ELSE c.pf.awaiting + 1
                 pf == [step |-> After(c.pf.ids \ {p}, "reviews"), ids |-> c.pf.ids \ {p},
                        awaiting |-> counted]
      <4>0. c.pf.step = "reviews" /\ p \in c.pf.ids
        BY <3>4 DEF FindReview
      <4>a. counted \in PRCounts
        <5>1. c.pf.ids \in SUBSET PRs /\ c.pf.awaiting \in Nat
          BY <1>4, <2>1 DEF PRFacts, PRCounts
        <5>2. c.pf.awaiting + Cardinality(c.pf.ids) <= Cardinality(PRs)
          BY <2>1 DEF TypeInv, CyclesTyped, Collecting
        <5>3. IsFiniteSet(c.pf.ids) /\ Cardinality(c.pf.ids) \in Nat
          BY <5>1, CountsTyped, FS_CardinalityType
        <5>4. Cardinality(c.pf.ids) # 0
          BY <4>0, <5>3, FS_EmptySet
        <5> QED
          BY <5>1, <5>2, <5>3, <5>4, CountsTyped DEF PRCounts
      <4>1. pf \in PRFacts
        BY <1>4, <2>1, <4>0, <4>a DEF PRFacts
      <4>b. (IF c.pf.ids = {p} THEN "done" ELSE c.pf.step) = After(c.pf.ids \ {p}, "reviews")
        BY <4>0
      <4>2. [c.pf EXCEPT !.ids = @ \ {p}, !.step = IF c.pf.ids = {p} THEN "done" ELSE @,
                         !.awaiting = IF c.at[1] \in pr[p].reviewed THEN @ ELSE @ + 1] = pf
        <5> DEFINE ids == c.pf.ids \ {p}
        <5>1. ids \in PRSets /\ After(ids, "reviews") \in PRSteps
          BY <1>4, <2>1 DEF PRFacts, PRSets, PRSteps
        <5> HIDE DEF ids, After, counted
        <5>2. [c.pf EXCEPT !.ids = ids, !.step = After(ids, "reviews"), !.awaiting = counted]
                 = [step |-> After(ids, "reviews"), ids |-> ids, awaiting |-> counted]
          <6>1. c.pf \in PRFacts
            BY <1>4, <2>1
          <6> HIDE DEF c
          <6> QED
            BY <5>1, <6>1, PRFactsCounted
        <5>3. (IF c.pf.ids = {p} THEN "done" ELSE c.pf.step) = After(ids, "reviews")
          BY <4>b DEF ids
        <5> QED
          BY <5>2, <5>3 DEF ids, counted
      <4>3. cycle' = [cycle EXCEPT ![k] = [c EXCEPT !.pf =
                        [c.pf EXCEPT !.ids = @ \ {p}, !.step = IF c.pf.ids = {p} THEN "done" ELSE @,
                           !.awaiting = IF c.at[1] \in pr[p].reviewed THEN @ ELSE @ + 1]]]
        BY ZenonT(40), <3>4 DEF FindReview, At
      <4> QED
        BY ZenonT(40), <3>0, <4>0, <4>1, <4>2, <4>3
    <3> QED
      BY <1>6, <3>1, <3>2, <3>3, <3>4
  <2>3. PICK pf \in PRFacts :
           cycle' = [cycle EXCEPT ![k] = [c EXCEPT !.tf = c.tf, !.pf = pf]] /\ Asked(pf)
    BY <2>2
  <2>4. /\ Asks(k) /\ c \in Running
        /\ cycle'[k].tf = c.tf /\ cycle'[k].pf = pf
        /\ \A j \in Cycles : j # k => cycle'[j] = cycle[j]
        /\ cycle' \in [Cycles -> Running \cup {NoCycle}]
    BY <1>3, <1>4, <2>1, <2>3
  <2>5. AsksPRs(k)
    BY <2>3, <2>4 DEF AsksPRs
  <2> QED
    BY <2>1, <2>4, <2>5
<1>7. CASE Deliver(k) \/ Skip(k)
  <2>1. c \in Running /\ Collecting(k) /\ UNCHANGED world /\ c.at \in Memberships
    BY <1>4, <1>7 DEF Deliver, Skip, Complete, Settled
  <2>2. \E new \in Running :
           /\ cycle' = [cycle EXCEPT ![k] = new]
           /\ new.at = NoMember /\ new.list = c.list /\ new.todo = c.todo /\ new.pf = c.pf
           /\ new.failed \cup new.served = c.failed \cup c.served \cup {c.at}
    <3>1. CASE Deliver(k)
      <4>1. cycle' = [cycle EXCEPT ![k] = [c EXCEPT !.at = NoMember, !.served = @ \cup {c.at}]]
        BY <3>1 DEF Deliver, At
      <4> DEFINE new == [c EXCEPT !.at = NoMember, !.served = @ \cup {c.at}]
      <4>2. new \in Running /\ new.at = NoMember /\ new.list = c.list /\ new.todo = c.todo
            /\ new.pf = c.pf /\ new.failed = c.failed /\ new.served = c.served \cup {c.at}
        BY <2>1 DEF Running
      <4> QED
        BY <4>1, <4>2
    <3>2. CASE Skip(k)
      <4>1. cycle' = [cycle EXCEPT ![k] = [c EXCEPT !.at = NoMember, !.failed = @ \cup {c.at}]]
        BY <3>2 DEF Skip, At
      <4> DEFINE new == [c EXCEPT !.at = NoMember, !.failed = @ \cup {c.at}]
      <4>2. new \in Running /\ new.at = NoMember /\ new.list = c.list /\ new.todo = c.todo
            /\ new.pf = c.pf /\ new.failed = c.failed \cup {c.at} /\ new.served = c.served
        BY <2>1 DEF Running
      <4> QED
        BY <4>1, <4>2
    <3> QED
      BY <1>7, <3>1, <3>2
  <2>3. PICK new \in Running :
           /\ cycle' = [cycle EXCEPT ![k] = new]
           /\ new.at = NoMember /\ new.list = c.list /\ new.todo = c.todo /\ new.pf = c.pf
           /\ new.failed \cup new.served = c.failed \cup c.served \cup {c.at}
    BY <2>2
  <2>4. /\ cycle'[k] = new
        /\ \A j \in Cycles : j # k => cycle'[j] = cycle[j]
        /\ cycle' \in [Cycles -> Running \cup {NoCycle}]
    BY <2>3, Updated
  <2>5. Passes(k)
    BY <2>1, <2>3, <2>4 DEF Passes, Kept, At
  <2> QED
    BY <1>7, <2>1, <2>4, <2>5 DEF Skip
<1>8. CASE Finish(k)
  BY <1>1, <1>8, Updated DEF Finish
<1> QED
  BY <1>2, <1>5, <1>6, <1>7, <1>8 DEF Advance

-----------------------------------------------------------------------------
(* TypeInv is inductive.                                                   *)

(* No step of a cycle counts a pull request twice.                         *)
LEMMA StepCyclesTyped ==
    ASSUME TypeInv, NEW k \in Cycles, Advance(k)
    PROVE  CyclesTyped'
<1>0. cycle \in [Cycles -> Running \cup {NoCycle}]
  BY DEF TypeInv, CyclesTyped
<1>1. /\ cycle[k] \in Running
      /\ \A j \in Cycles : j # k => cycle'[j] = cycle[j]
      /\ cycle' \in [Cycles -> Running \cup {NoCycle}]
      /\ Takes(k) \/ AsksTickets(k) \/ AsksPRs(k) \/ Passes(k) \/ cycle'[k] = NoCycle
  BY CycleSteps
<1> DEFINE Fine(pf) == /\ pf.awaiting + Cardinality(pf.ids) <= Cardinality(PRs)
                       /\ pf.step = "reviewer" => pf.awaiting = 0
<1>2. cycle[k] # NoCycle => Fine(cycle[k].pf)
  BY DEF TypeInv, CyclesTyped
<1>3. cycle'[k] = NoCycle \/ Fine(cycle'[k].pf)
  <2>1. CASE Takes(k)
    BY <2>1, CountsTyped, FS_EmptySet DEF Takes, AskPRs
  <2>2. CASE AsksTickets(k) \/ Passes(k)
    BY <1>2, <2>2 DEF AsksTickets, Asks, Passes, Collecting
  <2>3. CASE AsksPRs(k)
    <3> DEFINE pf == cycle[k].pf
    <3>1. cycle[k] # NoCycle /\ pf \in PRFacts /\ pf.awaiting \in Nat /\ pf.ids \in SUBSET PRs
      BY <1>1, <2>3 DEF AsksPRs, Asks, Collecting, Running, PRFacts, PRCounts
    <3>2. Fine(pf)
      BY <1>2, <3>1
    <3>3. IsFiniteSet(pf.ids) /\ Cardinality(pf.ids) \in Nat
      BY <3>1, CountsTyped, FS_CardinalityType
    <3>4. CASE /\ pf.step = "reviewer"
               /\ cycle'[k].pf.ids \in SUBSET PRs /\ cycle'[k].pf.awaiting = pf.awaiting
               /\ cycle'[k].pf.step # "reviewer"
      <4>1. Cardinality(cycle'[k].pf.ids) \in PRCounts
        BY <3>4, CountsTyped
      <4> QED
        BY <3>2, <3>4, <4>1, CountsTyped DEF PRCounts
    <3>5. CASE /\ cycle'[k].pf.ids \in SUBSET pf.ids /\ cycle'[k].pf.awaiting = pf.awaiting
               /\ cycle'[k].pf.step # "reviewer"
      <4>1. Cardinality(cycle'[k].pf.ids) \in Nat /\ Cardinality(cycle'[k].pf.ids) <= Cardinality(pf.ids)
        BY <3>3, <3>5, FS_Subset, FS_CardinalityType
      <4> QED
        BY <3>1, <3>2, <3>3, <3>5, <4>1, CountsTyped
    <3>6. CASE \E p \in pf.ids : /\ cycle'[k].pf.ids = pf.ids \ {p}
                                 /\ cycle'[k].pf.awaiting \in {pf.awaiting, pf.awaiting + 1}
                                 /\ cycle'[k].pf.step # "reviewer"
      <4>1. PICK p \in pf.ids : /\ cycle'[k].pf.ids = pf.ids \ {p}
                                /\ cycle'[k].pf.awaiting \in {pf.awaiting, pf.awaiting + 1}
                                /\ cycle'[k].pf.step # "reviewer"
        BY <3>6
      <4>2. Cardinality(pf.ids \ {p}) = Cardinality(pf.ids) - 1
        BY <3>3, FS_RemoveElement
      <4> QED
        BY <3>1, <3>2, <3>3, <4>1, <4>2, CountsTyped
    <3> DEFINE u == cycle[k].at[1]
               o == cycle[k].at[2]
               After(ids, step) == IF ids = {} THEN "done" ELSE step
    <3>a. CASE pf.step = "reviewer" /\ cycle'[k].pf = [step |-> After(ReviewerOf(u), "candidates"),
                                        ids |-> ReviewerOf(u), awaiting |-> pf.awaiting]
      <4>1. ReviewerOf(u) \in SUBSET PRs
        BY DEF ReviewerOf
      <4> QED
        BY <3>4, <3>a, <4>1
    <3>b. CASE cycle'[k].pf = [step |-> After(Candidates(pf.ids, o), "reviews"),
                                 ids |-> Candidates(pf.ids, o), awaiting |-> pf.awaiting]
      <4>1. Candidates(pf.ids, o) \in SUBSET pf.ids
        BY DEF Candidates
      <4> QED
        BY <3>5, <3>b, <4>1
    <3>c. CASE \E p \in pf.ids :
                  cycle'[k].pf = [step |-> After(pf.ids \ {p}, "reviews"),
                                  ids |-> pf.ids \ {p},
                                  awaiting |-> IF u \in pr[p].reviewed THEN pf.awaiting
                                               ELSE pf.awaiting + 1]
      BY <3>6, <3>c
    <3>d. CASE cycle'[k].pf = [step |-> "null", ids |-> pf.ids, awaiting |-> pf.awaiting]
      BY <3>5, <3>d
    <3> QED
      BY <2>3, <3>a, <3>b, <3>c, <3>d DEF AsksPRs
  <2> HIDE DEF Fine
  <2> QED
    BY <1>1, <2>1, <2>2, <2>3
<1> HIDE DEF Fine
<1>4. ASSUME NEW j \in Cycles, cycle'[j] # NoCycle PROVE Fine(cycle'[j].pf)
  <2>1. cycle[j] # NoCycle => Fine(cycle[j].pf)
    BY DEF TypeInv, CyclesTyped, Fine
  <2> QED
    BY <1>1, <1>3, <1>4, <2>1
<1> QED
  BY <1>1, <1>4 DEF CyclesTyped, Fine

(* Nor does a step of the outside.                                         *)
LEMMA DisturbedCyclesTyped ==
    ASSUME TypeInv, Disturbs
    PROVE  CyclesTyped' /\ \A k \in Cycles : cycle'[k] = NoCycle \/ cycle'[k] \in Running
<1>1. cycle' \in [Cycles -> Running \cup {NoCycle}]
  BY DEF Disturbs
<1>2. ASSUME NEW k \in Cycles, cycle'[k] # NoCycle PROVE cycle[k] # NoCycle /\ cycle'[k].pf = cycle[k].pf
  BY <1>2 DEF Disturbs
<1> QED
  BY <1>1, <1>2 DEF TypeInv, CyclesTyped

(* The tables after a step of the outside.                                 *)
LEMMA WorldTyped ==
    ASSUME TypeInv, Surroundings
    PROVE  /\ members' \subseteq joined' /\ joined' \subseteq Memberships
           /\ ticket' \in [Tickets -> TicketRows \cup {NoTicket}]
           /\ pr' \in [PRs -> PRRows \cup {NoPR}]
           /\ edit' = NoEdit \/ edit' \in Edits
           /\ EditChecked'
           /\ AssigneesWereMembers'
           /\ notes' = notes /\ (Change \/ UNCHANGED <<pr, ticket, changes, cycle>>)

<1>0. /\ members \subseteq joined /\ joined \subseteq Memberships
      /\ ticket \in [Tickets -> TicketRows \cup {NoTicket}]
      /\ pr \in [PRs -> PRRows \cup {NoPR}]
      /\ edit = NoEdit \/ edit \in Edits
      /\ EditChecked /\ AssigneesWereMembers
  BY DEF TypeInv, TypeOK
<1>1. ASSUME NEW m \in Memberships, Join(m) \/ Leave(m)
      PROVE  /\ members' \subseteq joined' /\ joined' \subseteq Memberships
             /\ joined \subseteq joined'
             /\ UNCHANGED <<ticket, pr, edit, notes>> /\ Change
  BY <1>0, <1>1 DEF Join, Leave, Change
<1>2. ASSUME NEW p \in PRs,
             \/ \E o \in Orgs : createPR(p, o)
             \/ \E u \in Users : addReviewer(p, u) \/ submitReview(p, u)
             \/ updatePR(p)
      PROVE  /\ pr' \in [PRs -> PRRows \cup {NoPR}]
             /\ UNCHANGED <<members, ticket, edit, joined, notes>> /\ Change
  <2>1. UNCHANGED <<members, ticket, edit, joined, notes>> /\ Change
    BY <1>2 DEF createPR, addReviewer, submitReview, updatePR, Change
  <2>2. ASSUME NEW o \in Orgs, createPR(p, o) PROVE pr' \in [PRs -> PRRows \cup {NoPR}]
    <3>1. [org |-> o, inReview |-> TRUE, reviewers |-> {}, reviewed |-> {}] \in PRRows
      BY DEF PRRows
    <3> QED
      BY <1>0, <2>1, <2>2, <3>1 DEF createPR
  <2>3. ASSUME NEW u \in Users, addReviewer(p, u) PROVE pr' \in [PRs -> PRRows \cup {NoPR}]
    <3>1. pr[p] \in PRRows
      BY <1>0, <2>3 DEF addReviewer
    <3>2. [pr[p] EXCEPT !.reviewers = @ \cup {u}] \in PRRows
      BY <3>1 DEF PRRows
    <3> QED
      BY <1>0, <2>1, <2>3, <3>2 DEF addReviewer
  <2>4. ASSUME NEW u \in Users, submitReview(p, u) PROVE pr' \in [PRs -> PRRows \cup {NoPR}]
    <3>1. pr[p] \in PRRows
      BY <1>0, <2>4 DEF submitReview
    <3>2. [pr[p] EXCEPT !.reviewed = @ \cup {u}] \in PRRows
      BY <3>1 DEF PRRows
    <3> QED
      BY <1>0, <2>1, <2>4, <3>2 DEF submitReview
  <2>5. CASE updatePR(p)
    <3>1. pr[p] \in PRRows
      BY <1>0, <2>5 DEF updatePR
    <3>2. [pr[p] EXCEPT !.inReview = ~@] \in PRRows
      BY <3>1 DEF PRRows
    <3> QED
      BY <1>0, <2>1, <2>5, <3>2 DEF updatePR
  <2> QED
    BY <1>2, <2>1, <2>2, <2>3, <2>4, <2>5
<1>3. ASSUME NEW t \in Tickets, Age(t)
      PROVE  /\ ticket' \in [Tickets -> TicketRows \cup {NoTicket}]
             /\ EditChecked' /\ AssigneesWereMembers'
             /\ UNCHANGED <<members, pr, edit, joined, notes>> /\ Change
  <2>1. ticket[t] \in TicketRows
    BY <1>0, <1>3 DEF Age
  <2> DEFINE new == [ticket[t] EXCEPT !.old = TRUE]
  <2>2. new \in TicketRows /\ new.to = ticket[t].to /\ new.org = ticket[t].org
    BY <2>1 DEF TicketRows
  <2>3. ticket' = [ticket EXCEPT ![t] = new] /\ ticket[t] # NoTicket
    BY <1>3 DEF Age
  <2> HIDE DEF new
  <2>4. UNCHANGED <<members, pr, edit, joined, notes>> /\ Change
    BY <1>3 DEF Age, Change
  <2>5. EditChecked'
    <3>1. edit # NoEdit => edit.id \in Tickets
      BY <1>0 DEF Edits
    <3> QED
      BY <1>0, <2>2, <2>3, <2>4, <3>1 DEF EditChecked
  <2>6. AssigneesWereMembers'
    BY <1>0, <2>2, <2>3, <2>4 DEF AssigneesWereMembers
  <2> QED
    BY <1>0, <2>2, <2>3, <2>4, <2>5, <2>6
<1>4. ASSUME NEW t \in Tickets, NEW o \in Orgs, NEW to \in Users \cup {Nobody}, createTicket(t, o, to)
      PROVE  edit' \in Edits /\ EditChecked' /\ UNCHANGED <<members, ticket, pr, changes, joined, cycle, notes>>
  <2> DEFINE r == [org |-> o, to |-> to, open |-> TRUE, old |-> FALSE]
  <2>1. r \in TicketRows /\ r.org = o /\ r.to = to
    BY DEF TicketRows
  <2>2. edit' = [id |-> t, new |-> TRUE, row |-> r]
    BY <1>4 DEF createTicket
  <2> HIDE DEF r
  <2>3. edit' \in Edits /\ edit'.new /\ edit'.row = r
    BY <2>1, <2>2 DEF Edits
  <2>4. UNCHANGED <<members, ticket, pr, changes, joined, cycle, notes>>
    BY <1>4 DEF createTicket
  <2>5. to = Nobody \/ <<to, o>> \in joined
    BY <1>0, <1>4 DEF createTicket, assertValidAssignee
  <2> QED
    BY <2>1, <2>3, <2>4, <2>5 DEF EditChecked
<1>5. ASSUME NEW t \in Tickets, NEW o \in Orgs, NEW to \in Users \cup {Nobody}, NEW open \in BOOLEAN,
             updateTicket(t, o, to, open)
      PROVE  edit' \in Edits /\ EditChecked' /\ UNCHANGED <<members, ticket, pr, changes, joined, cycle, notes>>
  <2> DEFINE r == [ticket[t] EXCEPT !.to = to, !.open = open]
  <2>0. ticket[t] \in TicketRows /\ ticket[t].org = o
    BY <1>0, <1>5 DEF updateTicket
  <2>1. r \in TicketRows /\ r.org = o /\ r.to = to
    BY <2>0 DEF TicketRows
  <2>2. edit' = [id |-> t, new |-> FALSE, row |-> r]
    BY <1>5 DEF updateTicket
  <2> HIDE DEF r
  <2>3. edit' \in Edits /\ edit'.id = t /\ edit'.row = r
    BY <2>1, <2>2 DEF Edits
  <2>4. UNCHANGED <<members, ticket, pr, changes, joined, cycle, notes>>
    BY <1>5 DEF updateTicket
  <2>5. to = Nobody \/ <<to, o>> \in joined
    <3>1. CASE to = ticket[t].to
      BY <1>0, <1>5, <2>0, <3>1 DEF updateTicket, AssigneesWereMembers
    <3>2. CASE to # ticket[t].to
      BY <1>0, <1>5, <3>2 DEF updateTicket, assertValidAssignee
    <3> QED
      BY <3>1, <3>2
  <2> QED
    BY <2>0, <2>1, <2>3, <2>4, <2>5 DEF EditChecked
<1>6. ASSUME WriteTicket
      PROVE  /\ ticket' \in [Tickets -> TicketRows \cup {NoTicket}]
             /\ AssigneesWereMembers' /\ edit' = NoEdit
             /\ UNCHANGED <<members, pr, joined, notes>> /\ Change
  <2> DEFINE i == edit.id
             new == IF edit.new THEN edit.row ELSE [edit.row EXCEPT !.old = ticket[i].old]
  <2>1. /\ edit \in Edits /\ i \in Tickets /\ edit.row \in TicketRows
        /\ ~edit.new => ticket[i] \in TicketRows
        /\ edit.row.to = Nobody \/ <<edit.row.to, edit.row.org>> \in joined
    BY <1>0, <1>6 DEF WriteTicket, EditChecked, Edits
  <2>2. new \in TicketRows /\ new.to = edit.row.to /\ new.org = edit.row.org
    BY <2>1 DEF TicketRows
  <2>3. ticket' = [ticket EXCEPT ![i] = new] /\ edit' = NoEdit
    BY <1>6 DEF WriteTicket
  <2>4. UNCHANGED <<members, pr, joined, notes>> /\ Change
    BY <1>6 DEF WriteTicket, Change
  <2> HIDE DEF new, i
  <2>5. AssigneesWereMembers'
    BY <1>0, <2>1, <2>2, <2>3, <2>4 DEF AssigneesWereMembers
  <2> QED
    BY <1>0, <2>1, <2>2, <2>3, <2>4, <2>5
<1>7. CASE AbandonEdit
  <2>1. edit' = NoEdit /\ UNCHANGED <<members, ticket, pr, changes, joined, cycle, notes>>
    BY <1>7 DEF AbandonEdit
  <2> QED
    BY <1>0, <2>1 DEF EditChecked, AssigneesWereMembers
<1>8. ASSUME UNCHANGED <<ticket, edit>>, joined \subseteq joined' PROVE EditChecked' /\ AssigneesWereMembers'
  BY <1>0, <1>8 DEF EditChecked, AssigneesWereMembers
<1>9. ASSUME UNCHANGED <<ticket, joined>> PROVE AssigneesWereMembers'
  BY <1>0, <1>9 DEF AssigneesWereMembers
<1>10. ASSUME edit' = NoEdit PROVE EditChecked'
  BY <1>10 DEF EditChecked
<1>a. CASE \E m \in Memberships : Join(m) \/ Leave(m)
  BY <1>0, <1>1, <1>8, <1>a
<1>b. CASE \E p \in PRs : \/ \E o \in Orgs : createPR(p, o)
                          \/ \E u \in Users : addReviewer(p, u) \/ submitReview(p, u)
                          \/ updatePR(p)
  BY <1>0, <1>2, <1>8, <1>b
<1>c. CASE \E t \in Tickets : Age(t)
  BY <1>0, <1>3, <1>c
<1>d. CASE \E t \in Tickets, o \in Orgs, to \in Users \cup {Nobody} :
              createTicket(t, o, to) \/ \E open \in BOOLEAN : updateTicket(t, o, to, open)
  BY <1>0, <1>4, <1>5, <1>9, <1>d
<1>e. CASE WriteTicket
  BY <1>0, <1>6, <1>10, <1>e
<1> QED
  BY <1>7, <1>a, <1>b, <1>c, <1>d, <1>e DEF Surroundings

(* A notification is added with the next number, or one is marked read.    *)
LEMMA NotesAdded ==
    ASSUME TypeInv, NEW k \in Cycles, Deliver(k)
    PROVE  /\ NotesNumbered' /\ notes' \subseteq Notifications
           /\ Cardinality(notes) \in Nat
           /\ \E n \in Notifications :
                 /\ notes' = notes \cup {n}
                 /\ n.id = Cardinality(notes) + 1
                 /\ n.user = At(k)[1] /\ n.org = At(k)[2]
                 /\ n.assigned = cycle[k].tf.assigned /\ n.overdue = cycle[k].tf.overdue
                 /\ n.awaiting = cycle[k].pf.awaiting
<1> DEFINE n == [id |-> Cardinality(notes) + 1, user |-> At(k)[1], org |-> At(k)[2],
                 assigned |-> cycle[k].tf.assigned, overdue |-> cycle[k].tf.overdue,
                 awaiting |-> cycle[k].pf.awaiting, read |-> FALSE]
<1>1. /\ IsFiniteSet(notes) /\ notes \subseteq Notifications /\ Cardinality(notes) \in Nat
      /\ \A m \in notes : m.id <= Cardinality(notes)
      /\ \A l, m \in notes : l.id = m.id => l = m
  BY FS_CardinalityType DEF TypeInv, TypeOK, NotesNumbered
<1>2. notes' = notes \cup {n}
  BY DEF Deliver, buildDigestPrompt
<1>3. n \in Notifications
  <2>1. cycle[k] \in Running /\ cycle[k].at \in Users \X Orgs
    BY DEF TypeInv, TypeOK, Deliver, Complete, Collecting, At, Running, Memberships
  <2>2. At(k)[1] \in Users /\ At(k)[2] \in Orgs
    BY <2>1 DEF At
  <2>3. /\ cycle[k].tf.assigned \in TicketCounts /\ cycle[k].tf.overdue \in TicketCounts
        /\ cycle[k].pf.awaiting \in PRCounts
    BY <2>1 DEF Running, TicketFacts, PRFacts
  <2>4. Cardinality(notes) + 1 \in 1..MaxNotes
    BY <1>1, DigestAssumption DEF Deliver
  <2> QED
    BY <2>2, <2>3, <2>4 DEF Notifications
<1>4. /\ n.id = Cardinality(notes) + 1 /\ n.user = At(k)[1] /\ n.org = At(k)[2]
      /\ n.assigned = cycle[k].tf.assigned /\ n.overdue = cycle[k].tf.overdue
      /\ n.awaiting = cycle[k].pf.awaiting
  OBVIOUS
<1> HIDE DEF n
<1>5. n \notin notes
  BY <1>1, <1>4
<1>6. IsFiniteSet(notes') /\ Cardinality(notes') = Cardinality(notes) + 1
  BY <1>1, <1>2, <1>5, FS_AddElement
<1>7. \A m \in notes' : m.id <= Cardinality(notes')
  <2>1. \A m \in notes : m.id \in Nat
    BY <1>1 DEF Notifications
  <2> QED
    BY <1>1, <1>2, <1>4, <1>6, <2>1
<1>8. \A l, m \in notes' : l.id = m.id => l = m
  BY <1>1, <1>2, <1>4
<1> QED
  BY <1>1, <1>2, <1>3, <1>4, <1>6, <1>7, <1>8 DEF NotesNumbered

(* markRead puts a row in the place of another with its id.                *)
LEMMA NotesRead ==
    ASSUME TypeInv, NEW n \in notes, NEW u \in Users, markRead(n, u)
    PROVE  /\ NotesNumbered' /\ notes' \subseteq Notifications
           /\ \A m \in notes' : m.id <= Cardinality(notes)
           /\ Cardinality(notes) \in Nat
<1> DEFINE r == [n EXCEPT !.read = TRUE]
<1>1. /\ IsFiniteSet(notes) /\ notes \subseteq Notifications /\ Cardinality(notes) \in Nat
      /\ \A m \in notes : m.id <= Cardinality(notes)
      /\ \A l, m \in notes : l.id = m.id => l = m
  BY FS_CardinalityType DEF TypeInv, TypeOK, NotesNumbered
<1>2. r \in Notifications /\ r.id = n.id
  BY <1>1 DEF Notifications
<1>3. notes' = (notes \ {n}) \cup {r}
  BY DEF markRead
<1> HIDE DEF r
<1>4. r \notin notes \ {n}
  BY <1>1, <1>2
<1>5. IsFiniteSet(notes \ {n}) /\ Cardinality(notes \ {n}) = Cardinality(notes) - 1
  BY <1>1, FS_RemoveElement
<1>6. IsFiniteSet(notes') /\ Cardinality(notes') = Cardinality(notes)
  <2> DEFINE rest == notes \ {n}
  <2>1. IsFiniteSet(rest) /\ Cardinality(rest) = Cardinality(notes) - 1 /\ r \notin rest
    BY <1>4, <1>5
  <2>2. notes' = rest \cup {r}
    BY <1>3
  <2> HIDE DEF rest
  <2>3. IsFiniteSet(rest \cup {r}) /\ Cardinality(rest \cup {r}) = Cardinality(rest) + 1
    BY <2>1, FS_AddElement
  <2> QED
    BY <1>1, <2>1, <2>2, <2>3
<1>7. \A m \in notes' : m.id <= Cardinality(notes)
  BY <1>1, <1>2, <1>3
<1>8. \A l, m \in notes' : l.id = m.id => l = m
  BY <1>1, <1>2, <1>3
<1> QED
  BY <1>1, <1>2, <1>3, <1>6, <1>7, <1>8 DEF NotesNumbered

(* The first state.                                                        *)
LEMMA TypesInit == Init => TypeInv
<1> SUFFICES ASSUME Init PROVE TypeInv
  OBVIOUS
<1>1. /\ members \subseteq joined /\ joined \subseteq Memberships
      /\ ticket \in [Tickets -> TicketRows \cup {NoTicket}]
      /\ pr \in [PRs -> PRRows \cup {NoPR}]
      /\ edit = NoEdit /\ notes = {} /\ changes \in 0..MaxChanges
  BY DigestAssumption DEF Init, Memberships
<1>2. CyclesTyped /\ \A k \in Cycles : cycle[k] = NoCycle
  BY DEF Init, CyclesTyped
<1>3. IsFiniteSet(notes)
  BY <1>1, FS_EmptySet
<1>4. \A t \in Tickets : ticket[t] = NoTicket
  BY DEF Init
<1> QED
  BY <1>1, <1>2, <1>3, <1>4 DEF TypeInv, TypeOK, EditChecked, AssigneesWereMembers, NotesNumbered

(* Every step.                                                             *)
LEMMA TypesNext == TypeInv /\ [Next]_vars => TypeInv'
<1> SUFFICES ASSUME TypeInv, [Next]_vars PROVE TypeInv'
  OBVIOUS
<1>0. /\ members \subseteq joined /\ joined \subseteq Memberships
      /\ ticket \in [Tickets -> TicketRows \cup {NoTicket}]
      /\ pr \in [PRs -> PRRows \cup {NoPR}]
      /\ edit = NoEdit \/ edit \in Edits
      /\ notes \subseteq Notifications /\ changes \in 0..MaxChanges
      /\ EditChecked /\ AssigneesWereMembers /\ NotesNumbered /\ CyclesTyped
  BY DEF TypeInv, TypeOK
(* If only cycles and notifications change. *)
<1>1. ASSUME UNCHANGED world, CyclesTyped', NotesNumbered', notes' \subseteq Notifications
      PROVE  TypeInv'
  <2>1. \A k \in Cycles : cycle'[k] = NoCycle \/ cycle'[k] \in Running
    BY <1>1 DEF CyclesTyped
  <2>2. UNCHANGED <<members, ticket, pr, edit, changes, joined>>
    BY <1>1 DEF world
  <2>3. EditChecked' /\ AssigneesWereMembers'
    BY <1>0, <2>2 DEF EditChecked, AssigneesWereMembers
  <2> QED
    BY <1>0, <1>1, <2>1, <2>2, <2>3 DEF TypeInv, TypeOK
<1>2. ASSUME UNCHANGED notes PROVE NotesNumbered' /\ notes' \subseteq Notifications
  BY <1>0, <1>2 DEF NotesNumbered
<1>3. ASSUME UNCHANGED cycle PROVE CyclesTyped'
  BY <1>0, <1>3 DEF CyclesTyped
<1>4. CASE Surroundings
  <2>1. /\ members' \subseteq joined' /\ joined' \subseteq Memberships
        /\ ticket' \in [Tickets -> TicketRows \cup {NoTicket}]
        /\ pr' \in [PRs -> PRRows \cup {NoPR}]
        /\ edit' = NoEdit \/ edit' \in Edits
        /\ EditChecked' /\ AssigneesWereMembers'
        /\ notes' = notes /\ (Change \/ UNCHANGED <<pr, ticket, changes, cycle>>)
    BY <1>4, WorldTyped
  <2>2. CyclesTyped' /\ changes' \in 0..MaxChanges
    BY <1>0, <1>3, <2>1, ChangeDisturbs, DisturbedCyclesTyped
  <2>3. \A k \in Cycles : cycle'[k] = NoCycle \/ cycle'[k] \in Running
    BY <2>2 DEF CyclesTyped
  <2> QED
    BY <1>2, <2>1, <2>2, <2>3 DEF TypeInv, TypeOK
<1>5. CASE \E k \in Cycles : StartCycle(k)
  <2>1. PICK k \in Cycles : StartCycle(k)
    BY <1>5
  <2> DEFINE new == [list |-> members, todo |-> members, at |-> NoMember, tf |-> AskTickets,
                     pf |-> AskPRs, touched |-> FALSE, failed |-> {}, served |-> {}]
  <2>2. new \in Running /\ new.pf = AskPRs
    <3>1. AskTickets \in TicketFacts /\ AskPRs \in PRFacts
      BY CountsTyped DEF AskTickets, AskPRs, TicketFacts, PRFacts, TicketCounts, PRCounts
    <3> QED
      BY <1>0, <3>1 DEF Running
  <2>3. cycle' = [cycle EXCEPT ![k] = new] /\ UNCHANGED <<world, notes>>
    BY <2>1 DEF StartCycle
  <2> HIDE DEF new
  <2>4. /\ cycle'[k] = new
        /\ \A j \in Cycles : j # k => cycle'[j] = cycle[j]
        /\ cycle' \in [Cycles -> Running \cup {NoCycle}]
    BY <2>2, <2>3, Updated
  <2>5. new.pf.awaiting = 0 /\ Cardinality(new.pf.ids) = 0
    BY <2>2, FS_EmptySet DEF AskPRs
  <2>6. CyclesTyped'
    BY <1>0, <2>4, <2>5, CountsTyped DEF CyclesTyped
  <2> QED
    BY <1>1, <1>2, <2>3, <2>6
<1>6. CASE \E k \in Cycles : Advance(k)
  <2>1. PICK k \in Cycles : Advance(k)
    BY <1>6
  <2>2. UNCHANGED world /\ CyclesTyped'
    BY <2>1, CycleSteps, StepCyclesTyped
  <2>3. UNCHANGED notes \/ Deliver(k)
    BY <2>1 DEF Advance, TakeNext, CountAssigned, CountOverdue, TicketFactsFail, FindReviewerRows,
         FindCandidates, PRFactsFail, FindReview, Skip, Finish
  <2>4. NotesNumbered' /\ notes' \subseteq Notifications
    BY <1>2, <2>3, NotesAdded
  <2> QED
    BY <1>1, <2>2, <2>4
<1>7. CASE Crash
  <2>1. CyclesTyped' /\ UNCHANGED <<world, notes>>
    BY <1>7 DEF Crash, CyclesTyped
  <2> QED
    BY <1>1, <1>2, <2>1
<1>8. CASE \E n \in notes, u \in Users : markRead(n, u)
  <2>1. UNCHANGED <<world, cycle>> /\ NotesNumbered' /\ notes' \subseteq Notifications
    BY <1>8, NotesRead DEF markRead
  <2> QED
    BY <1>1, <1>3, <2>1
<1>9. CASE UNCHANGED vars
  BY <1>1, <1>2, <1>3, <1>9 DEF vars
<1> QED
  BY <1>4, <1>5, <1>6, <1>7, <1>8, <1>9 DEF Next

(* So TypeInv holds of every reachable state.                              *)
LEMMA TypesHold == Spec => []TypeInv
BY TypesInit, TypesNext, PTL DEF Spec

(* Every table, every running cycle and every notification stays in its    *)
(* type; in particular no digest counts more pull requests or tickets than *)
(* there are.                                                              *)
THEOREM TypeCorrect == Spec => []TypeOK
<1>1. TypeInv => TypeOK
  BY DEF TypeInv
<1> QED
  BY <1>1, TypesHold, PTL

(* A ticket is assigned only to someone who was a member of its own        *)
(* organization at some time, whatever happens to the membership between   *)
(* the check of createTicket or updateTicket and its write.                *)
THEOREM AssigneesChecked == Spec => []AssigneesWereMembers
<1>1. TypeInv => AssigneesWereMembers
  BY DEF TypeInv
<1> QED
  BY <1>1, TypesHold, PTL

-----------------------------------------------------------------------------
(* Nobody is forgotten.                                                    *)

(* There is no cycle at first.                                             *)
LEMMA ForgottenInit == Init => NobodyForgotten
BY DEF Init, NobodyForgotten

(* A membership leaves todo for at, and at for served or failed.           *)
LEMMA ForgottenNext == TypeInv /\ NobodyForgotten /\ [Next]_vars => NobodyForgotten'
<1> SUFFICES ASSUME TypeInv, NobodyForgotten, [Next]_vars,
                    NEW k \in Cycles, cycle'[k] # NoCycle
             PROVE  cycle'[k].list \subseteq cycle'[k].served \cup cycle'[k].failed
                                  \cup cycle'[k].todo \cup ({cycle'[k].at} \ {NoMember})
  BY DEF NobodyForgotten, At
<1>0. cycle \in [Cycles -> Running \cup {NoCycle}]
  BY DEF TypeInv, CyclesTyped
<1>1. cycle[k] # NoCycle =>
         cycle[k].list \subseteq cycle[k].served \cup cycle[k].failed
                                  \cup cycle[k].todo \cup ({cycle[k].at} \ {NoMember})
  BY DEF NobodyForgotten, At
<1>2. ASSUME cycle'[k] = cycle[k]
      PROVE  cycle'[k].list \subseteq cycle'[k].served \cup cycle'[k].failed
                                  \cup cycle'[k].todo \cup ({cycle'[k].at} \ {NoMember})
  BY <1>1, <1>2
<1>3. CASE Surroundings
  <2>1. Disturbs \/ cycle' = cycle
    BY <1>3, WorldTyped, ChangeDisturbs
  <2>2. CASE Disturbs
    BY <1>1, <2>2 DEF Disturbs
  <2> QED
    BY <1>2, <2>1, <2>2
<1>4. ASSUME NEW j \in Cycles, StartCycle(j)
      PROVE  cycle'[k].list \subseteq cycle'[k].served \cup cycle'[k].failed
                                  \cup cycle'[k].todo \cup ({cycle'[k].at} \ {NoMember})
  <2>1. CASE j = k
    <3>1. cycle'[k] = [list |-> members, todo |-> members, at |-> NoMember, tf |-> AskTickets,
                       pf |-> AskPRs, touched |-> FALSE, failed |-> {}, served |-> {}]
      BY <1>4, <2>1, Updated DEF StartCycle
    <3> QED
      BY <3>1
  <2>2. CASE j # k
    BY <1>2, <1>4, <2>2, Updated DEF StartCycle
  <2> QED
    BY <2>1, <2>2
<1>5. ASSUME NEW j \in Cycles, Advance(j)
      PROVE  cycle'[k].list \subseteq cycle'[k].served \cup cycle'[k].failed
                                  \cup cycle'[k].todo \cup ({cycle'[k].at} \ {NoMember})
  <2>1. CASE j # k
    BY <1>2, <1>5, <2>1, CycleSteps
  <2>2. CASE j = k
    <3>0. cycle[k] # NoCycle
      BY <1>5, <2>2 DEF Advance, TakeNext, CountAssigned, CountOverdue, TicketFactsFail,
           FindReviewerRows, FindCandidates, PRFactsFail, FindReview, Deliver, Skip, Finish,
           Settled, Complete, Collecting
    <3>1. Takes(k) \/ AsksTickets(k) \/ AsksPRs(k) \/ Passes(k)
      BY <1>5, <2>2, CycleSteps
    <3>2. CASE Takes(k)
      BY <1>0, <1>1, <3>0, <3>2, DigestAssumption DEF Takes, Kept, Running, Memberships
    <3>3. CASE AsksTickets(k) \/ AsksPRs(k)
      BY <1>1, <3>0, <3>3 DEF AsksTickets, AsksPRs, Asks, Kept
    <3>4. CASE Passes(k)
      BY <1>1, <3>0, <3>4 DEF Passes, Kept, At
    <3> QED
      BY <3>1, <3>2, <3>3, <3>4
  <2> QED
    BY <2>1, <2>2
<1>6. CASE Crash
  BY <1>6 DEF Crash
<1>7. CASE \/ \E n \in notes, u \in Users : markRead(n, u)
           \/ UNCHANGED vars
  BY <1>2, <1>7 DEF markRead, vars
<1> QED
  BY <1>3, <1>4, <1>5, <1>6, <1>7 DEF Next

(* A failure for one user never blocks the rest: a cycle that comes to its *)
(* end has left a digest for every membership it found, but those of which *)
(* a step of their own has failed.                                         *)
THEOREM NobodyIsBlocked == Spec => []EveryoneElseServed
<1>1. NobodyForgotten => EveryoneElseServed
  BY DEF NobodyForgotten, EveryoneElseServed, At
<1>2. TypeInv /\ NobodyForgotten /\ [Next]_vars => NobodyForgotten'
  BY ForgottenNext
<1>3. Spec => []NobodyForgotten
  BY ForgottenInit, <1>2, TypesHold, PTL DEF Spec
<1> QED
  BY <1>1, <1>3, PTL

-----------------------------------------------------------------------------
(* What a digest tells is true.                                            *)

(* A step of the outside changes one pull request at most, and takes no    *)
(* reviewer and no review away.                                            *)
LEMMA OnePRChanges ==
    ASSUME TypeInv, Surroundings
    PROVE  pr' = pr \/ \E p \in PRs :
              /\ \A q \in PRs : q # p => pr'[q] = pr[q]
              /\ pr[p] # NoPR =>
                    /\ pr'[p] # NoPR
                    /\ pr[p].reviewers \subseteq pr'[p].reviewers
                    /\ pr[p].reviewed \subseteq pr'[p].reviewed
<1> DEFINE Grows(p) == pr[p] # NoPR =>
                          /\ pr'[p] # NoPR
                          /\ pr[p].reviewers \subseteq pr'[p].reviewers
                          /\ pr[p].reviewed \subseteq pr'[p].reviewed
           OnlyPR(p) == \A q \in PRs : q # p => pr'[q] = pr[q]
<1>1. pr \in [PRs -> PRRows \cup {NoPR}]
  BY DEF TypeInv, TypeOK
<1>2. ASSUME NEW p \in PRs, NEW o \in Orgs, createPR(p, o) PROVE OnlyPR(p) /\ Grows(p)
  BY <1>1, <1>2 DEF createPR
<1>3. ASSUME NEW p \in PRs, NEW new, new # NoPR, pr' = [pr EXCEPT ![p] = new],
             pr[p].reviewers \subseteq new.reviewers, pr[p].reviewed \subseteq new.reviewed
      PROVE  OnlyPR(p) /\ Grows(p)
  BY <1>1, <1>3
<1>4. ASSUME NEW p \in PRs, NEW u \in Users, addReviewer(p, u) PROVE OnlyPR(p) /\ Grows(p)
  <2> DEFINE new == [pr[p] EXCEPT !.reviewers = @ \cup {u}]
  <2>1. pr[p] \in PRRows /\ pr' = [pr EXCEPT ![p] = new]
    BY <1>1, <1>4 DEF addReviewer
  <2>2. /\ new # NoPR /\ pr[p].reviewers \subseteq new.reviewers
        /\ pr[p].reviewed \subseteq new.reviewed
    BY <2>1, NoRowAssumption DEF PRRows
  <2> QED
    BY <1>3, <2>1, <2>2
<1>5. ASSUME NEW p \in PRs, NEW u \in Users, submitReview(p, u) PROVE OnlyPR(p) /\ Grows(p)
  <2> DEFINE new == [pr[p] EXCEPT !.reviewed = @ \cup {u}]
  <2>1. pr[p] \in PRRows /\ pr' = [pr EXCEPT ![p] = new]
    BY <1>1, <1>5 DEF submitReview
  <2>2. /\ new # NoPR /\ pr[p].reviewers \subseteq new.reviewers
        /\ pr[p].reviewed \subseteq new.reviewed
    BY <2>1, NoRowAssumption DEF PRRows
  <2> QED
    BY <1>3, <2>1, <2>2
<1>6. ASSUME NEW p \in PRs, updatePR(p) PROVE OnlyPR(p) /\ Grows(p)
  <2> DEFINE new == [pr[p] EXCEPT !.inReview = ~@]
  <2>1. pr[p] \in PRRows /\ pr' = [pr EXCEPT ![p] = new]
    BY <1>1, <1>6 DEF updatePR
  <2>2. /\ new # NoPR /\ pr[p].reviewers \subseteq new.reviewers
        /\ pr[p].reviewed \subseteq new.reviewed
    BY <2>1, NoRowAssumption DEF PRRows
  <2> QED
    BY <1>3, <2>1, <2>2
<1> HIDE DEF Grows, OnlyPR
<1>7. pr' = pr \/ \E p \in PRs : OnlyPR(p) /\ Grows(p)
  <2>1. CASE \E p \in PRs : \/ \E o \in Orgs : createPR(p, o)
                            \/ \E u \in Users : addReviewer(p, u) \/ submitReview(p, u)
                            \/ updatePR(p)
    BY <1>2, <1>4, <1>5, <1>6, <2>1
  <2>2. CASE \/ \E m \in Memberships : Join(m) \/ Leave(m)
             \/ \E t \in Tickets :
                   \/ Age(t)
                   \/ \E o \in Orgs, to \in Users \cup {Nobody} :
                         \/ createTicket(t, o, to)
                         \/ \E open \in BOOLEAN : updateTicket(t, o, to, open)
             \/ WriteTicket \/ AbandonEdit
    BY <2>2 DEF Join, Leave, Age, createTicket, updateTicket, WriteTicket, AbandonEdit
  <2> QED
    BY <2>1, <2>2 DEF Surroundings
<1> QED
  BY <1>7 DEF Grows, OnlyPR

(* If the facts of a member stay what they are, the same pull requests     *)
(* await a review.                                                         *)
LEMMA SameAwaiting ==
    ASSUME TypeInv, Surroundings, NEW m \in Memberships, Facts(m)' = Facts(m)
    PROVE  /\ Awaiting(m)' = Awaiting(m)
           /\ \A p \in PRs : pr[p] # NoPR =>
                 /\ pr'[p] # NoPR
                 /\ pr[p].reviewers \subseteq pr'[p].reviewers
                 /\ pr[p].reviewed \subseteq pr'[p].reviewed
<1>1. IsFiniteSet(Awaiting(m)) /\ IsFiniteSet(Awaiting(m)')
  <2>1. Awaiting(m) \in SUBSET PRs /\ Awaiting(m)' \in SUBSET PRs
    BY DEF Awaiting
  <2> QED
    BY <2>1, CountsTyped
<1>2. Cardinality(Awaiting(m)') = Cardinality(Awaiting(m))
  <2>1. Facts(m).awaiting = Cardinality(Awaiting(m))
    BY DEF Facts, Awaiting
  <2>2. Facts(m)'.awaiting = Cardinality(Awaiting(m)')
    BY DEF Facts, Awaiting
  <2> QED
    BY <2>1, <2>2
<1>3. CASE pr' = pr
  BY <1>3 DEF Awaiting
<1>4. ASSUME NEW p \in PRs,
             \A q \in PRs : q # p => pr'[q] = pr[q],
             pr[p] # NoPR => /\ pr'[p] # NoPR
                             /\ pr[p].reviewers \subseteq pr'[p].reviewers
                             /\ pr[p].reviewed \subseteq pr'[p].reviewed
      PROVE  /\ Awaiting(m)' = Awaiting(m)
             /\ \A q \in PRs : pr[q] # NoPR =>
                   /\ pr'[q] # NoPR
                   /\ pr[q].reviewers \subseteq pr'[q].reviewers
                   /\ pr[q].reviewed \subseteq pr'[q].reviewed
  <2>1. Awaiting(m)' \ {p} = Awaiting(m) \ {p}
    BY <1>4 DEF Awaiting
  <2>2. Awaiting(m)' = Awaiting(m)
    BY <1>1, <1>2, <2>1, SameSizeSame
  <2>3. \A q \in PRs : pr[q] # NoPR =>
                   /\ pr'[q] # NoPR
                   /\ pr[q].reviewers \subseteq pr'[q].reviewers
                   /\ pr[q].reviewed \subseteq pr'[q].reviewed
    BY <1>4
  <2> QED
    BY <2>2, <2>3
<1> QED
  BY <1>3, <1>4, OnePRChanges

(* There is no cycle at first.                                             *)
LEMMA TruthInit == Init => TruthInv
BY DEF Init, TruthInv, TicketsTold, ReviewsTold, Following

(* A step of the outside.                                                  *)
LEMMA TruthDisturbed ==
    ASSUME TypeInv, TruthInv, Surroundings
    PROVE  TruthInv'
<1>1. ASSUME NEW k \in Cycles, NEW m \in Memberships, Following(k, m)'
      PROVE  /\ Following(k, m) /\ Facts(m)' = Facts(m)
             /\ cycle'[k].tf = cycle[k].tf /\ cycle'[k].pf = cycle[k].pf
  <2>1. cycle'[k] # NoCycle /\ cycle'[k].at = m /\ ~cycle'[k].touched
    BY <1>1 DEF Following
  <2>2. Disturbs \/ UNCHANGED <<pr, ticket, cycle>>
    BY WorldTyped, ChangeDisturbs
  <2>3. CASE Disturbs
    BY <2>1, <2>3 DEF Disturbs, Following
  <2>4. CASE UNCHANGED <<pr, ticket, cycle>>
    BY <1>1, <2>4 DEF Following, Facts
  <2> QED
    BY <2>2, <2>3, <2>4
<1>2. TicketsTold'
  BY <1>1 DEF TruthInv, TicketsTold
<1>3. ASSUME NEW k \in Cycles, NEW m \in Memberships, Following(k, m)'
      PROVE  /\ cycle'[k].pf.step = "candidates" => CandidatesHold(cycle[k].pf, m)'
             /\ cycle'[k].pf.step = "reviews" => ReviewsHold(cycle[k].pf, m)'
             /\ cycle'[k].pf.step = "done" => cycle'[k].pf.awaiting = Cardinality(Awaiting(m)')
  <2> DEFINE pf == cycle[k].pf
  <2>1. /\ Following(k, m) /\ cycle'[k].pf = pf
        /\ Awaiting(m)' = Awaiting(m)
        /\ \A p \in PRs : pr[p] # NoPR =>
              /\ pr'[p] # NoPR
              /\ pr[p].reviewers \subseteq pr'[p].reviewers
              /\ pr[p].reviewed \subseteq pr'[p].reviewed
    BY <1>1, <1>3, SameAwaiting
  <2>2. pf.ids \subseteq PRs
    BY <2>1 DEF TypeInv, TypeOK, Following, Running, PRFacts
  <2>3. /\ pf.step = "candidates" => CandidatesHold(pf, m)
        /\ pf.step = "reviews" => ReviewsHold(pf, m)
        /\ pf.step = "done" => pf.awaiting = Cardinality(Awaiting(m))
    BY <2>1 DEF TruthInv, ReviewsTold
  <2>4. pf.step = "candidates" => CandidatesHold(cycle[k].pf, m)'
    BY <2>1, <2>2, <2>3 DEF CandidatesHold
  <2>5. pf.step = "reviews" => ReviewsHold(cycle[k].pf, m)'
    BY <2>1, <2>2, <2>3 DEF ReviewsHold
  <2> QED
    BY <2>1, <2>3, <2>4, <2>5
<1>4. ReviewsTold'
  BY <1>3 DEF ReviewsTold
<1> QED
  BY <1>2, <1>4 DEF TruthInv

(* A query of pr-service.                                                  *)
LEMMA ReviewsAsked ==
    ASSUME TypeInv, TruthInv, NEW k \in Cycles, NEW m \in Memberships,
           AsksPRs(k), UNCHANGED world, Following(k, m)
    PROVE  /\ cycle'[k].pf.step = "candidates" => CandidatesHold(cycle[k].pf, m)'
           /\ cycle'[k].pf.step = "reviews" => ReviewsHold(cycle[k].pf, m)'
           /\ cycle'[k].pf.step = "done" => cycle'[k].pf.awaiting = Cardinality(Awaiting(m)')
<1> DEFINE pf == cycle[k].pf
           new == cycle'[k].pf
           u == m[1]
           o == m[2]
           After(ids, step) == IF ids = {} THEN "done" ELSE step
           Goal == /\ new.step = "candidates" => CandidatesHold(cycle[k].pf, m)'
                   /\ new.step = "reviews" => ReviewsHold(cycle[k].pf, m)'
                   /\ new.step = "done" => new.awaiting = Cardinality(Awaiting(m)')
<1>1. /\ cycle[k] \in Running /\ cycle[k] # NoCycle /\ cycle[k].at = m
      /\ pf.ids \in SUBSET PRs /\ pf.awaiting \in Nat
  BY DEF TypeInv, TypeOK, Following, Running, PRFacts, PRCounts
<1>2. pr' = pr /\ Awaiting(m)' = Awaiting(m)
  BY DEF world, Awaiting
<1>3. /\ pf.step = "reviewer" => pf.awaiting = 0
      /\ pf.step = "candidates" => CandidatesHold(pf, m)
      /\ pf.step = "reviews" => ReviewsHold(pf, m)
  BY <1>1 DEF TypeInv, CyclesTyped, TruthInv, ReviewsTold
<1>4. /\ IsFiniteSet(Awaiting(m)) /\ Cardinality(Awaiting(m)) \in Nat
      /\ Awaiting(m) \subseteq PRs
  <2>1. Awaiting(m) \in SUBSET PRs
    BY DEF Awaiting
  <2> QED
    BY <2>1, CountsTyped, FS_CardinalityType
<1>5. CASE pf.step = "reviewer"
           /\ new = [step |-> After(ReviewerOf(u), "candidates"),
                     ids |-> ReviewerOf(u), awaiting |-> pf.awaiting]
  <2>1. Awaiting(m) \subseteq ReviewerOf(u) /\ \A p \in ReviewerOf(u) : pr[p] # NoPR /\ u \in pr[p].reviewers
    BY DEF Awaiting, ReviewerOf
  <2>2. CASE ReviewerOf(u) = {}
    <3>1. Awaiting(m) = {}
      BY <2>1, <2>2
    <3> QED
      BY <1>2, <1>3, <1>5, <2>2, <3>1, FS_EmptySet
  <2>3. CASE ReviewerOf(u) # {}
    <3>1. new.step = "candidates" /\ new.ids = ReviewerOf(u) /\ new.awaiting = 0
      BY <1>3, <1>5, <2>3
    <3>2. CandidatesHold(cycle[k].pf, m)'
      BY <1>2, <2>1, <3>1 DEF CandidatesHold
    <3> QED
      BY <3>1, <3>2
  <2> QED
    BY <2>2, <2>3
<1>6. CASE pf.step = "candidates"
           /\ new = [step |-> After(Candidates(pf.ids, o), "reviews"),
                     ids |-> Candidates(pf.ids, o), awaiting |-> pf.awaiting]
  <2> DEFINE found == Candidates(pf.ids, o)
  <2>1. CandidatesHold(pf, m)
    BY <1>3, <1>6
  <2>2. /\ Awaiting(m) \subseteq found
        /\ \A p \in found : pr[p] # NoPR /\ (u \in pr[p].reviewed \/ p \in Awaiting(m))
    BY <1>1, <2>1 DEF CandidatesHold, Candidates, Awaiting
  <2>3. new = [step |-> After(found, "reviews"), ids |-> found, awaiting |-> 0]
    BY <1>6, <2>1 DEF CandidatesHold
  <2> HIDE DEF found
  <2>4. CASE found = {}
    <3>1. Awaiting(m) = {}
      BY <2>2, <2>4
    <3> QED
      BY <1>2, <2>3, <2>4, <3>1, FS_EmptySet
  <2>5. CASE found # {}
    <3>1. new.step = "reviews" /\ new.ids = found /\ new.awaiting = 0
      BY <2>3, <2>5
    <3>2. Awaiting(m) \cap found = Awaiting(m)
      BY <2>2
    <3>3. ReviewsHold(cycle[k].pf, m)'
      BY <1>2, <1>4, <2>2, <3>1, <3>2 DEF ReviewsHold
    <3> QED
      BY <3>1, <3>3
  <2> QED
    BY <2>4, <2>5
<1>7. ASSUME pf.step = "reviews", NEW p \in pf.ids,
             new = [step |-> After(pf.ids \ {p}, "reviews"), ids |-> pf.ids \ {p},
                    awaiting |-> IF u \in pr[p].reviewed THEN pf.awaiting ELSE pf.awaiting + 1]
      PROVE  Goal
  <2> DEFINE ids == pf.ids \ {p}
             before == Awaiting(m) \cap pf.ids
             left == Awaiting(m) \cap ids
  <2>1. /\ pf.awaiting + Cardinality(before) = Cardinality(Awaiting(m))
        /\ \A q \in pf.ids : pr[q] # NoPR /\ (u \in pr[q].reviewed \/ q \in Awaiting(m))
    BY <1>3, <1>7 DEF ReviewsHold
  <2>2. IsFiniteSet(before) /\ Cardinality(before) \in Nat /\ IsFiniteSet(left)
        /\ Cardinality(left) \in Nat
    BY <1>4, FS_Subset, FS_CardinalityType
  <2>3. new.awaiting + Cardinality(left) = Cardinality(Awaiting(m))
    <3>1. CASE u \in pr[p].reviewed
      <4>1. left = before
        BY <3>1 DEF Awaiting
      <4>2. new.awaiting = pf.awaiting
        BY <1>7, <3>1
      <4> HIDE DEF left, before
      <4> QED
        BY <2>1, <4>1, <4>2
    <3>2. CASE u \notin pr[p].reviewed
      <4>1. p \in before /\ left = before \ {p}
        BY <2>1, <3>2
      <4>2. new.awaiting = pf.awaiting + 1
        BY <1>7, <3>2
      <4> HIDE DEF left, before
      <4>3. Cardinality(left) = Cardinality(before) - 1
        BY <2>2, <4>1, FS_RemoveElement
      <4> QED
        BY <1>1, <2>1, <2>2, <4>2, <4>3
    <3> QED
      BY <3>1, <3>2
  <2>4. new.ids = ids /\ new.step = After(ids, "reviews")
    BY <1>7
  <2>5. new.awaiting \in Nat
    BY <1>1, <1>7
  <2>6. CASE ids = {}
    <3>1. left = {} /\ new.step = "done"
      BY <2>4, <2>6
    <3>2. Cardinality(left) = 0
      BY <3>1, FS_EmptySet
    <3>3. new.awaiting = Cardinality(Awaiting(m))
      BY <2>3, <2>5, <3>2
    <3> QED
      BY <1>2, <3>1, <3>3
  <2>7. CASE ids # {}
    <3>1. new.step = "reviews"
      BY <2>4, <2>7
    <3>2. \A q \in ids : pr[q] # NoPR /\ (u \in pr[q].reviewed \/ q \in Awaiting(m))
      BY <2>1
    <3>3. ReviewsHold(cycle[k].pf, m)'
      BY <1>2, <2>3, <2>4, <3>2 DEF ReviewsHold
    <3> QED
      BY <3>1, <3>3
  <2> QED
    BY <2>6, <2>7
<1>8. CASE new = [step |-> "null", ids |-> pf.ids, awaiting |-> pf.awaiting]
  BY <1>8
<1> QED
  BY <1>1, <1>5, <1>6, <1>7, <1>8 DEF AsksPRs

(* Any other step.                                                         *)
LEMMA TruthAdvanced ==
    ASSUME TypeInv, TruthInv, UNCHANGED world,
           NEW k \in Cycles, NEW m \in Memberships, Following(k, m)',
           cycle'[k] = cycle[k] \/ Takes(k) \/ AsksTickets(k) \/ AsksPRs(k)
    PROVE  /\ cycle'[k].tf.step \in {"overdue", "done"} => cycle'[k].tf.assigned = Facts(m)'.assigned
           /\ cycle'[k].tf.step = "done" => cycle'[k].tf.overdue = Facts(m)'.overdue
           /\ cycle'[k].pf.step = "candidates" => CandidatesHold(cycle[k].pf, m)'
           /\ cycle'[k].pf.step = "reviews" => ReviewsHold(cycle[k].pf, m)'
           /\ cycle'[k].pf.step = "done" => cycle'[k].pf.awaiting = Cardinality(Awaiting(m)')
<1>1. Facts(m)' = Facts(m) /\ Awaiting(m)' = Awaiting(m) /\ pr' = pr
  BY DEF world, Facts, Awaiting
<1>2. cycle'[k] # NoCycle /\ cycle'[k].at = m /\ ~cycle'[k].touched
  BY DEF Following
<1>3. CASE Takes(k)
  BY <1>3 DEF Takes, AskTickets, AskPRs
<1>4. CASE ~Takes(k)
  <2>1. Following(k, m)
    BY <1>2, <1>4 DEF AsksTickets, AsksPRs, Asks, Collecting, Following
  <2>2. /\ cycle[k].tf.step \in {"overdue", "done"} => cycle[k].tf.assigned = Facts(m).assigned
        /\ cycle[k].tf.step = "done" => cycle[k].tf.overdue = Facts(m).overdue
        /\ cycle[k].pf.step = "candidates" => CandidatesHold(cycle[k].pf, m)
        /\ cycle[k].pf.step = "reviews" => ReviewsHold(cycle[k].pf, m)
        /\ cycle[k].pf.step = "done" => cycle[k].pf.awaiting = Cardinality(Awaiting(m))
    BY <2>1 DEF TruthInv, TicketsTold, ReviewsTold
  <2>3. ASSUME cycle'[k].tf = cycle[k].tf
        PROVE  /\ cycle'[k].tf.step \in {"overdue", "done"} => cycle'[k].tf.assigned = Facts(m)'.assigned
               /\ cycle'[k].tf.step = "done" => cycle'[k].tf.overdue = Facts(m)'.overdue
    BY <1>1, <2>2, <2>3
  <2>4. ASSUME cycle'[k].pf = cycle[k].pf
        PROVE  /\ cycle'[k].pf.step = "candidates" => CandidatesHold(cycle[k].pf, m)'
               /\ cycle'[k].pf.step = "reviews" => ReviewsHold(cycle[k].pf, m)'
               /\ cycle'[k].pf.step = "done" => cycle'[k].pf.awaiting = Cardinality(Awaiting(m)')
    BY <1>1, <2>2, <2>4 DEF CandidatesHold, ReviewsHold
  <2>5. CASE cycle'[k] = cycle[k]
    BY <2>3, <2>4, <2>5
  <2>6. CASE AsksTickets(k)
    <3>1. cycle'[k].pf = cycle[k].pf /\ cycle[k].at = m
      BY <2>1, <2>6 DEF AsksTickets, Following
    <3>2. Facts(m).assigned = Assigned(m[1], m[2]) /\ Facts(m).overdue = Overdue(m[1], m[2])
      BY QueriesCount
    <3> DEFINE tf == cycle[k].tf
    <3>3. CASE cycle'[k].tf = [step |-> "overdue", assigned |-> Assigned(m[1], m[2]), overdue |-> tf.overdue]
      BY <1>1, <2>4, <3>1, <3>2, <3>3
    <3>4. CASE tf.step = "overdue"
               /\ cycle'[k].tf = [step |-> "done", assigned |-> tf.assigned, overdue |-> Overdue(m[1], m[2])]
      BY <1>1, <2>2, <2>4, <3>1, <3>2, <3>4
    <3>5. CASE cycle'[k].tf = [step |-> "null", assigned |-> tf.assigned, overdue |-> tf.overdue]
      BY <2>4, <3>1, <3>5
    <3> QED
      BY <2>6, <3>1, <3>3, <3>4, <3>5 DEF AsksTickets
  <2>7. CASE AsksPRs(k)
    <3>1. cycle'[k].tf = cycle[k].tf
      BY <2>7 DEF AsksPRs
    <3> QED
      BY <2>1, <2>3, <2>7, <3>1, ReviewsAsked
  <2> QED
    BY <1>4, <2>5, <2>6, <2>7
<1> QED
  BY <1>3, <1>4

(* Every step keeps what the running cycles were told true.                *)
LEMMA TruthNext == TypeInv /\ TruthInv /\ [Next]_vars => TruthInv'
<1> SUFFICES ASSUME TypeInv, TruthInv, [Next]_vars PROVE TruthInv'
  OBVIOUS
<1>1. ASSUME UNCHANGED world,
             \A k \in Cycles : \/ cycle'[k] = cycle[k]
                               \/ Takes(k) \/ AsksTickets(k) \/ AsksPRs(k)
                               \/ cycle'[k] = NoCycle \/ cycle'[k].at = NoMember
      PROVE  TruthInv'
  <2>1. ASSUME NEW k \in Cycles, NEW m \in Memberships, Following(k, m)'
        PROVE  cycle'[k] = cycle[k] \/ Takes(k) \/ AsksTickets(k) \/ AsksPRs(k)
    BY <1>1, <2>1, DigestAssumption DEF Following, Memberships
  <2> QED
    BY <1>1, <2>1, TruthAdvanced DEF TruthInv, TicketsTold, ReviewsTold
<1>2. CASE Surroundings
  BY <1>2, TruthDisturbed
<1>3. ASSUME NEW j \in Cycles, StartCycle(j) PROVE TruthInv'
  <2> DEFINE new == [list |-> members, todo |-> members, at |-> NoMember, tf |-> AskTickets,
                     pf |-> AskPRs, touched |-> FALSE, failed |-> {}, served |-> {}]
  <2>1. cycle' = [cycle EXCEPT ![j] = new] /\ UNCHANGED world /\ new.at = NoMember
    BY <1>3 DEF StartCycle
  <2> HIDE DEF new
  <2>2. cycle'[j].at = NoMember /\ \A k \in Cycles : k # j => cycle'[k] = cycle[k]
    BY <2>1, Updated
  <2> QED
    BY <1>1, <2>1, <2>2
<1>4. ASSUME NEW j \in Cycles, Advance(j) PROVE TruthInv'
  <2>1. /\ UNCHANGED world
        /\ \A k \in Cycles : k # j => cycle'[k] = cycle[k]
        /\ Takes(j) \/ AsksTickets(j) \/ AsksPRs(j) \/ Passes(j) \/ cycle'[j] = NoCycle
    BY <1>4, CycleSteps
  <2>2. Passes(j) => cycle'[j].at = NoMember
    BY DEF Passes
  <2> QED
    BY <1>1, <2>1, <2>2
<1>5. CASE Crash
  BY <1>1, <1>5 DEF Crash
<1>6. CASE \/ \E n \in notes, u \in Users : markRead(n, u)
           \/ UNCHANGED vars
  BY <1>1, <1>6 DEF markRead, vars
<1> QED
  BY <1>2, <1>3, <1>4, <1>5, <1>6 DEF Next

(* What a digest tells is exactly what is true of this user in this        *)
(* organization when the notification is stored, or it has changed since   *)
(* the facts were asked for.                                               *)
THEOREM DigestsAreTrue == Spec => DigestTellsTheTruth
<1>1. TypeInv /\ TruthInv /\ [Next]_vars =>
         [\A n \in notes' : n.id > Cardinality(notes) =>
             \E k \in Cycles :
                /\ Collecting(k) /\ At(k) = <<n.user, n.org>>
                /\ cycle[k].touched \/ buildDigestPrompt(n, n) = Facts(At(k))]_vars
  <2> SUFFICES ASSUME TypeInv, TruthInv, [Next]_vars,
                      NEW n \in notes', n.id > Cardinality(notes)
               PROVE  \E k \in Cycles :
                         /\ Collecting(k) /\ At(k) = <<n.user, n.org>>
                         /\ cycle[k].touched \/ buildDigestPrompt(n, n) = Facts(At(k))
    OBVIOUS
  <2>1. n \notin notes
    <3>1. \A l \in notes : l.id \in Nat /\ l.id <= Cardinality(notes) /\ Cardinality(notes) \in Nat
      BY FS_CardinalityType DEF TypeInv, TypeOK, NotesNumbered, Notifications
    <3> QED
      BY <3>1
  <2>2. \E k \in Cycles : Deliver(k)
    <3>1. CASE Surroundings
      BY <2>1, <3>1, WorldTyped
    <3>2. CASE \E l \in notes, u \in Users : markRead(l, u)
      <4>1. n.id <= Cardinality(notes) /\ Cardinality(notes) \in Nat
        BY <3>2, NotesRead
      <4>2. n.id \in Nat
        BY <3>2, NotesRead DEF Notifications
      <4> QED
        BY <4>1, <4>2
    <3>3. CASE \/ \E k \in Cycles : StartCycle(k) \/ Advance(k)
               \/ Crash \/ UNCHANGED vars
      BY ZenonT(40), <2>1, <3>3 DEF StartCycle, Crash, vars, Advance, TakeNext, CountAssigned, CountOverdue,
           TicketFactsFail, FindReviewerRows, FindCandidates, PRFactsFail, FindReview, Skip, Finish
    <3> QED
      BY <3>1, <3>2, <3>3 DEF Next
  <2>3. PICK k \in Cycles : Deliver(k)
    BY <2>2
  <2> DEFINE m == cycle[k].at
  <2>4. /\ cycle[k] # NoCycle /\ m # NoMember /\ m \in Memberships
        /\ cycle[k].tf.step = "done" /\ cycle[k].pf.step = "done"
    BY <2>3 DEF TypeInv, TypeOK, Deliver, Complete, Collecting, At, Running
  <2>5. /\ n.user = m[1] /\ n.org = m[2]
        /\ n.assigned = cycle[k].tf.assigned /\ n.overdue = cycle[k].tf.overdue
        /\ n.awaiting = cycle[k].pf.awaiting
    BY <2>1, <2>3, NotesAdded DEF At
  <2>6. Collecting(k) /\ At(k) = <<n.user, n.org>>
    BY <2>4, <2>5 DEF Collecting, At, Memberships
  <2>7. ASSUME ~cycle[k].touched PROVE buildDigestPrompt(n, n) = Facts(At(k))
    <3>1. Following(k, m)
      BY <2>4, <2>7 DEF Following
    <3>2. /\ cycle[k].tf.assigned = Facts(m).assigned
          /\ cycle[k].tf.overdue = Facts(m).overdue
          /\ cycle[k].pf.awaiting = Facts(m).awaiting
      BY <2>4, <3>1, QueriesCount DEF TruthInv, TicketsTold, ReviewsTold
    <3>3. Facts(m) = [assigned |-> Facts(m).assigned, overdue |-> Facts(m).overdue,
                      awaiting |-> Facts(m).awaiting]
      BY DEF Facts
    <3>4. buildDigestPrompt(n, n) = [assigned |-> Facts(m).assigned, overdue |-> Facts(m).overdue,
                      awaiting |-> Facts(m).awaiting]
      BY <2>5, <3>2 DEF buildDigestPrompt
    <3> QED
      BY <3>3, <3>4 DEF At
  <2> QED
    BY <2>6, <2>7
<1>2. TypeInv /\ TruthInv /\ [Next]_vars => TruthInv'
  BY TruthNext
<1>3. Spec => []TruthInv
  BY TruthInit, <1>2, TypesHold, PTL DEF Spec
<1> QED
  BY <1>1, <1>3, TypesHold, PTL DEF Spec, DigestTellsTheTruth
=============================================================================
