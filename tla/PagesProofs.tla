---------------------------- MODULE PagesProofs ----------------------------
(***************************************************************************)
(* Proofs about Pages, for both front ends, any organizations, tickets and *)
(* pull requests, any number of requests under way and of steps of others. *)
(*                                                                         *)
(* The argument for SettledRows.  A page that nothing has disturbed (Good) *)
(* has its requests in a row: those its predecessor left, then those that  *)
(* are answered, then at most one load with one of its two parts, then the *)
(* rest (InOrder).  So it will show one thing after the other: V[a] is     *)
(* what it shows, V[n] what it shows once the answers up to n have arrived *)
(* (Chain).  What it shows at the end of this chain is what the services   *)
(* have, unless a load is to come (PendingIn): a write changes both sides  *)
(* alike, and a load starts anew.  Once no requests are left, that end is  *)
(* what it shows now.  OffersAccepted follows from SettledRows: the gates  *)
(* of a page read from its row and the token what those of the routes read *)
(* from the table.                                                         *)
(***************************************************************************)
EXTENDS Pages, FiniteSetTheorems, TLAPS

FrontDos(front) ==
    IF front = "support-hub"
    THEN {"load", "create", "request", "respond", "status", "assign", "upload", "delete"}
    ELSE {"load", "create", "status", "edit", "required", "reviewer", "review", "delete"}

DosOf(page) ==
    CASE page \in {"tickets", "prs"} -> {"load", "create"}
      [] page = "connections" -> {"load", "request", "respond"}
      [] page \in {"audit", "flags"} -> {"load"}
      [] page = "ticket" -> {"load", "status", "assign", "upload", "delete"}
      [] page = "pr" -> {"load", "status", "edit", "required", "reviewer", "review", "delete"}
      [] OTHER -> {}

StatusOf(front) == IF front = "support-hub" THEN TicketStatus ELSE PRStatus

ChosenOf(front, do) ==
    CASE do = "load" -> Filters
      [] do \in {"delete", "edit"} -> {NoOrg}
      [] do = "upload" -> {"file", "huge"}
      [] do \in {"create", "assign"} -> Orgs \cup {NoOrg}
      [] do = "request" -> Orgs
      [] do = "respond" -> {"APPROVED", "REVOKED"}
      [] do = "status" -> StatusOf(front)
      [] do = "required" -> 0..2
      [] do = "reviewer" -> Users
      [] do = "review" -> {"APPROVED", "CHANGES_REQUESTED"}

AnyChoice == UNION {ChosenOf(front, do) : front \in {"support-hub", "review-console"},
                       do \in FrontDos("support-hub") \cup FrontDos("review-console")}

Items(front) == IF front = "support-hub" THEN Tickets ELSE PRs

TicketBodies == [org : Orgs, status : TicketStatus]
PRBodies == [org : Orgs, status : PRStatus, required : 1..2, reviewers : {Unknown} \cup SUBSET Users]
Bodies(front) == IF front = "support-hub" THEN TicketBodies ELSE PRBodies

DetailPage(page) == page \in {"ticket", "pr"}

(* What an answer brings. *)
Brought(front, page, do) ==
    CASE do = "load" -> IF DetailPage(page) THEN Bodies(front) ELSE SUBSET ListRows
      [] do \in {"create", "request", "respond"} -> ListRows
      [] do = "delete" -> {Absent}
      [] OTHER -> Bodies(front)

Bys == [org : Mine, role : Roles]

Calls == [do : FrontDos("support-hub") \cup FrontDos("review-console"), choice : AnyChoice,
             id : Ids, by : Bys, answer : {NoAnswer} \cup Answers,
             extra : {NoAnswer} \cup Answers, late : BOOLEAN, orphan : BOOLEAN]

(* What a request can be on a page v of a front end. *)
Fits(c, front, v) ==
    /\ c.do \in FrontDos(front) /\ c.choice \in ChosenOf(front, c.do)
    /\ c.orphan => c.do # "load" /\ c.answer = NoAnswer
    /\ ~c.orphan => c.do \in DosOf(v.page) /\ c.id = v.id
    /\ c.do # "load" => c.extra = NoAnswer
    /\ c.answer # NoAnswer /\ c.answer.ok => c.answer.body \in Brought(front, v.page, c.do)
    /\ c.extra # NoAnswer /\ c.extra.ok => c.extra.body \in Nat

Views == [page : PagesOf("support-hub") \cup PagesOf("review-console") \cup {"none"}, id : Ids,
          filter : Filters, form : BOOLEAN, listed : SUBSET ListRows, created : SUBSET ListRows,
          row : DetailRows, extra : Nat, missing : BOOLEAN]

ViewFits(v, front) ==
    /\ v.page \in PagesOf(front) \cup {"none"}
    /\ v.row \in {Absent} \cup Bodies(front)
    /\ v.form => v.page \in {"tickets", "prs"}
    /\ v.filter # "" => v.page \in {"tickets", "audit"}

(* What was left behind was sent before the rest. *)
Queue(q, front, v) ==
    /\ q \in Seq(Calls)
    /\ \A n \in DOMAIN q : Fits(q[n], front, v)
    /\ \A m, n \in DOMAIN q : m < n /\ q[n].orphan => q[m].orphan

GhostsTyped == overtaken \in BOOLEAN /\ failed \in BOOLEAN /\ touched \in BOOLEAN

ServerTyped ==
    /\ item \in [Ids -> {Absent} \cup Items(app)]
    /\ link \in {Absent} \cup Links

TypeInv ==
    /\ app \in {"support-hub", "review-console"}
    /\ role \in [Mine -> Roles] /\ activeOrg \in Mine
    /\ ServerTyped
    /\ view \in Views /\ ViewFits(view, app)
    /\ members \in [of : Mine \cup {NoOrg}, waits : SUBSET Mine]
    /\ Queue(calls, app, view) /\ Len(calls) <= MaxCalls
    /\ GhostsTyped

-----------------------------------------------------------------------------
(* Sequences.                                                              *)

(* Removing an element. *)
LEMMA RemoveAtFacts ==
    ASSUME NEW S, NEW s \in Seq(S), NEW n \in DOMAIN s
    PROVE  /\ RemoveAt(s, n) \in Seq(S)
           /\ Len(RemoveAt(s, n)) = Len(s) - 1
           /\ DOMAIN RemoveAt(s, n) = 1..(Len(s) - 1)
           /\ \A k \in 1..(Len(s) - 1) : RemoveAt(s, n)[k] = IF k < n THEN s[k] ELSE s[k + 1]
<1> n \in 1..Len(s) /\ Len(s) \in Nat
  OBVIOUS
<1> DEFINE t == SubSeq(s, 1, n - 1)
           u == SubSeq(s, n + 1, Len(s))
<1>1. t \in Seq(S) /\ Len(t) = n - 1 /\ \A k \in 1..(n - 1) : t[k] = s[k]
  OBVIOUS
<1>2. u \in Seq(S) /\ Len(u) = Len(s) - n /\ \A k \in 1..(Len(s) - n) : u[k] = s[k + n]
  OBVIOUS
<1> HIDE DEF t, u
<1>3. (t \o u) \in Seq(S) /\ Len(t \o u) = Len(s) - 1
  BY <1>1, <1>2
<1>4. \A k \in 1..(Len(s) - 1) : (t \o u)[k] = IF k < n THEN s[k] ELSE s[k + 1]
  BY <1>1, <1>2
<1>5. DOMAIN (t \o u) = 1..(Len(s) - 1)
  BY <1>3
<1>6. RemoveAt(s, n) = t \o u
  BY DEF RemoveAt, t, u
<1> QED BY <1>3, <1>4, <1>5, <1>6

(* A sequence of the elements of a finite set. *)
LEMMA SetToSeqFacts ==
    ASSUME NEW S, IsFiniteSet(S)
    PROVE  SetToSeq(S) \in [1..Cardinality(S) -> S] /\ Cardinality(S) \in Nat
<1>1. Cardinality(S) \in Nat /\ ExistsBijection(1..Cardinality(S), S)
  BY FS_CardinalityType
<1>2. \E f \in [1..Cardinality(S) -> S] : IsInjective(f)
  BY <1>1 DEF ExistsBijection, Bijection, Injection, IsInjective
<1> QED BY <1>1, <1>2 DEF SetToSeq

-----------------------------------------------------------------------------
(* Requests under way.                                                    *)

(* A request before and after others overtook it. *)
Same(c, c1) ==
    /\ c1.do = c.do /\ c1.choice = c.choice /\ c1.id = c.id /\ c1.by = c.by
    /\ c1.answer = c.answer /\ c1.extra = c.extra /\ c1.orphan = c.orphan

(* d: the page is a detail page, whose loads have two parts. *)
Open(c, d) == c.answer = NoAnswer \/ (d /\ c.do = "load" /\ c.extra = NoAnswer)

Started(c) == c.answer # NoAnswer \/ c.extra # NoAnswer

(* Of the requests q, the first a are left behind, those up to b answered, *)
(* and of the rest none but the next has a part of its answer.             *)
InOrder(q, d, a, b) ==
    /\ a \in 0..Len(q) /\ b \in a..Len(q)
    /\ \A n \in DOMAIN q :
          /\ q[n].orphan <=> n <= a
          /\ n > a => (Open(q[n], d) <=> n > b)
          /\ n > b + 1 => ~Started(q[n])

now(rows, row) == IF rows = {} THEN {} ELSE {row}

(* What a page that shows v will show after the answer to c. *)
Applied(v, c, d) ==
    LET ok == c.answer.ok
        body == c.answer.body
    IN  [listed |-> IF ok /\ c.do = "load" /\ ~d THEN body
                    ELSE IF ok /\ c.do = "respond" THEN now(v.listed, body) ELSE v.listed,
         created |-> IF ok /\ c.do = "load" /\ ~d THEN {}
                     ELSE IF ok /\ c.do = "respond" THEN now(v.created, body)
                     ELSE IF ok /\ c.do \in {"create", "request"} THEN v.created \cup {body}
                     ELSE v.created,
         row |-> IF ok /\ (c.do \in {"status", "assign", "edit", "required"} \/ (c.do = "load" /\ d))
                 THEN body ELSE v.row,
         extra |-> IF ok /\ c.do = "load" /\ d /\ c.extra.ok THEN c.extra.body
                   ELSE IF ok /\ c.do = "upload" THEN v.extra + 1 ELSE v.extra,
         missing |-> v.missing \/ (~ok /\ c.do = "load" /\ d)]

Chain(q, d, v, a, b, V) ==
    /\ V[a] = v
    /\ \A n \in DOMAIN q : n > a /\ n <= b => V[n] = Applied(V[n - 1], q[n], d)

(* An element is removed; the others may be late then. *)
Removed(q, q1, n) ==
    /\ Len(q1) = Len(q) - 1
    /\ \A k \in DOMAIN q1 : Same(IF k < n THEN q[k] ELSE q[k + 1], q1[k])

(* An element is answered, or has a part of its answer. *)
Answered(q, q1, n) ==
    /\ Len(q1) = Len(q)
    /\ \A k \in DOMAIN q : k # n => Same(q[k], q1[k])
    /\ q1[n].do = q[n].do /\ q1[n].choice = q[n].choice /\ q1[n].id = q[n].id
    /\ q1[n].by = q[n].by /\ q1[n].orphan = q[n].orphan

(* One that was left behind goes. *)
LEMMA OrphanGoes ==
    ASSUME NEW q \in Seq(Calls), NEW q1 \in Seq(Calls), NEW d, NEW v, NEW a, NEW b, NEW V,
           InOrder(q, d, a, b), Chain(q, d, v, a, b, V),
           NEW n \in DOMAIN q, q[n].orphan, Removed(q, q1, n)
    PROVE  /\ InOrder(q1, d, a - 1, b - 1)
           /\ Chain(q1, d, v, a - 1, b - 1, [k \in Nat |-> V[k + 1]])
<1> DEFINE W == [k \in Nat |-> V[k + 1]]
<1>1. /\ Len(q) \in Nat /\ Len(q1) = Len(q) - 1 /\ DOMAIN q = 1..Len(q) /\ DOMAIN q1 = 1..(Len(q) - 1)
      /\ a \in 1..Len(q) /\ b \in a..Len(q) /\ n <= a
  BY DEF InOrder, Removed
<1>2. \A k \in Nat : W[k] = V[k + 1]
  OBVIOUS
<1> HIDE DEF W
<1>3. InOrder(q1, d, a - 1, b - 1)
  <2>1. ASSUME NEW k \in DOMAIN q1
        PROVE  /\ q1[k].orphan <=> k <= a - 1
               /\ k > a - 1 => (Open(q1[k], d) <=> k > b - 1)
               /\ k > b => ~Started(q1[k])
    <3>1. CASE k < n
      <4>1. k \in DOMAIN q /\ Same(q[k], q1[k])
        BY <1>1, <3>1 DEF Removed
      <4> QED BY <1>1, <3>1, <4>1 DEF InOrder, Same, Open, Started
    <3>2. CASE ~(k < n)
      <4>1. k + 1 \in DOMAIN q /\ Same(q[k + 1], q1[k])
        BY <1>1, <3>2 DEF Removed
      <4>2. q[k + 1].orphan <=> k + 1 <= a
        BY <4>1 DEF InOrder
      <4>3. k + 1 > a => (Open(q[k + 1], d) <=> k + 1 > b)
        BY <4>1 DEF InOrder
      <4>4. k + 1 > b + 1 => ~Started(q[k + 1])
        BY <4>1 DEF InOrder
      <4>5. /\ q1[k].orphan = q[k + 1].orphan
            /\ Open(q1[k], d) = Open(q[k + 1], d)
            /\ Started(q1[k]) = Started(q[k + 1])
        BY <4>1 DEF Same, Open, Started
      <4> QED BY <1>1, <3>2, <4>1, <4>2, <4>3, <4>4, <4>5
    <3> QED BY <3>1, <3>2
  <2> QED BY <1>1, <2>1 DEF InOrder
<1>4. Chain(q1, d, v, a - 1, b - 1, W)
  <2>1. W[a - 1] = v
    <3>1. a - 1 \in Nat /\ (a - 1) + 1 = a
      BY <1>1
    <3>2. W[a - 1] = V[(a - 1) + 1]
      BY <1>2, <3>1
    <3> QED BY <3>1, <3>2 DEF Chain
  <2>2. ASSUME NEW k \in DOMAIN q1, k > a - 1, k <= b - 1
        PROVE  W[k] = Applied(W[k - 1], q1[k], d)
    <3>1. V[k + 1] = Applied(V[k], q[k + 1], d)
      BY <1>1, <2>2 DEF Chain
    <3>2. Same(q[k + 1], q1[k])
      BY <1>1, <2>2 DEF Removed
    <3>3. W[k] = V[k + 1] /\ W[k - 1] = V[k]
      <4>1. k \in Nat /\ k - 1 \in Nat /\ (k - 1) + 1 = k
        BY <1>1, <2>2
      <4>2. W[k] = V[k + 1] /\ W[k - 1] = V[(k - 1) + 1]
        BY <1>2, <4>1
      <4> QED BY <4>1, <4>2
    <3> QED BY <3>1, <3>2, <3>3 DEF Applied, Same
  <2> QED BY <2>1, <2>2 DEF Chain
<1> QED BY <1>3, <1>4 DEF W

(* The first answer arrives. *)
LEMMA FirstArrives ==
    ASSUME NEW q \in Seq(Calls), NEW q1 \in Seq(Calls), NEW d, NEW v, NEW a, NEW b, NEW V,
           InOrder(q, d, a, b), Chain(q, d, v, a, b, V),
           a + 1 \in DOMAIN q, ~Open(q[a + 1], d), Removed(q, q1, a + 1)
    PROVE  /\ b - 1 \in a..Len(q1)
           /\ InOrder(q1, d, a, b - 1)
           /\ Chain(q1, d, Applied(v, q[a + 1], d), a, b - 1, [k \in Nat |-> V[k + 1]])
<1> DEFINE W == [k \in Nat |-> V[k + 1]]
<1>1. /\ Len(q) \in Nat /\ Len(q1) = Len(q) - 1 /\ DOMAIN q = 1..Len(q) /\ DOMAIN q1 = 1..(Len(q) - 1)
      /\ a \in 0..Len(q) /\ b \in a..Len(q) /\ b >= a + 1
  BY DEF InOrder, Removed
<1>2. \A k \in Nat : W[k] = V[k + 1]
  OBVIOUS
<1> HIDE DEF W
<1>3. InOrder(q1, d, a, b - 1)
  <2>1. ASSUME NEW k \in DOMAIN q1
        PROVE  /\ q1[k].orphan <=> k <= a
               /\ k > a => (Open(q1[k], d) <=> k > b - 1)
               /\ k > b => ~Started(q1[k])
    <3>1. CASE k < a + 1
      <4>1. k \in DOMAIN q /\ Same(q[k], q1[k])
        BY <1>1, <3>1 DEF Removed
      <4> QED BY <1>1, <3>1, <4>1 DEF InOrder, Same, Open, Started
    <3>2. CASE ~(k < a + 1)
      <4>1. k + 1 \in DOMAIN q /\ Same(q[k + 1], q1[k])
        BY <1>1, <3>2 DEF Removed
      <4>2. q[k + 1].orphan <=> k + 1 <= a
        BY <4>1 DEF InOrder
      <4>3. k + 1 > a => (Open(q[k + 1], d) <=> k + 1 > b)
        BY <4>1 DEF InOrder
      <4>4. k + 1 > b + 1 => ~Started(q[k + 1])
        BY <4>1 DEF InOrder
      <4>5. /\ q1[k].orphan = q[k + 1].orphan
            /\ Open(q1[k], d) = Open(q[k + 1], d)
            /\ Started(q1[k]) = Started(q[k + 1])
        BY <4>1 DEF Same, Open, Started
      <4> QED BY <1>1, <3>2, <4>1, <4>2, <4>3, <4>4, <4>5
    <3> QED BY <3>1, <3>2
  <2> QED BY <1>1, <2>1 DEF InOrder
<1>4. Chain(q1, d, Applied(v, q[a + 1], d), a, b - 1, W)
  <2>1. W[a] = Applied(v, q[a + 1], d)
    <3>1. a + 1 \in DOMAIN q /\ (a + 1) - 1 = a /\ a + 1 > a /\ a + 1 <= b
      BY <1>1
    <3>2. V[a + 1] = Applied(V[(a + 1) - 1], q[a + 1], d)
      BY <3>1 DEF Chain
    <3>3. W[a] = V[a + 1]
      BY <1>1, <1>2
    <3> QED BY <3>1, <3>2, <3>3 DEF Chain
  <2>2. ASSUME NEW k \in DOMAIN q1, k > a, k <= b - 1
        PROVE  W[k] = Applied(W[k - 1], q1[k], d)
    <3>1. V[k + 1] = Applied(V[k], q[k + 1], d)
      BY <1>1, <2>2 DEF Chain
    <3>2. Same(q[k + 1], q1[k])
      BY <1>1, <2>2 DEF Removed
    <3>3. W[k] = V[k + 1] /\ W[k - 1] = V[k]
      <4>1. k \in Nat /\ k - 1 \in Nat /\ (k - 1) + 1 = k
        BY <1>1, <2>2
      <4>2. W[k] = V[k + 1] /\ W[k - 1] = V[(k - 1) + 1]
        BY <1>2, <4>1
      <4> QED BY <4>1, <4>2
    <3> QED BY <3>1, <3>2, <3>3 DEF Applied, Same
  <2> QED BY <2>1, <2>2 DEF Chain
<1> QED BY <1>1, <1>3, <1>4 DEF W

(* A request is sent. *)
LEMMA OneSent ==
    ASSUME NEW q \in Seq(Calls), NEW c \in Calls, NEW d, NEW v, NEW a, NEW b, NEW V,
           InOrder(q, d, a, b), Chain(q, d, v, a, b, V),
           ~c.orphan, ~Started(c)
    PROVE  InOrder(Append(q, c), d, a, b) /\ Chain(Append(q, c), d, v, a, b, V)
<1>1. /\ Len(q) \in Nat /\ DOMAIN q = 1..Len(q) /\ a \in 0..Len(q) /\ b \in a..Len(q)
  BY DEF InOrder
<1>2. /\ Len(Append(q, c)) = Len(q) + 1
      /\ DOMAIN Append(q, c) = 1..(Len(q) + 1)
      /\ \A k \in DOMAIN q : Append(q, c)[k] = q[k]
      /\ Append(q, c)[Len(q) + 1] = c
  BY <1>1
<1>3. InOrder(Append(q, c), d, a, b)
  <2>1. ASSUME NEW k \in DOMAIN Append(q, c)
        PROVE  /\ Append(q, c)[k].orphan <=> k <= a
               /\ k > a => (Open(Append(q, c)[k], d) <=> k > b)
               /\ k > b + 1 => ~Started(Append(q, c)[k])
    <3>1. CASE k \in DOMAIN q
      BY <1>1, <1>2, <3>1 DEF InOrder
    <3>2. CASE k = Len(q) + 1
      BY <1>1, <1>2, <3>2 DEF Open, Started
    <3> QED BY <1>1, <1>2, <2>1, <3>1, <3>2
  <2> QED BY <1>1, <1>2, <2>1 DEF InOrder
<1>4. Chain(Append(q, c), d, v, a, b, V)
  BY <1>1, <1>2 DEF Chain
<1> QED BY <1>3, <1>4

(* The next request has a part of its answer. *)
LEMMA NextStarted ==
    ASSUME NEW q \in Seq(Calls), NEW q1 \in Seq(Calls), NEW d, NEW v, NEW a, NEW b, NEW V,
           InOrder(q, d, a, b), Chain(q, d, v, a, b, V),
           b + 1 \in DOMAIN q, Answered(q, q1, b + 1), Open(q1[b + 1], d)
    PROVE  InOrder(q1, d, a, b) /\ Chain(q1, d, v, a, b, V)
<1>1. /\ Len(q) \in Nat /\ DOMAIN q = 1..Len(q) /\ a \in 0..Len(q) /\ b \in a..Len(q)
      /\ Len(q1) = Len(q) /\ DOMAIN q1 = DOMAIN q
  BY DEF InOrder, Answered
<1>2. InOrder(q1, d, a, b)
  <2>1. ASSUME NEW k \in DOMAIN q1
        PROVE  /\ q1[k].orphan <=> k <= a
               /\ k > a => (Open(q1[k], d) <=> k > b)
               /\ k > b + 1 => ~Started(q1[k])
    <3>1. CASE k = b + 1
      BY <1>1, <3>1 DEF InOrder, Answered
    <3>2. CASE k # b + 1
      BY <1>1, <3>2 DEF InOrder, Answered, Same, Open, Started
    <3> QED BY <3>1, <3>2
  <2> QED BY <1>1, <2>1 DEF InOrder
<1>3. Chain(q1, d, v, a, b, V)
  <2>1. ASSUME NEW k \in DOMAIN q1, k > a, k <= b
        PROVE  V[k] = Applied(V[k - 1], q1[k], d)
    <3>1. V[k] = Applied(V[k - 1], q[k], d)
      BY <1>1, <2>1 DEF Chain
    <3>2. Same(q[k], q1[k])
      BY <1>1, <2>1 DEF Answered
    <3> QED BY <3>1, <3>2 DEF Applied, Same
  <2> QED BY <2>1 DEF Chain
<1> QED BY <1>2, <1>3

(* The next request is answered. *)
LEMMA NextAnswered ==
    ASSUME NEW q \in Seq(Calls), NEW q1 \in Seq(Calls), NEW d, NEW v, NEW a, NEW b, NEW V,
           InOrder(q, d, a, b), Chain(q, d, v, a, b, V),
           b + 1 \in DOMAIN q, Answered(q, q1, b + 1), ~Open(q1[b + 1], d)
    PROVE  /\ InOrder(q1, d, a, b + 1)
           /\ \E W : /\ Chain(q1, d, v, a, b + 1, W)
                     /\ W[b + 1] = Applied(V[b], q1[b + 1], d)
<1> DEFINE W == [k \in Nat |-> IF k = b + 1 THEN Applied(V[b], q1[b + 1], d) ELSE V[k]]
<1>1. /\ Len(q) \in Nat /\ DOMAIN q = 1..Len(q) /\ a \in 0..Len(q) /\ b \in a..Len(q)
      /\ Len(q1) = Len(q) /\ DOMAIN q1 = DOMAIN q
  BY DEF InOrder, Answered
<1>2. InOrder(q1, d, a, b + 1)
  <2>1. ASSUME NEW k \in DOMAIN q1
        PROVE  /\ q1[k].orphan <=> k <= a
               /\ k > a => (Open(q1[k], d) <=> k > b + 1)
               /\ k > b + 2 => ~Started(q1[k])
    <3>1. CASE k = b + 1
      BY <1>1, <3>1 DEF InOrder, Answered
    <3>2. CASE k # b + 1
      BY <1>1, <3>2 DEF InOrder, Answered, Same, Open, Started
    <3> QED BY <3>1, <3>2
  <2> QED BY <1>1, <2>1 DEF InOrder
<1>3. /\ W[b + 1] = Applied(V[b], q1[b + 1], d)
      /\ \A k \in 0..b : W[k] = V[k]
  BY <1>1
<1> HIDE DEF W
<1>4. Chain(q1, d, v, a, b + 1, W)
  <2>1. ASSUME NEW k \in DOMAIN q1, k > a, k <= b + 1
        PROVE  W[k] = Applied(W[k - 1], q1[k], d)
    <3>1. CASE k = b + 1
      BY <1>1, <1>3, <3>1
    <3>2. CASE k # b + 1
      <4>1. V[k] = Applied(V[k - 1], q[k], d) /\ Same(q[k], q1[k])
        BY <1>1, <2>1, <3>2 DEF Chain, Answered
      <4>2. W[k] = V[k] /\ W[k - 1] = V[k - 1]
        BY <1>1, <1>3, <2>1, <3>2
      <4> QED BY <4>1, <4>2 DEF Applied, Same
    <3> QED BY <3>1, <3>2
  <2>2. W[a] = v
    BY <1>1, <1>3 DEF Chain
  <2> QED BY <2>1, <2>2 DEF Chain
<1> QED BY <1>2, <1>3, <1>4

-----------------------------------------------------------------------------
(* The operators of the model.                                             *)

(* Calls that are overtaken are late, and nothing else. *)
LEMMA OvertakeFacts ==
    ASSUME calls \in Seq(Calls), NEW ns
    PROVE  /\ Overtake(ns) \in Seq(Calls)
           /\ Len(Overtake(ns)) = Len(calls) /\ DOMAIN Overtake(ns) = DOMAIN calls
           /\ \A k \in DOMAIN calls : /\ Same(calls[k], Overtake(ns)[k])
                                      /\ Overtake(ns)[k].late = (calls[k].late \/ k \in ns)
<1>1. Len(calls) \in Nat /\ DOMAIN calls = 1..Len(calls) /\ \A k \in DOMAIN calls : calls[k] \in Calls
  OBVIOUS
<1>2. \A k \in DOMAIN calls :
         /\ Overtake(ns)[k] \in Calls
         /\ Same(calls[k], Overtake(ns)[k])
         /\ Overtake(ns)[k].late = (calls[k].late \/ k \in ns)
  BY <1>1 DEF Overtake, Calls, Same
<1>3. DOMAIN Overtake(ns) = 1..Len(calls)
  BY <1>1 DEF Overtake
<1>4. Overtake(ns) = [k \in 1..Len(calls) |-> Overtake(ns)[k]]
  BY <1>1 DEF Overtake
<1>5. Overtake(ns) \in [1..Len(calls) -> Calls]
  BY <1>1, <1>2, <1>4
<1> QED BY <1>1, <1>2, <1>3, <1>5

(* An answer is put to its request; those sent before it that are not      *)
(* answered are late.                                                      *)
LEMMA AnswerFacts ==
    ASSUME calls \in Seq(Calls), NEW n \in DOMAIN calls, NEW field \in {"answer", "extra"},
           NEW ok, NEW body, [ok |-> ok, body |-> body] \in Answers, Answer(n, field, ok, body)
    PROVE  /\ calls' \in Seq(Calls) /\ Answered(calls, calls', n)
           /\ calls'[n].late = calls[n].late
           /\ calls'[n][field] = [ok |-> ok, body |-> body]
           /\ field = "answer" => calls'[n].extra = calls[n].extra
           /\ field = "extra" => calls'[n].answer = calls[n].answer
           /\ \A k \in DOMAIN calls : k < n /\ Unserved(calls[k]) => calls'[k].late
           /\ \A k \in DOMAIN calls : calls[k].late => calls'[k].late
<1> DEFINE ns == {m \in 1..(n - 1) : Unserved(calls[m])}
           q == Overtake(ns)
<1>1. /\ q \in Seq(Calls) /\ Len(q) = Len(calls) /\ DOMAIN q = DOMAIN calls
      /\ \A k \in DOMAIN calls : Same(calls[k], q[k]) /\ q[k].late = (calls[k].late \/ k \in ns)
  BY OvertakeFacts
<1>2. calls' = [q EXCEPT ![n][field] = [ok |-> ok, body |-> body]]
  BY DEF Answer
<1>3. DOMAIN calls = 1..Len(calls) /\ Len(calls) \in Nat /\ n \notin ns
  OBVIOUS
<1>4. \A k \in DOMAIN calls : k < n /\ Unserved(calls[k]) => k \in ns
  BY <1>3
<1> HIDE DEF q, ns
<1>5. q[n] \in Calls
  BY <1>1
<1>6. /\ DOMAIN calls' = DOMAIN calls
      /\ \A k \in DOMAIN calls : k # n => calls'[k] = q[k]
      /\ calls'[n] = [q[n] EXCEPT ![field] = [ok |-> ok, body |-> body]]
  BY <1>1, <1>2
<1>7. /\ calls'[n] \in Calls
      /\ calls'[n].do = q[n].do /\ calls'[n].choice = q[n].choice /\ calls'[n].id = q[n].id
      /\ calls'[n].by = q[n].by /\ calls'[n].orphan = q[n].orphan /\ calls'[n].late = q[n].late
      /\ calls'[n][field] = [ok |-> ok, body |-> body]
      /\ field = "answer" => calls'[n].extra = q[n].extra
      /\ field = "extra" => calls'[n].answer = q[n].answer
  <2>1. CASE field = "answer"
    BY <1>5, <1>6, <2>1 DEF Calls
  <2>2. CASE field = "extra"
    BY <1>5, <1>6, <2>2 DEF Calls
  <2> QED BY <2>1, <2>2
<1>8. calls' \in Seq(Calls) /\ Len(calls') = Len(calls)
  <2>1. \A k \in DOMAIN calls : calls'[k] \in Calls
    <3>1. \A k \in DOMAIN calls : q[k] \in Calls
      BY <1>1
    <3> QED BY <1>6, <1>7, <3>1
  <2>2. calls' = [k \in 1..Len(calls) |-> calls'[k]]
    BY <1>1, <1>2, <1>3
  <2>3. calls' \in [1..Len(calls) -> Calls]
    BY <1>3, <2>1, <2>2
  <2> QED BY <1>3, <2>3
<1>9. Answered(calls, calls', n)
  BY <1>1, <1>6, <1>7, <1>8 DEF Answered, Same
<1>10. /\ q[n].late = calls[n].late /\ q[n].extra = calls[n].extra /\ q[n].answer = calls[n].answer
       /\ \A k \in DOMAIN calls : k \in ns => q[k].late
       /\ \A k \in DOMAIN calls : calls[k].late => q[k].late
  <2>1. calls[n] \in Calls
    OBVIOUS
  <2> calls[n].late \in BOOLEAN
    BY <2>1 DEF Calls
  <2>2. /\ q[n].late = calls[n].late
        /\ \A k \in DOMAIN calls : k \in ns => q[k].late
        /\ \A k \in DOMAIN calls : calls[k].late => q[k].late
    BY <1>1, <1>3
  <2> QED BY <1>1, <2>2 DEF Same
<1>11. /\ \A k \in DOMAIN calls : k < n /\ Unserved(calls[k]) => calls'[k].late
       /\ \A k \in DOMAIN calls : calls[k].late => calls'[k].late
  BY <1>3, <1>4, <1>6, <1>7, <1>10
<1> QED BY <1>7, <1>8, <1>9, <1>10, <1>11

(* The requests that are left when the answer of one has arrived. *)
LEMMA RestFacts ==
    ASSUME calls \in Seq(Calls), NEW n \in DOMAIN calls
    PROVE  /\ Rest(n) \in Seq(Calls) /\ Removed(calls, Rest(n), n)
           /\ DOMAIN Rest(n) = 1..(Len(calls) - 1)
           /\ \A k \in DOMAIN Rest(n) :
                 Rest(n)[k].late = (k < n \/ calls[IF k < n THEN k ELSE k + 1].late)
<1> DEFINE q == Overtake(1..(n - 1))
<1>1. /\ q \in Seq(Calls) /\ Len(q) = Len(calls) /\ DOMAIN q = DOMAIN calls
      /\ \A k \in DOMAIN calls : Same(calls[k], q[k]) /\ q[k].late = (calls[k].late \/ k \in 1..(n - 1))
  BY OvertakeFacts
<1>2. DOMAIN calls = 1..Len(calls) /\ Len(calls) \in Nat
  OBVIOUS
<1> HIDE DEF q
<1>3. /\ RemoveAt(q, n) \in Seq(Calls) /\ Len(RemoveAt(q, n)) = Len(calls) - 1
      /\ DOMAIN RemoveAt(q, n) = 1..(Len(calls) - 1)
      /\ \A k \in 1..(Len(calls) - 1) : RemoveAt(q, n)[k] = IF k < n THEN q[k] ELSE q[k + 1]
  <2>1. n \in DOMAIN q
    BY <1>1
  <2> QED BY <1>1, <2>1, RemoveAtFacts
<1>4. Rest(n) = RemoveAt(q, n)
  BY DEF Rest, q
<1>5. ASSUME NEW k \in 1..(Len(calls) - 1)
      PROVE  /\ Same(IF k < n THEN calls[k] ELSE calls[k + 1], RemoveAt(q, n)[k])
             /\ RemoveAt(q, n)[k].late = (k < n \/ calls[IF k < n THEN k ELSE k + 1].late)
  <2>1. CASE k < n
    BY <1>1, <1>2, <1>3, <2>1
  <2>2. CASE ~(k < n)
    BY <1>1, <1>2, <1>3, <2>2
  <2> QED BY <2>1, <2>2
<1> QED BY <1>3, <1>4, <1>5 DEF Removed

(* One request less. *)
LEMMA RemovedFacts ==
    ASSUME calls \in Seq(Calls), NEW n \in DOMAIN calls
    PROVE  /\ RemoveAt(calls, n) \in Seq(Calls) /\ Removed(calls, RemoveAt(calls, n), n)
           /\ DOMAIN RemoveAt(calls, n) = 1..(Len(calls) - 1)
           /\ \A k \in DOMAIN RemoveAt(calls, n) :
                 RemoveAt(calls, n)[k] = calls[IF k < n THEN k ELSE k + 1]
<1>1. DOMAIN calls = 1..Len(calls) /\ Len(calls) \in Nat
  OBVIOUS
<1> QED BY <1>1, RemoveAtFacts DEF Removed, Same

(* The requests that a page leaves behind. *)
LEMMA OrphansFacts ==
    ASSUME calls \in Seq(Calls)
    PROVE  /\ Orphans \in Seq(Calls)
           /\ \A k \in DOMAIN Orphans : \E m \in DOMAIN calls :
                 /\ calls[m].do # "load" /\ calls[m].answer = NoAnswer
                 /\ Orphans[k] = [calls[m] EXCEPT !.orphan = TRUE]
<1> DEFINE S == {n \in DOMAIN calls : Write(calls[n]) /\ calls[n].answer = NoAnswer}
           left == SetToSeq(S)
<1>1. DOMAIN calls = 1..Len(calls) /\ Len(calls) \in Nat /\ S \subseteq 1..Len(calls)
  OBVIOUS
<1>2. IsFiniteSet(S)
  <2>1. IsFiniteSet(1..Len(calls))
    BY <1>1, FS_Interval
  <2> QED BY <1>1, <2>1, FS_Subset
<1> HIDE DEF S
<1>3. left \in [1..Cardinality(S) -> S] /\ Cardinality(S) \in Nat
  BY <1>2, SetToSeqFacts
<1>4. Orphans = [k \in 1..Cardinality(S) |-> [calls[left[k]] EXCEPT !.orphan = TRUE]]
  BY <1>3 DEF Orphans, S
<1> HIDE DEF left
<1>5. \A k \in 1..Cardinality(S) :
         /\ left[k] \in DOMAIN calls
         /\ calls[left[k]].do # "load" /\ calls[left[k]].answer = NoAnswer
  BY <1>3 DEF S, Write
<1>6. \A k \in 1..Cardinality(S) : [calls[left[k]] EXCEPT !.orphan = TRUE] \in Calls
  <2>1. \A k \in 1..Cardinality(S) : calls[left[k]] \in Calls
    BY <1>5
  <2> QED BY <2>1 DEF Calls
<1>7. Orphans \in [1..Cardinality(S) -> Calls]
  BY <1>4, <1>6
<1>8. Orphans \in Seq(Calls) /\ DOMAIN Orphans = 1..Cardinality(S)
  BY <1>3, <1>7
<1>9. \A k \in 1..Cardinality(S) : Orphans[k] = [calls[left[k]] EXCEPT !.orphan = TRUE]
  BY <1>4
<1>10. ASSUME NEW k \in DOMAIN Orphans
       PROVE  \E m \in DOMAIN calls :
                 /\ calls[m].do # "load" /\ calls[m].answer = NoAnswer
                 /\ Orphans[k] = [calls[m] EXCEPT !.orphan = TRUE]
  <2>1. k \in 1..Cardinality(S)
    BY <1>8
  <2>2. left[k] \in DOMAIN calls
    BY <1>5, <2>1
  <2> WITNESS left[k] \in DOMAIN calls
  <2> QED BY <1>5, <1>9, <2>1
<1> QED BY <1>8, <1>10

(* The rows of the services' answers have their types. *)
LEMMA BodyTyped ==
    ASSUME app \in {"support-hub", "review-console"}, NEW it \in Items(app),
           NEW r \in {Unknown} \cup SUBSET Users
    PROVE  /\ Body(it, r) \in Bodies(app) /\ Body(it, r) \in DetailRows
           /\ Hung(it) \in 0..MaxHung /\ Hung(it) \in Nat
<1>1. CASE app = "support-hub"
  BY <1>1, PagesAssumption DEF Body, Bodies, TicketBodies, DetailRows, Items, Tickets, Hung
<1>2. CASE app = "review-console"
  <2>1. it \in PRs /\ MaxHung \in Nat
    BY <1>2, PagesAssumption DEF Items
  <2>2. Body(it, r) = [org |-> it.org, status |-> it.status, required |-> it.required, reviewers |-> r]
    BY <1>2 DEF Body
  <2>3. Body(it, r) \in PRBodies
    BY <2>1, <2>2 DEF PRBodies, PRs
  <2>4. Bodies(app) = PRBodies /\ PRBodies \subseteq DetailRows
    BY <1>2 DEF Bodies, PRBodies, DetailRows
  <2>5. Hung(it) = it.versions /\ it.versions \in 0..MaxHung
    BY <1>2, <2>1 DEF Hung, PRs
  <2> QED BY <2>1, <2>3, <2>4, <2>5
<1> QED BY <1>1, <1>2

(* The rows of a list have their type. *)
LEMMA ListedTyped ==
    ASSUME app \in {"support-hub", "review-console"}, ServerTyped,
           NEW page \in Lists, NEW by \in Bys, NEW filter \in Filters
    PROVE  Listed(page, by, filter) \subseteq ListRows
<1>1. \A i \in Ids : item[i] # Absent => Row(i) \in ListRows
  <2> SUFFICES ASSUME NEW i \in Ids, item[i] # Absent  PROVE Row(i) \in ListRows
    OBVIOUS
  <2>1. item[i] \in Tickets \/ item[i] \in PRs
    BY DEF ServerTyped, Items
  <2>2. item[i].org \in Orgs /\ item[i].status \in TicketStatus \cup PRStatus
    BY <2>1 DEF Tickets, PRs
  <2> QED BY <2>2 DEF Row, ListRows
<1>2. listTickets(by, filter) \subseteq ListRows /\ listPRs(by) \subseteq ListRows
  BY <1>1 DEF listTickets, listPRs, Viewable
<1>3. listConnections(by) \subseteq ListRows
  BY DEF listConnections, ServerTyped, ListRows
<1>4. by.org \in Orgs
  BY PagesAssumption DEF Bys
<1>5. queryAuditLog(by, filter) \subseteq ListRows /\ listFeatureFlags(by) \subseteq ListRows
  BY <1>4 DEF queryAuditLog, listFeatureFlags, ListRows
<1>6. CASE page = "tickets"
  BY <1>2, <1>6 DEF Listed
<1>7. CASE page = "prs"
  BY <1>2, <1>7 DEF Listed
<1>8. CASE page = "connections"
  BY <1>3, <1>8 DEF Listed
<1>9. CASE page = "audit"
  BY <1>5, <1>9 DEF Listed
<1>10. CASE page = "flags"
  BY <1>5, <1>10 DEF Listed
<1> QED BY <1>6, <1>7, <1>8, <1>9, <1>10 DEF Lists

(* The requests about one item. *)
ItemDos == {"delete", "upload", "status", "assign", "edit", "required", "reviewer", "review"}

(* A request that is accepted leaves a row, or deletes it. *)
LEMMA EffectTyped ==
    ASSUME app \in {"support-hub", "review-console"}, NEW it \in Items(app), NEW r, NEW user \in Users,
           r.do \in ItemDos \cap FrontDos(app), r.choice \in ChosenOf(app, r.do),
           r.do = "required" => r.choice # 0
    PROVE  LET after == Effect(it, r, user)
           IN  /\ r.do = "delete" => after = Absent
               /\ r.do # "delete" => Hung(after) \in Nat
               /\ r.do # "delete" /\ (r.do \notin {"upload", "edit"} \/ Hung(after) <= MaxHung) =>
                     after \in Items(app)
<1> DEFINE after == Effect(it, r, user)
<1>0. MaxHung \in Nat /\ MaxHung >= 1
  BY PagesAssumption
<1>1. CASE app = "support-hub"
  <2>1. it \in Tickets /\ it.files \in Nat /\ it.files <= MaxHung /\ it.status # "DRAFT"
    BY <1>0, <1>1 DEF Items, Tickets, TicketStatus
  <2>2. r.do \in {"delete", "assign", "status", "upload"}
    BY <1>1 DEF FrontDos, ItemDos
  <2>3. CASE r.do = "delete"
    BY <2>3 DEF Effect
  <2>4. CASE r.do = "assign"
    BY <1>1, <2>1, <2>4 DEF Effect, Hung, Items
  <2>5. CASE r.do = "status"
    <3>1. after = [it EXCEPT !.status = r.choice]
      BY <2>1, <2>5 DEF Effect
    <3>2. r.choice \in TicketStatus
      BY <1>1, <2>5 DEF ChosenOf, StatusOf
    <3>3. after \in Tickets /\ after.files = it.files
      BY <2>1, <3>1, <3>2 DEF Tickets
    <3> HIDE DEF after
    <3> QED BY <1>1, <2>1, <2>5, <3>3 DEF Hung, Items, after
  <2>6. CASE r.do = "upload"
    <3>1. after = [it EXCEPT !.files = @ + 1]
      BY <2>6 DEF Effect
    <3>2. after.files = it.files + 1
      BY <2>1, <3>1 DEF Tickets
    <3>3. after.files <= MaxHung => after \in Tickets
      BY <1>0, <2>1, <3>1 DEF Tickets
    <3>4. Hung(after) = after.files /\ Items(app) = Tickets
      BY <1>1 DEF Hung, Items
    <3> HIDE DEF after
    <3> QED BY <2>1, <2>6, <3>2, <3>3, <3>4 DEF after
  <2> QED BY <2>2, <2>3, <2>4, <2>5, <2>6
<1>2. CASE app = "review-console"
  <2>1. it \in PRs /\ it.versions \in Nat /\ it.versions <= MaxHung
    BY <1>0, <1>2 DEF Items, PRs
  <2>2. r.do \in {"delete", "status", "edit", "required", "reviewer", "review"}
    BY <1>2 DEF FrontDos, ItemDos
  <2>3. Items(app) = PRs
    BY <1>2 DEF Items
  <2>4. \A x : Hung(x) = x.versions
    BY <1>2 DEF Hung
  <2>5. ASSUME NEW x \in PRs  PROVE  Recomputed(x) \in PRs /\ Recomputed(x).versions = x.versions
    BY <2>5 DEF Recomputed, PRs, PRStatus
  <2>6. CASE r.do = "delete"
    BY <2>6 DEF Effect
  <2>7. CASE r.do = "status"
    <3>1. r.choice \in PRStatus
      BY <1>2, <2>7 DEF ChosenOf, StatusOf
    <3>2. after = IF it.status = "DRAFT" THEN [it EXCEPT !.status = r.choice, !.versions = 1]
                  ELSE [it EXCEPT !.status = r.choice]
      BY <2>7 DEF Effect
    <3> HIDE DEF after
    <3>3. after \in PRs
      <4>1. [it EXCEPT !.status = r.choice] \in PRs
        BY <2>1, <3>1 DEF PRs
      <4>2. [it EXCEPT !.status = r.choice, !.versions = 1] \in PRs
        <5>1. 1 \in 0..MaxHung
          BY <1>0
        <5>2. ASSUME NEW x \in PRs  PROVE [x EXCEPT !.versions = 1] \in PRs
          BY <5>1, <5>2 DEF PRs
        <5> QED BY <4>1, <5>2
      <4> QED BY <3>2, <4>1, <4>2
    <3>4. after.versions \in Nat
      BY <1>0, <3>3 DEF PRs
    <3> QED BY <2>3, <2>4, <2>7, <3>3, <3>4 DEF after
  <2>8. CASE r.do = "edit"
    <3>1. after = IF it.status = "DRAFT" THEN it ELSE [it EXCEPT !.versions = @ + 1]
      BY <2>8 DEF Effect
    <3>2. after.versions \in Nat /\ (after.versions <= MaxHung => after \in PRs)
      BY <1>0, <2>1, <3>1 DEF PRs
    <3> HIDE DEF after
    <3> QED BY <2>3, <2>4, <2>8, <3>2 DEF after
  <2>9. CASE r.do = "required"
    <3>1. r.choice \in 1..2
      BY <2>9 DEF ChosenOf
    <3>2. after = Recomputed([it EXCEPT !.required = r.choice])
      BY <2>9 DEF Effect
    <3>3. [it EXCEPT !.required = r.choice] \in PRs
      BY <2>1, <3>1 DEF PRs
    <3>4. after \in PRs
      BY <2>5, <3>2, <3>3
    <3>5. after.versions \in Nat
      BY <1>0, <3>4 DEF PRs
    <3> HIDE DEF after
    <3> QED BY <2>3, <2>4, <2>9, <3>4, <3>5 DEF after
  <2>10. CASE r.do = "reviewer"
    <3>1. r.choice \in Users
      BY <2>10 DEF ChosenOf
    <3>2. after = [it EXCEPT !.reviewers = @ \cup {r.choice}]
      BY <2>10 DEF Effect
    <3>3. PICK rs \in SUBSET Users : after = [it EXCEPT !.reviewers = rs]
      <4>1. it.reviewers \cup {r.choice} \in SUBSET Users
        BY <2>1, <3>1 DEF PRs
      <4>2. after = [it EXCEPT !.reviewers = it.reviewers \cup {r.choice}]
        BY <3>2
      <4> QED BY <4>1, <4>2
    <3> HIDE DEF after
    <3>4. after \in PRs
      BY <2>1, <3>3 DEF PRs
    <3>5. after.versions \in Nat
      BY <1>0, <3>4 DEF PRs
    <3> QED BY <2>3, <2>4, <2>10, <3>4, <3>5 DEF after
  <2>11. CASE r.do = "review"
    <3>1. after = Reviewed(it, user, r.choice)
      BY <2>11 DEF Effect
    <3>2. [it EXCEPT !.approved = @ \cup {user}] \in PRs
      BY <2>1 DEF PRs
    <3>3. [it EXCEPT !.approved = @ \ {user}, !.status = "IN_REVIEW"] \in PRs
      BY <2>1 DEF PRs, PRStatus
    <3>4. after \in PRs
      BY <2>5, <3>1, <3>2, <3>3 DEF Reviewed
    <3>5. after.versions \in Nat
      BY <1>0, <3>4 DEF PRs
    <3> HIDE DEF after
    <3> QED BY <2>3, <2>4, <2>11, <3>4, <3>5 DEF after
  <2> QED BY <2>2, <2>6, <2>7, <2>8, <2>9, <2>10, <2>11
<1> QED BY <1>1, <1>2

(* What the open page offers is a request it can make. *)
LEMMA OffersTyped ==
    ASSUME TypeInv, NEW r \in Offers, ~Disabled(r.do)
    PROVE  /\ r.do \in DosOf(view.page) /\ r.do # "load" /\ r.choice \in ChosenOf(app, r.do)
           /\ view.page # "none"
<1> USE DEF Offer
<1>1. view.row \in {Absent} \cup Bodies(app) /\ members.of \in Mine \cup {NoOrg}
      /\ (view.form => view.page \in {"tickets", "prs"})
      /\ app \in {"support-hub", "review-console"}
      /\ view.page \in PagesOf(app) \cup {"none"}
  BY DEF TypeInv, ViewFits
<1>2. CASE r \in CreateForm
  BY <1>1, <1>2 DEF CreateForm, DosOf, ChosenOf
<1>3. CASE r \in RequestForm
  BY <1>3 DEF RequestForm, DosOf, ChosenOf
<1>4. CASE r \in RespondButtons
  BY <1>4 DEF RespondButtons, DosOf, ChosenOf
<1>5. CASE Detail /\ view.row # Absent /\ view.page = "ticket" /\ r \in TicketOffers
  <2>1. app = "support-hub"
    BY <1>1, <1>5 DEF PagesOf
  <2>2. members.of \in Orgs \cup {NoOrg}
    BY <1>1, PagesAssumption
  <2> QED BY <1>1, <1>5, <2>1, <2>2 DEF TicketOffers, DeleteTicketButton, StatusSelect,
                AssigneeSelect, UploadForm, DosOf, ChosenOf, StatusOf
<1>6. CASE Detail /\ view.row # Absent /\ view.page = "pr" /\ r \in PROffers
  <2>1. app = "review-console"
    BY <1>1, <1>6 DEF PagesOf
  <2>2. view.row.status \in PRStatus
    BY <1>1, <1>6, <2>1 DEF Bodies, PRBodies
  <2>3. NEXT_TRANSITIONS[view.row.status] \subseteq PRStatus
    BY <2>2 DEF NEXT_TRANSITIONS, PRStatus
  <2>4. r.do # "diff"
    BY DEF Disabled
  <2>5. Reviewers(members.of) \subseteq Users
    BY DEF Reviewers, Users
  <2>6. r \notin DiffButtons
    BY <2>4 DEF DiffButtons
  <2>7. CASE r \in DeletePRButton \cup EditForm \cup RequiredApprovals
    BY <1>6, <2>7 DEF DeletePRButton, EditForm, RequiredApprovals, DosOf, ChosenOf
  <2>8. CASE r \in TransitionButtons
    BY <1>6, <2>1, <2>3, <2>8 DEF TransitionButtons, DosOf, ChosenOf, StatusOf
  <2>9. CASE r \in ReviewerSelect \cup ReviewButtons
    BY <1>6, <2>5, <2>9 DEF ReviewerSelect, ReviewButtons, DosOf, ChosenOf
  <2> QED BY <1>6, <2>6, <2>7, <2>8, <2>9 DEF PROffers
<1> QED BY <1>2, <1>3, <1>4, <1>5, <1>6 DEF Offers, Detail

(* What fits a page fits it when the request is late. *)
LEMMA FitsSame ==
    ASSUME NEW c, NEW c1, NEW front, NEW v, NEW v1, Fits(c, front, v), Same(c, c1),
           v1.page = v.page, v1.id = v.id
    PROVE  Fits(c1, front, v1)
BY DEF Fits, Same

(* A request that is removed leaves a queue of requests. *)
LEMMA QueueRemoved ==
    ASSUME NEW q, NEW q1 \in Seq(Calls), NEW front, NEW v, NEW v1, Queue(q, front, v),
           NEW n \in DOMAIN q, Removed(q, q1, n), v1.page = v.page, v1.id = v.id
    PROVE  Queue(q1, front, v1) /\ Len(q1) <= Len(q)
<1>1. /\ q \in Seq(Calls) /\ Len(q) \in Nat /\ DOMAIN q = 1..Len(q)
      /\ DOMAIN q1 = 1..(Len(q) - 1) /\ Len(q1) = Len(q) - 1
  BY DEF Queue, Removed
<1> DEFINE at(k) == IF k < n THEN k ELSE k + 1
<1>2. ASSUME NEW k \in DOMAIN q1
      PROVE  at(k) \in DOMAIN q /\ Same(q[at(k)], q1[k])
  <2>1. CASE k < n
    BY <1>1, <2>1 DEF Removed
  <2>2. CASE ~(k < n)
    BY <1>1, <2>2 DEF Removed
  <2> QED BY <2>1, <2>2
<1>3. \A j, k \in DOMAIN q1 : j < k => at(j) < at(k)
  BY <1>1
<1> HIDE DEF at
<1>4. \A k \in DOMAIN q1 : Fits(q1[k], front, v1)
  BY <1>2, FitsSame DEF Queue
<1>5. \A j, k \in DOMAIN q1 : j < k /\ q1[k].orphan => q1[j].orphan
  BY <1>2, <1>3 DEF Queue, Same
<1> QED BY <1>1, <1>4, <1>5 DEF Queue

(* So does one that is sent, if the page may send it. *)
LEMMA QueueSent ==
    ASSUME NEW q, NEW c \in Calls, NEW front, NEW v, Queue(q, front, v), Fits(c, front, v), ~c.orphan
    PROVE  Queue(Append(q, c), front, v) /\ Len(Append(q, c)) = Len(q) + 1
<1>1. q \in Seq(Calls) /\ Len(q) \in Nat /\ DOMAIN q = 1..Len(q)
  BY DEF Queue
<1>2. /\ Append(q, c) \in Seq(Calls)
      /\ Len(Append(q, c)) = Len(q) + 1
      /\ DOMAIN Append(q, c) = 1..(Len(q) + 1)
      /\ \A k \in DOMAIN q : Append(q, c)[k] = q[k]
      /\ Append(q, c)[Len(q) + 1] = c
  BY <1>1
<1>3. \A k \in DOMAIN Append(q, c) : k \in DOMAIN q \/ k = Len(q) + 1
  BY <1>1, <1>2
<1>4. \A k \in DOMAIN Append(q, c) : Fits(Append(q, c)[k], front, v)
  BY <1>2, <1>3 DEF Queue
<1>5. ASSUME NEW j \in DOMAIN Append(q, c), NEW k \in DOMAIN Append(q, c), j < k, Append(q, c)[k].orphan
      PROVE  Append(q, c)[j].orphan
  <2>1. k \in DOMAIN q /\ j \in DOMAIN q
    BY <1>1, <1>2, <1>3, <1>5
  <2> QED BY <1>2, <1>5, <2>1 DEF Queue
<1> QED BY <1>2, <1>4, <1>5 DEF Queue

(* And one that is answered with what it may bring. *)
LEMMA QueueAnswered ==
    ASSUME NEW q, NEW q1 \in Seq(Calls), NEW front, NEW v, Queue(q, front, v), NEW n \in DOMAIN q,
           Answered(q, q1, n), Fits(q1[n], front, v)
    PROVE  Queue(q1, front, v) /\ Len(q1) = Len(q)
<1>1. q \in Seq(Calls) /\ DOMAIN q1 = DOMAIN q /\ Len(q1) = Len(q)
  BY DEF Queue, Answered
<1>2. \A k \in DOMAIN q : k # n => Same(q[k], q1[k])
  BY DEF Answered
<1>3. \A k \in DOMAIN q1 : Fits(q1[k], front, v)
  <2>1. ASSUME NEW k \in DOMAIN q1, k # n  PROVE Fits(q1[k], front, v)
    BY <1>1, <1>2, <2>1, FitsSame DEF Queue
  <2> QED BY <2>1
<1>4. \A k \in DOMAIN q : q1[k].orphan = q[k].orphan
  BY <1>2 DEF Answered, Same
<1> QED BY <1>1, <1>3, <1>4 DEF Queue

(* A page sends a request. *)
LEMMA RequestTyped ==
    ASSUME app \in {"support-hub", "review-console"}, view' \in Views, ViewFits(view', app),
           NEW r, NEW by \in Bys, r.do \in DosOf(view'.page), r.choice \in ChosenOf(app, r.do)
    PROVE  LET c == Request(r, by)
           IN  c \in Calls /\ Fits(c, app, view') /\ ~c.orphan /\ ~Started(c) /\ ~c.late /\ c.by = by
<1> DEFINE c == Request(r, by)
<1>1. c = [do |-> r.do, choice |-> r.choice, id |-> view'.id, by |-> by, answer |-> NoAnswer,
           extra |-> NoAnswer, late |-> FALSE, orphan |-> FALSE]
  BY DEF Request
<1>2. view'.page \in PagesOf(app) \cup {"none"} /\ view'.id \in Ids
  BY DEF Views, ViewFits
<1>3. r.do \in FrontDos(app)
  <2>1. CASE app = "support-hub"
    BY <1>2, <2>1 DEF PagesOf, DosOf, FrontDos
  <2>2. CASE app = "review-console"
    BY <1>2, <2>2 DEF PagesOf, DosOf, FrontDos
  <2> QED BY <2>1, <2>2
<1>4. r.choice \in AnyChoice
  <2>1. r.do \in FrontDos("support-hub") \cup FrontDos("review-console")
    BY <1>3
  <2> QED BY <2>1 DEF AnyChoice
<1> HIDE DEF c
<1>5. c \in Calls
  BY <1>1, <1>2, <1>3, <1>4 DEF Calls
<1>6. Fits(c, app, view') /\ ~c.orphan /\ ~Started(c) /\ ~c.late /\ c.by = by
  BY <1>1, <1>3 DEF Fits, Started
<1> QED BY <1>5, <1>6 DEF c

(* The load of a page. *)
LEMMA LoadTyped ==
    ASSUME app \in {"support-hub", "review-console"}, view' \in Views, ViewFits(view', app),
           view'.page # "none", NEW by \in Bys
    PROVE  LET c == Request(Load, by)
           IN  /\ c \in Calls /\ Fits(c, app, view') /\ ~c.orphan /\ ~Started(c) /\ ~c.late
               /\ c.by = by /\ c.do = "load" /\ c.choice = view'.filter
<1>1. Load.do = "load" /\ Load.choice = view'.filter
  BY DEF Load
<1>2. view'.filter \in Filters
  BY DEF Views
<1>3. Load.do \in DosOf(view'.page)
  BY <1>1 DEF ViewFits, PagesOf, DosOf
<1>4. Load.choice \in ChosenOf(app, Load.do)
  BY <1>1, <1>2 DEF ChosenOf
<1>5. Request(Load, by).do = "load" /\ Request(Load, by).choice = view'.filter
  BY <1>1 DEF Request
<1> QED BY <1>3, <1>4, <1>5, RequestTyped

(* The claims of the token are those of a member. *)
LEMMA ClaimsTyped == TypeInv => Claims \in Bys
BY DEF TypeInv, Claims, Bys

(* The types of one request, and of what surrounds it. *)
LEMMA CallTyped ==
    ASSUME TypeInv, NEW n \in DOMAIN calls
    PROVE  LET c == calls[n]
           IN  /\ c \in Calls /\ Fits(c, app, view)
               /\ c.by \in Bys /\ c.by.org \in Mine /\ c.by.org \in Orgs /\ c.id \in Ids
               /\ app \in {"support-hub", "review-console"} /\ ServerTyped
               /\ view \in Views /\ ViewFits(view, app) /\ touched \in BOOLEAN
               /\ calls \in Seq(Calls) /\ Len(calls) \in Nat /\ Len(calls) <= MaxCalls /\ MaxCalls \in Nat
<1>1. Queue(calls, app, view)
  BY DEF TypeInv
<1>2. calls \in Seq(Calls) /\ Fits(calls[n], app, view)
  BY <1>1 DEF Queue
<1>3. calls[n] \in Calls
  BY <1>2
<1>4. calls[n].by \in Bys /\ calls[n].id \in Ids
  BY <1>3 DEF Calls
<1>5. calls[n].by.org \in Mine /\ calls[n].by.org \in Orgs
  BY <1>4, PagesAssumption DEF Bys
<1>6. Len(calls) \in Nat /\ MaxCalls \in Nat
  BY <1>2, PagesAssumption
<1> QED BY <1>2, <1>3, <1>4, <1>5, <1>6 DEF TypeInv, GhostsTyped

(* The load comes last, if there is one. *)
LEMMA PageLoadLast ==
    ASSUME NEW s \in Seq(Calls), NEW page, NEW by, Request(Load, by) \in Calls
    PROVE  s \o PageLoad(page, by) =
              IF Closed(page, by) THEN s ELSE Append(s, Request(Load, by))
<1>1. CASE Closed(page, by)
  BY <1>1 DEF PageLoad
<1>2. CASE ~Closed(page, by)
  <2>1. PageLoad(page, by) = <<Request(Load, by)>>
    BY <1>2 DEF PageLoad
  <2>2. \A x \in Calls : s \o <<x>> = Append(s, x)
    OBVIOUS
  <2> QED BY <1>2, <2>1, <2>2
<1> QED BY <1>1, <1>2

-----------------------------------------------------------------------------
(* What an answer does to its page. *)
Shows(v) == [listed |-> v.listed, created |-> v.created, row |-> v.row, extra |-> v.extra,
             missing |-> v.missing]

(* The page loads again after this answer. *)
Reloads(c, page) ==
    c.answer.ok /\ (c.do \in {"edit", "reviewer", "review"} \/ (c.do = "status" /\ page = "pr"))

Receipt(n) ==
    /\ ~calls[n].orphan /\ ~Unserved(calls[n])
    /\ overtaken' = (overtaken \/ calls[n].late)
    /\ view' \in Views /\ ViewFits(view', app)
    /\ Shows(view') = Applied(Shows(view), calls[n], Detail)
    /\ view'.page = view.page /\ view'.id = view.id /\ view'.filter = view.filter
    /\ calls' = IF Reloads(calls[n], view.page) THEN Append(Rest(n), Request(Load, Claims))
                ELSE Rest(n)
    /\ UNCHANGED <<app, role, activeOrg, item, link, members, failed, touched, touches>>

(* The handlers that stay on their page. *)
Handlers(n) ==
    \/ loadList(n) \/ handleCreate(n) \/ handleRequest(n) \/ respond(n)
    \/ loadDetail(n) \/ updateField(n) \/ handleUpload(n)
    \/ handleTransition(n) \/ handleRequiredApprovalsChange(n) \/ handleSubmitReview(n)
    \/ (handleDelete(n) /\ ~Ok(n))

(* Every handler that stays on its page is a receipt: it takes the answer  *)
(* off the queue, shows what it brings, and loads again if its code says   *)
(* so.                                                                     *)
LEMMA HandlersReceive ==
    ASSUME TypeInv, NEW n \in DOMAIN calls, Handlers(n)
    PROVE  Receipt(n)
<1> DEFINE c == calls[n]
<1>1. /\ view \in Views /\ ViewFits(view, app) /\ app \in {"support-hub", "review-console"}
      /\ c \in Calls /\ Fits(c, app, view)
  BY DEF TypeInv, Queue
<1>2. Detail <=> DetailPage(view.page)
  BY DEF Detail, DetailPage
<1>3. ASSUME ~c.orphan, ~Unserved(c), c.answer.ok, c.do # "load" \/ ~Detail
      PROVE  c.answer.body \in Brought(app, view.page, c.do)
  BY <1>1, <1>3 DEF Fits, Unserved
<1>4. CASE loadList(n)
  <2>1. c.do = "load" /\ ~c.orphan /\ ~Unserved(c) /\ view.page \in Lists /\ ~Detail
    BY <1>4 DEF loadList, Received, Lists, Detail
  <2>2. c.answer.ok => c.answer.body \in SUBSET ListRows
    BY <1>2, <1>3, <2>1 DEF Brought
  <2>3. view' = IF c.answer.ok THEN [view EXCEPT !.listed = c.answer.body, !.created = {}] ELSE view
    BY <1>4 DEF loadList, Ok
  <2>4. view' \in Views /\ ViewFits(view', app)
    BY <1>1, <2>2, <2>3 DEF Views, ViewFits
  <2>5. Shows(view') = Applied(Shows(view), c, Detail)
    BY <1>1, <2>1, <2>3 DEF Views, Shows, Applied
  <2>6. view'.page = view.page /\ view'.id = view.id /\ view'.filter = view.filter
    BY <1>1, <2>3 DEF Views
  <2> QED BY <1>4, <2>1, <2>4, <2>5, <2>6 DEF loadList, Received, Receipt, Reloads, server
<1>5. CASE handleCreate(n)
  <2>1. c.do = "create" /\ ~c.orphan /\ ~Unserved(c)
    BY <1>5 DEF handleCreate, Received
  <2>2. c.answer.ok => c.answer.body \in ListRows
    BY <1>3, <2>1 DEF Brought
  <2>3. view' = IF c.answer.ok THEN [view EXCEPT !.created = @ \cup {c.answer.body}, !.form = FALSE] ELSE view
    BY <1>5 DEF handleCreate, Ok
  <2>4. view' \in Views /\ ViewFits(view', app)
    BY <1>1, <2>2, <2>3 DEF Views, ViewFits
  <2>5. Shows(view') = Applied(Shows(view), c, Detail)
    BY <1>1, <2>1, <2>3 DEF Views, Shows, Applied
  <2>6. view'.page = view.page /\ view'.id = view.id /\ view'.filter = view.filter
    BY <1>1, <2>3 DEF Views
  <2> QED BY <1>5, <2>1, <2>4, <2>5, <2>6 DEF handleCreate, Received, Receipt, Reloads, server
<1>6. CASE handleRequest(n)
  <2>1. c.do = "request" /\ ~c.orphan /\ ~Unserved(c)
    BY <1>6 DEF handleRequest, Received
  <2>2. c.answer.ok => c.answer.body \in ListRows
    BY <1>3, <2>1 DEF Brought
  <2>3. view' = IF c.answer.ok THEN [view EXCEPT !.created = @ \cup {c.answer.body}] ELSE view
    BY <1>6 DEF handleRequest, Ok
  <2>4. view' \in Views /\ ViewFits(view', app)
    BY <1>1, <2>2, <2>3 DEF Views, ViewFits
  <2>5. Shows(view') = Applied(Shows(view), c, Detail)
    BY <1>1, <2>1, <2>3 DEF Views, Shows, Applied
  <2>6. view'.page = view.page /\ view'.id = view.id /\ view'.filter = view.filter
    BY <1>1, <2>3 DEF Views
  <2> QED BY <1>6, <2>1, <2>4, <2>5, <2>6 DEF handleRequest, Received, Receipt, Reloads, server
<1>7. CASE respond(n)
  <2>1. c.do = "respond" /\ ~c.orphan /\ ~Unserved(c)
    BY <1>7 DEF respond, Received
  <2>2. c.answer.ok => c.answer.body \in ListRows
    BY <1>3, <2>1 DEF Brought
  <2>3. view' = IF c.answer.ok THEN [view EXCEPT !.listed = now(view.listed, c.answer.body),
                                                !.created = now(view.created, c.answer.body)]
                ELSE view
    BY <1>7 DEF respond, Ok, now
  <2>4. view' \in Views /\ ViewFits(view', app)
    BY <1>1, <2>2, <2>3 DEF Views, ViewFits, now
  <2>5. Shows(view') = Applied(Shows(view), c, Detail)
    BY <1>1, <2>1, <2>3 DEF Views, Shows, Applied
  <2>6. view'.page = view.page /\ view'.id = view.id /\ view'.filter = view.filter
    BY <1>1, <2>3 DEF Views
  <2> QED BY <1>7, <2>1, <2>4, <2>5, <2>6 DEF respond, Received, Receipt, Reloads, server
<1>8. CASE loadDetail(n)
  <2>1. c.do = "load" /\ ~c.orphan /\ ~Unserved(c) /\ Detail
    BY <1>8 DEF loadDetail, Received
  <2>2. /\ c.answer.ok => c.answer.body \in Bodies(app)
        /\ c.extra.ok => c.extra.body \in Nat
        /\ c.answer # NoAnswer /\ c.extra # NoAnswer
    BY <1>1, <1>2, <2>1 DEF Brought, Fits, Unserved
  <2>3. view' = IF ~c.answer.ok THEN [view EXCEPT !.missing = TRUE]
                ELSE [view EXCEPT !.row = c.answer.body,
                                  !.extra = IF c.extra.ok THEN c.extra.body ELSE view.extra]
    BY <1>1, <1>8 DEF loadDetail, Ok, Views
  <2>4. Bodies(app) \subseteq DetailRows
    BY DEF Bodies, TicketBodies, PRBodies, DetailRows
  <2>5. view' \in Views /\ ViewFits(view', app)
    <3>1. CASE c.answer.ok
      <4>1. PICK row \in Bodies(app), extra \in Nat :
               view' = [view EXCEPT !.row = row, !.extra = extra]
        BY <1>1, <2>2, <2>3, <3>1 DEF Views
      <4> QED BY <1>1, <2>4, <4>1 DEF Views, ViewFits
    <3>2. CASE ~c.answer.ok
      BY <1>1, <2>3, <3>2 DEF Views, ViewFits
    <3> QED BY <3>1, <3>2
  <2>6. Shows(view') = Applied(Shows(view), c, Detail)
    BY <1>1, <2>1, <2>3 DEF Views, Shows, Applied
  <2>7. view'.page = view.page /\ view'.id = view.id /\ view'.filter = view.filter
    BY <1>1, <2>3 DEF Views
  <2> QED BY <1>8, <2>1, <2>5, <2>6, <2>7 DEF loadDetail, Received, Receipt, Reloads, server
<1>9. CASE handleUpload(n)
  <2>1. c.do = "upload" /\ ~c.orphan /\ ~Unserved(c)
    BY <1>9 DEF handleUpload, Received
  <2>2. view' = IF c.answer.ok THEN [view EXCEPT !.extra = view.extra + 1] ELSE view
    BY <1>9 DEF handleUpload, Ok
  <2>3. view' \in Views /\ ViewFits(view', app)
    <3>1. PICK extra \in Nat : view' = [view EXCEPT !.extra = extra]
      <4>1. view.extra \in Nat /\ view.extra + 1 \in Nat
        BY <1>1 DEF Views
      <4>2. view' = [view EXCEPT !.extra = view.extra + 1] \/ view' = [view EXCEPT !.extra = view.extra]
        BY <1>1, <2>2 DEF Views
      <4> QED BY <4>1, <4>2
    <3> QED BY <1>1, <3>1 DEF Views, ViewFits
  <2>4. Shows(view') = Applied(Shows(view), c, Detail)
    BY <1>1, <2>1, <2>2 DEF Views, Shows, Applied
  <2>5. view'.page = view.page /\ view'.id = view.id /\ view'.filter = view.filter
    BY <1>1, <2>2 DEF Views
  <2> QED BY <1>9, <2>1, <2>3, <2>4, <2>5 DEF handleUpload, Received, Receipt, Reloads, server
<1>10. CASE updateField(n) \/ handleTransition(n) \/ handleRequiredApprovalsChange(n)
  <2>1. /\ c.do \in {"status", "assign", "edit", "required"} /\ ~c.orphan /\ ~Unserved(c)
        /\ view' = IF c.answer.ok THEN [view EXCEPT !.row = c.answer.body] ELSE view
        /\ overtaken' = (overtaken \/ c.late)
        /\ UNCHANGED <<app, role, activeOrg, item, link, members, failed, touched, touches>>
    BY <1>10 DEF updateField, handleTransition, handleRequiredApprovalsChange, Received, Ok, server
  <2>2. /\ c.answer.ok => c.answer.body \in Bodies(app)
        /\ Bodies(app) \subseteq DetailRows
    BY <1>3, <2>1 DEF Brought, Bodies, TicketBodies, PRBodies, DetailRows
  <2>3. view' \in Views /\ ViewFits(view', app)
    BY <1>1, <2>1, <2>2 DEF Views, ViewFits
  <2>4. Shows(view') = Applied(Shows(view), c, Detail)
    BY <1>1, <2>1 DEF Views, Shows, Applied
  <2>5. view'.page = view.page /\ view'.id = view.id /\ view'.filter = view.filter
    BY <1>1, <2>1 DEF Views
  <2>6. calls' = IF Reloads(c, view.page) THEN Append(Rest(n), Request(Load, Claims)) ELSE Rest(n)
    BY <1>10 DEF updateField, handleTransition, handleRequiredApprovalsChange, Received, Ok,
                 ThenLoad, Reloads
  <2> QED BY <2>1, <2>3, <2>4, <2>5, <2>6 DEF Receipt
<1>11. CASE handleSubmitReview(n) \/ (handleDelete(n) /\ ~Ok(n))
  <2>1. /\ c.do \in {"reviewer", "review", "delete"} /\ ~c.orphan /\ ~Unserved(c)
        /\ c.do = "delete" => ~c.answer.ok
        /\ view' = view
        /\ overtaken' = (overtaken \/ c.late)
        /\ UNCHANGED <<app, role, activeOrg, item, link, members, failed, touched, touches>>
    BY <1>11 DEF handleSubmitReview, handleDelete, Received, Ok, server
  <2>2. view' \in Views /\ ViewFits(view', app)
    BY <1>1, <2>1 DEF ViewFits
  <2>3. Shows(view') = Applied(Shows(view), c, Detail)
    BY <1>1, <2>1 DEF Views, Shows, Applied
  <2>4. calls' = IF Reloads(c, view.page) THEN Append(Rest(n), Request(Load, Claims)) ELSE Rest(n)
    BY <1>11, <2>1 DEF handleSubmitReview, handleDelete, Received, Ok, ThenLoad, Reloads
  <2> QED BY <2>1, <2>2, <2>3, <2>4 DEF Receipt
<1> QED BY <1>4, <1>5, <1>6, <1>7, <1>8, <1>9, <1>10, <1>11 DEF Handlers

-----------------------------------------------------------------------------
(* Types.                                                                  *)

(* A new row has its type, and nothing hangs on it. *)
LEMMA NewTyped ==
    ASSUME app \in {"support-hub", "review-console"}, NEW o \in Orgs
    PROVE  New(o) \in Items(app)
<1>0. 0 \in 0..MaxHung
  BY PagesAssumption
<1>1. CASE app = "support-hub"
  BY <1>0, <1>1 DEF New, NewTicket, Items, Tickets, TicketStatus
<1>2. CASE app = "review-console"
  <2>1. New(o) = NewPR(o) /\ Items(app) = PRs
    BY <1>2 DEF New, Items
  <2>2. {} \in SUBSET Users /\ {} \in SUBSET Orgs /\ "DRAFT" \in PRStatus /\ 1 \in 1..2
    BY DEF PRStatus
  <2>3. NewPR(o) \in PRs
    BY <1>0, <2>2 DEF NewPR, PRs
  <2> QED BY <2>1, <2>3
<1> QED BY <1>1, <1>2

(* At first every variable has its type. *)
LEMMA TypeInit == Init => TypeInv
<1> SUFFICES ASSUME Init  PROVE TypeInv
  OBVIOUS
<1>1. /\ app \in {"support-hub", "review-console"} /\ role \in [Mine -> Roles] /\ activeOrg \in Mine
      /\ link \in {Absent} \cup Links /\ calls = <<>> /\ Len(calls) <= MaxCalls /\ GhostsTyped
  <2>1. Len(<<>>) <= MaxCalls
    BY PagesAssumption
  <2> QED BY <2>1 DEF Init, GhostsTyped
<1>2. \A o \in Orgs : New(o) \in Items(app)
  BY <1>1, NewTyped
<1>3. item \in [Ids -> {Absent} \cup Items(app)]
  BY <1>2 DEF Init
<1>4. (CHOOSE i \in Ids : TRUE) \in Ids
  BY PagesAssumption
<1>5. view \in Views /\ ViewFits(view, app)
  BY <1>4 DEF Init, Blank, Views, ViewFits, Filters, DetailRows
<1>6. members \in [of : Mine \cup {NoOrg}, waits : SUBSET Mine]
  BY DEF Init, NoMembers
<1>7. Queue(calls, app, view)
  BY <1>1 DEF Queue
<1> QED BY <1>1, <1>3, <1>5, <1>6, <1>7 DEF TypeInv, ServerTyped

(* The effect of useOrgMembers. *)
LEMMA MembersTyped ==
    ASSUME NEW before \in [of : Mine \cup {NoOrg}, waits : SUBSET Mine], NEW by \in Bys,
           useOrgMembers(before, by)
    PROVE  members' \in [of : Mine \cup {NoOrg}, waits : SUBSET Mine]
BY DEF useOrgMembers, NoMembers, Bys

(* The requests of a page that is opened. *)
LEMMA VisitQueue ==
    ASSUME TypeInv, NEW page \in PagesOf(app), NEW id \in Ids, Visit(page, id)
    PROVE  /\ view' \in Views /\ ViewFits(view', app) /\ view' = Blank(page, id)
           /\ Queue(calls', app, view')
           /\ Queue(Orphans, app, view') /\ \A k \in DOMAIN Orphans : Orphans[k].orphan
           /\ LET c == Request(Load, Claims)
              IN  /\ c \in Calls /\ ~c.orphan /\ ~Started(c) /\ ~c.late /\ c.do = "load"
                  /\ c.by = Claims /\ c.choice = view'.filter
                  /\ calls' = IF Closed(page, Claims) THEN Orphans ELSE Append(Orphans, c)
<1> DEFINE c == Request(Load, Claims)
<1>1. app \in {"support-hub", "review-console"} /\ Claims \in Bys /\ Queue(calls, app, view)
  BY ClaimsTyped DEF TypeInv
<1>2. view' = Blank(page, id)
  BY DEF Visit
<1>3. view' \in Views /\ ViewFits(view', app) /\ view'.page = page /\ page # "none"
  BY <1>1, <1>2 DEF Blank, Views, ViewFits, PagesOf, Filters, DetailRows
<1>4. c \in Calls /\ Fits(c, app, view') /\ ~c.orphan /\ ~Started(c) /\ ~c.late /\ c.by = Claims
      /\ c.do = "load" /\ c.choice = view'.filter
  BY <1>1, <1>3, LoadTyped
<1> HIDE DEF c
<1>5. /\ Orphans \in Seq(Calls)
      /\ \A k \in DOMAIN Orphans : \E m \in DOMAIN calls :
            /\ calls[m].do # "load" /\ calls[m].answer = NoAnswer
            /\ Orphans[k] = [calls[m] EXCEPT !.orphan = TRUE]
  BY <1>1, OrphansFacts DEF Queue
<1>6. ASSUME NEW k \in DOMAIN Orphans
      PROVE  Orphans[k].orphan /\ Fits(Orphans[k], app, view')
  <2>1. PICK m \in DOMAIN calls : /\ calls[m].do # "load" /\ calls[m].answer = NoAnswer
                                  /\ Orphans[k] = [calls[m] EXCEPT !.orphan = TRUE]
    BY <1>5
  <2>2. calls[m] \in Calls /\ Fits(calls[m], app, view)
    BY <1>1 DEF Queue
  <2> DEFINE o == Orphans[k]
  <2>3. /\ o.orphan /\ o.do = calls[m].do /\ o.choice = calls[m].choice
        /\ o.answer = NoAnswer /\ o.extra = calls[m].extra
    BY <2>1, <2>2 DEF Calls
  <2> HIDE DEF o
  <2>4. o.orphan /\ Fits(o, app, view')
    BY <2>1, <2>2, <2>3 DEF Fits
  <2> QED BY <2>4 DEF o
<1>7. Queue(Orphans, app, view') /\ \A k \in DOMAIN Orphans : Orphans[k].orphan
  BY <1>5, <1>6 DEF Queue
<1>8. calls' = IF Closed(page, Claims) THEN Orphans ELSE Append(Orphans, c)
  <2>1. calls' = Orphans \o PageLoad(page, Claims)
    BY DEF Visit
  <2> QED BY <1>4, <1>5, <2>1, PageLoadLast DEF c
<1>9. Queue(calls', app, view')
  BY <1>4, <1>7, <1>8, QueueSent
<1> QED BY <1>2, <1>3, <1>4, <1>7, <1>8, <1>9 DEF c

(* Opening a page keeps the types. *)
LEMMA VisitType ==
    ASSUME TypeInv, NEW page \in PagesOf(app), NEW id \in Ids, Visit(page, id)
    PROVE  TypeInv'
<1>1. view' \in Views /\ ViewFits(view', app) /\ Queue(calls', app, view')
  BY VisitQueue
<1>2. members' \in [of : Mine \cup {NoOrg}, waits : SUBSET Mine]
  <2>1. NoMembers \in [of : Mine \cup {NoOrg}, waits : SUBSET Mine]
    BY DEF NoMembers
  <2> QED BY <2>1, ClaimsTyped, MembersTyped DEF Visit
<1>3. /\ Len(calls') <= MaxCalls /\ overtaken' = FALSE /\ failed' = FALSE /\ touched' = FALSE
      /\ UNCHANGED <<app, role, activeOrg, item, link>>
  BY DEF Visit, server
<1> QED BY <1>1, <1>2, <1>3 DEF TypeInv, ServerTyped, GhostsTyped

(* The requests after the organization is switched. *)
LEMMA SwitchQueue ==
    ASSUME TypeInv, NEW org \in Mine, switchOrg(org)
    PROVE  LET by == [org |-> org, role |-> role[org]]
               c == Request(Load, by)
           IN  /\ by \in Bys /\ by = Claims'
               /\ view' \in Views /\ ViewFits(view', app)
               /\ calls' = IF view.page \in Lists /\ ~Closed(view.page, by)
                           THEN Append(calls, c) ELSE calls
               /\ view.page \in Lists => /\ c \in Calls /\ ~c.orphan /\ ~Started(c) /\ ~c.late
                                         /\ c.do = "load" /\ c.by = by /\ c.choice = view.filter
               /\ Queue(calls', app, view)
<1> DEFINE by == [org |-> org, role |-> role[org]]
           c == Request(Load, by)
<1>1. app \in {"support-hub", "review-console"} /\ Queue(calls, app, view) /\ calls \in Seq(Calls)
      /\ view \in Views /\ ViewFits(view, app)
  BY DEF TypeInv, Queue
<1>2. by \in Bys /\ by = Claims' /\ view' = view
  BY DEF TypeInv, Bys, Claims, switchOrg
<1>3. view' \in Views /\ ViewFits(view', app)
  BY <1>1, <1>2
<1>4. view.page \in Lists =>
         /\ c \in Calls /\ Fits(c, app, view) /\ ~c.orphan /\ ~Started(c) /\ ~c.late
         /\ c.do = "load" /\ c.by = by /\ c.choice = view.filter
  <2> SUFFICES ASSUME view.page \in Lists
               PROVE  /\ c \in Calls /\ Fits(c, app, view') /\ ~c.orphan /\ ~Started(c) /\ ~c.late
                      /\ c.do = "load" /\ c.by = by /\ c.choice = view'.filter
    BY <1>2
  <2>1. view'.page # "none"
    BY <1>2 DEF Lists
  <2> QED BY <1>1, <1>2, <1>3, <2>1, LoadTyped
<1>5. calls' = IF view.page \in Lists THEN calls \o PageLoad(view.page, by) ELSE calls
  BY DEF switchOrg
<1> HIDE DEF by
<1>6. view.page \in Lists =>
         calls \o PageLoad(view.page, by) = IF Closed(view.page, by) THEN calls ELSE Append(calls, c)
  BY <1>1, <1>4, PageLoadLast
<1> HIDE DEF c
<1>7. calls' = IF view.page \in Lists /\ ~Closed(view.page, by) THEN Append(calls, c) ELSE calls
  BY <1>5, <1>6
<1>8. Queue(calls', app, view)
  BY <1>1, <1>4, <1>7, QueueSent
<1> QED BY <1>2, <1>3, <1>4, <1>7, <1>8 DEF by, c

(* Switching the organization keeps the types. *)
LEMMA SwitchType == ASSUME TypeInv, NEW org \in Mine, switchOrg(org)  PROVE TypeInv'
<1>1. /\ Queue(calls', app, view) /\ Len(calls') <= MaxCalls
      /\ [org |-> org, role |-> role[org]] \in Bys
      /\ view' = view /\ activeOrg' = org
      /\ UNCHANGED <<app, role, item, link, overtaken, failed, touched>>
  BY SwitchQueue DEF switchOrg, server, ghosts
<1>2. members' \in [of : Mine \cup {NoOrg}, waits : SUBSET Mine]
  BY <1>1, MembersTyped DEF TypeInv, switchOrg
<1> QED BY <1>1, <1>2 DEF TypeInv, ServerTyped, GhostsTyped

(* The requests after a filter is set. *)
LEMMA FilterQueue ==
    ASSUME TypeInv, NEW filter \in Filters, setFilter(filter)
    PROVE  LET c == Request(Load, Claims)
           IN  /\ view' \in Views /\ ViewFits(view', app)
               /\ view'.page = view.page /\ view'.id = view.id /\ view'.filter = filter
               /\ Shows(view') = Shows(view)
               /\ calls' = IF Closed(view.page, Claims) THEN calls ELSE Append(calls, c)
               /\ c \in Calls /\ ~c.orphan /\ ~Started(c) /\ ~c.late
               /\ c.do = "load" /\ c.by = Claims /\ c.choice = filter
               /\ Queue(calls', app, view')
<1> DEFINE c == Request(Load, Claims)
<1>1. app \in {"support-hub", "review-console"} /\ Queue(calls, app, view) /\ calls \in Seq(Calls)
      /\ view \in Views /\ ViewFits(view, app) /\ Claims \in Bys
  BY ClaimsTyped DEF TypeInv, Queue
<1>2. view.page \in {"tickets", "audit"} /\ view' = [view EXCEPT !.filter = filter]
  BY DEF setFilter
<1>3. view' \in Views /\ ViewFits(view', app) /\ view'.page # "none"
      /\ view'.page = view.page /\ view'.id = view.id /\ view'.filter = filter
  BY <1>1, <1>2 DEF Views, ViewFits
<1>4. Shows(view') = Shows(view)
  BY <1>1, <1>2 DEF Views, Shows
<1>5. /\ c \in Calls /\ Fits(c, app, view') /\ ~c.orphan /\ ~Started(c) /\ ~c.late
      /\ c.do = "load" /\ c.by = Claims /\ c.choice = filter
  BY <1>1, <1>3, LoadTyped
<1>6. calls' = IF Closed(view.page, Claims) THEN calls ELSE Append(calls, c)
  BY <1>1, <1>5, PageLoadLast DEF setFilter
<1> HIDE DEF c
<1>7. Queue(calls, app, view')
  BY <1>1, <1>3, FitsSame DEF Queue, Fits
<1>8. Queue(calls', app, view')
  BY <1>5, <1>6, <1>7, QueueSent
<1> QED BY <1>3, <1>4, <1>5, <1>6, <1>8 DEF c

(* Setting a filter keeps the types. *)
LEMMA FilterType == ASSUME TypeInv, NEW filter \in Filters, setFilter(filter)  PROVE TypeInv'
<1>1. /\ Queue(calls', app, view') /\ view' \in Views /\ ViewFits(view', app)
      /\ Len(calls') <= MaxCalls
      /\ UNCHANGED <<app, role, activeOrg, item, link, members, overtaken, failed, touched>>
  BY FilterQueue DEF setFilter, server, ghosts
<1> QED BY <1>1 DEF TypeInv, ServerTyped, GhostsTyped

(* The form of a list comes or goes, and nothing else changes. *)
LEMMA ToggleFacts ==
    ASSUME TypeInv, toggleForm
    PROVE  /\ view' \in Views /\ ViewFits(view', app) /\ Shows(view') = Shows(view)
           /\ view'.page = view.page /\ view'.id = view.id /\ view'.filter = view.filter
           /\ UNCHANGED <<app, role, activeOrg, item, link, members, calls, overtaken, failed, touched>>
<1>1. view \in Views /\ ViewFits(view, app) /\ view' = [view EXCEPT !.form = ~view.form]
      /\ view.page \in {"tickets", "prs"} /\ view.form \in BOOLEAN
  BY DEF TypeInv, toggleForm, NewTicketGate, NewPRGate, Views
<1>2. view' \in Views /\ ViewFits(view', app)
      /\ view'.page = view.page /\ view'.id = view.id /\ view'.filter = view.filter
  BY <1>1 DEF Views, ViewFits
<1>3. Shows(view') = Shows(view)
  BY <1>1 DEF Views, Shows
<1> QED BY <1>2, <1>3 DEF toggleForm, server, ghosts

(* It keeps the types. *)
LEMMA ToggleType == ASSUME TypeInv, toggleForm  PROVE TypeInv'
<1>1. Queue(calls, app, view')
  BY ToggleFacts DEF TypeInv, Queue, Fits
<1> QED BY <1>1, ToggleFacts DEF TypeInv, ServerTyped, GhostsTyped

(* What the page offers is sent. *)
LEMMA SubmitQueue ==
    ASSUME TypeInv, NEW r \in Offers, Submit(r)
    PROVE  LET c == Request(r, Claims)
           IN  /\ calls' = Append(calls, c) /\ view' = view
               /\ c \in Calls /\ ~c.orphan /\ ~Started(c) /\ ~c.late
               /\ c.do # "load" /\ c.by = Claims
               /\ Queue(calls', app, view)
               /\ view.page # "none"
<1> DEFINE c == Request(r, Claims)
<1>1. app \in {"support-hub", "review-console"} /\ Queue(calls, app, view)
      /\ view \in Views /\ ViewFits(view, app) /\ Claims \in Bys /\ view' = view
  BY ClaimsTyped DEF TypeInv, Submit
<1>2. r.do \in DosOf(view.page) /\ r.do # "load" /\ r.choice \in ChosenOf(app, r.do) /\ view.page # "none"
  BY OffersTyped DEF Submit
<1>3. view' \in Views /\ ViewFits(view', app) /\ r.do \in DosOf(view'.page)
  BY <1>1, <1>2
<1>4. c \in Calls /\ Fits(c, app, view') /\ ~c.orphan /\ ~Started(c) /\ ~c.late /\ c.by = Claims
  BY <1>1, <1>2, <1>3, RequestTyped
<1>5. c.do = r.do
  BY DEF Request
<1>6. calls' = Append(calls, c)
  BY DEF Submit
<1> HIDE DEF c
<1>7. Queue(calls', app, view)
  BY <1>1, <1>4, <1>6, QueueSent
<1> QED BY <1>1, <1>2, <1>4, <1>5, <1>6, <1>7 DEF c

(* Sending what the page offers keeps the types. *)
LEMMA SubmitType == ASSUME TypeInv, NEW r \in Offers, Submit(r)  PROVE TypeInv'
<1>1. /\ Queue(calls', app, view) /\ view' = view /\ Len(calls') <= MaxCalls
      /\ UNCHANGED <<app, role, activeOrg, item, link, members, overtaken, failed, touched>>
  BY SubmitQueue DEF Submit, server, ghosts
<1> QED BY <1>1 DEF TypeInv, ServerTyped, GhostsTyped

(* An answer that has its type keeps the types. *)
LEMMA AnswerType ==
    ASSUME TypeInv, NEW n \in DOMAIN calls, NEW field \in {"answer", "extra"}, NEW ok \in BOOLEAN, NEW body,
           body \in Nat \cup ListRows \cup (SUBSET ListRows) \cup DetailRows,
           Answer(n, field, ok, body), ~calls[n].orphan,
           field = "answer" /\ ok => body \in Brought(app, view.page, calls[n].do),
           field = "extra" => calls[n].do = "load" /\ (ok => body \in Nat)
    PROVE  Queue(calls', app, view) /\ Len(calls') = Len(calls)
<1>1. Queue(calls, app, view) /\ calls \in Seq(Calls) /\ Fits(calls[n], app, view)
  BY DEF TypeInv, Queue
<1>2. [ok |-> ok, body |-> body] \in Answers
  BY DEF Answers
<1>3. /\ calls' \in Seq(Calls) /\ Answered(calls, calls', n)
      /\ calls'[n][field] = [ok |-> ok, body |-> body]
      /\ field = "answer" => calls'[n].extra = calls[n].extra
      /\ field = "extra" => calls'[n].answer = calls[n].answer
  BY <1>1, <1>2, AnswerFacts
<1>4. Fits(calls'[n], app, view)
  <2>1. CASE field = "answer"
    BY <1>1, <1>3, <2>1 DEF Fits, Answered
  <2>2. CASE field = "extra"
    BY <1>1, <1>3, <2>2 DEF Fits, Answered
  <2> QED BY <2>1, <2>2
<1> QED BY <1>1, <1>3, <1>4, QueueAnswered

(* So does the answer to a write, whoever it is for. *)
LEMMA WrittenType ==
    ASSUME TypeInv, NEW n \in DOMAIN calls, NEW ok \in BOOLEAN, NEW body, Written(n, ok, body),
           body \in ListRows \cup DetailRows,
           ok => body \in Brought(app, view.page, calls[n].do)
    PROVE  /\ Queue(calls', app, view) /\ Len(calls') <= Len(calls)
           /\ touched' \in BOOLEAN
<1>1. Queue(calls, app, view) /\ calls \in Seq(Calls) /\ Len(calls) \in Nat /\ touched \in BOOLEAN
  BY DEF TypeInv, Queue, GhostsTyped
<1>2. CASE calls[n].orphan
  <2>1. calls' = RemoveAt(calls, n) /\ touched' = (touched \/ ok)
    BY <1>2 DEF Written
  <2>2. calls' \in Seq(Calls) /\ Removed(calls, calls', n)
    BY <1>1, <2>1, RemovedFacts
  <2> QED BY <1>1, <2>1, <2>2, QueueRemoved
<1>3. CASE ~calls[n].orphan
  <2>1. Answer(n, "answer", ok, body) /\ touched' = touched
    BY <1>3 DEF Written
  <2>2. body \in Nat \cup ListRows \cup (SUBSET ListRows) \cup DetailRows
    OBVIOUS
  <2>3. "answer" \in {"answer", "extra"}
    OBVIOUS
  <2>4. Queue(calls', app, view) /\ Len(calls') = Len(calls)
    BY <1>3, <2>1, <2>2, AnswerType
  <2> QED BY <1>1, <2>1, <2>4
<1> QED BY <1>2, <1>3

(* The services answer a load. *)
LEMMA LoadsType ==
    ASSUME TypeInv, NEW n \in DOMAIN calls, ServeList(n) \/ ServeGet(n) \/ ServeExtra(n)
    PROVE  TypeInv'
<1> DEFINE c == calls[n]
<1>1. /\ app \in {"support-hub", "review-console"} /\ ServerTyped /\ view.page \in PagesOf(app) \cup {"none"}
      /\ c \in Calls /\ Fits(c, app, view) /\ touched \in BOOLEAN /\ Len(calls) <= MaxCalls
  BY CallTyped DEF ViewFits
<1>2. /\ c.do = "load" /\ ~c.orphan /\ view.page # "none"
      /\ c.by \in Bys /\ c.choice \in Filters /\ c.id \in Ids
      /\ UNCHANGED <<app, role, activeOrg, item, link, view, members, overtaken, failed>>
      /\ touched' \in BOOLEAN
  <2>1. c.do = "load" /\ UNCHANGED <<app, role, activeOrg, item, link, view, members, overtaken, failed>>
        /\ touched' \in BOOLEAN
    BY <1>1 DEF ServeList, ServeGet, ServeExtra, Served, server
  <2> QED BY <1>1, <2>1 DEF Fits, Calls, DosOf, ChosenOf
<1>3. Detail <=> DetailPage(view.page)
  BY DEF Detail, DetailPage
<1>4. Queue(calls', app, view) /\ Len(calls') = Len(calls)
  <2>1. CASE ServeList(n)
    <3>1. ~Detail /\ Answer(n, "answer", TRUE, Listed(view.page, c.by, c.choice))
      BY <2>1 DEF ServeList
    <3>2. view.page \in Lists
      BY <1>1, <1>2, <3>1 DEF PagesOf, Lists, Detail
    <3>3. Listed(view.page, c.by, c.choice) \in SUBSET ListRows
      BY <1>1, <1>2, <3>2, ListedTyped
    <3>4. Listed(view.page, c.by, c.choice) \in Brought(app, view.page, c.do)
      BY <1>2, <1>3, <3>1, <3>3 DEF Brought
    <3> QED BY <1>2, <3>1, <3>3, <3>4, AnswerType
  <2>2. CASE ServeGet(n)
    <3> DEFINE ok == Viewable(c.by, c.id)
               rs == IF app = "support-hub" THEN Unknown ELSE item[c.id].reviewers
               body == IF ok THEN Body(item[c.id], rs) ELSE Absent
    <3>1. Detail /\ Answer(n, "answer", ok, body)
      BY <2>2 DEF ServeGet
    <3>2. ok \in BOOLEAN
      BY DEF Viewable
    <3>3. ok => item[c.id] \in Items(app)
      BY <1>1, <1>2 DEF Viewable, ServerTyped
    <3>4. ok => rs \in {Unknown} \cup SUBSET Users
      BY <1>1, <3>3 DEF Items, PRs
    <3>5. ok => body \in Bodies(app) /\ body \in DetailRows
      BY <1>1, <3>3, <3>4, BodyTyped
    <3>6. body \in DetailRows
      BY <3>5 DEF DetailRows
    <3>7. ok => body \in Brought(app, view.page, c.do)
      BY <1>2, <1>3, <3>1, <3>5 DEF Brought
    <3> HIDE DEF ok, body
    <3> QED BY <1>2, <3>1, <3>2, <3>6, <3>7, AnswerType
  <2>3. CASE ServeExtra(n)
    <3> DEFINE ok == Viewable(c.by, c.id)
               body == IF ok THEN Hung(item[c.id]) ELSE 0
    <3>1. Detail /\ Answer(n, "extra", ok, body)
      BY <2>3 DEF ServeExtra
    <3>2. ok \in BOOLEAN
      BY DEF Viewable
    <3>3. ok => item[c.id] \in Items(app)
      BY <1>1, <1>2 DEF Viewable, ServerTyped
    <3>4. body \in Nat
      BY <1>1, <3>3, BodyTyped
    <3> HIDE DEF ok, body
    <3> QED BY <1>2, <3>1, <3>2, <3>4, AnswerType
  <2> QED BY <2>1, <2>2, <2>3
<1> QED BY <1>1, <1>2, <1>4 DEF TypeInv, ServerTyped, GhostsTyped

(* The services accept or refuse a write. *)
LEMMA RefuseType == ASSUME TypeInv, NEW n \in DOMAIN calls, Refuse(n)  PROVE TypeInv'
<1>1. Written(n, FALSE, Absent) /\ UNCHANGED <<app, role, activeOrg, item, link, view, members, overtaken, failed>>
  BY DEF Refuse, server
<1>2. Queue(calls', app, view) /\ Len(calls') <= Len(calls) /\ touched' \in BOOLEAN
  BY <1>1, WrittenType DEF DetailRows
<1>3. Len(calls) \in Nat /\ Len(calls') \in Nat /\ Len(calls) <= MaxCalls /\ MaxCalls \in Nat
  BY <1>2, PagesAssumption DEF TypeInv, Queue
<1> QED BY <1>1, <1>2, <1>3 DEF TypeInv, ServerTyped, GhostsTyped

(* Creating an item keeps the types. *)
LEMMA CreateType == ASSUME TypeInv, NEW n \in DOMAIN calls, ServeCreate(n)  PROVE TypeInv'
<1> DEFINE c == calls[n]
<1>1. /\ app \in {"support-hub", "review-console"} /\ item \in [Ids -> {Absent} \cup Items(app)]
      /\ c \in Calls /\ c.do = "create" /\ c.by.org \in Orgs
      /\ UNCHANGED <<app, role, activeOrg, link, view, members, overtaken, failed>>
  BY CallTyped DEF ServerTyped, ServeCreate, Accepted
<1>2. PICK i \in Ids :
         /\ item' = [item EXCEPT ![i] = New(c.by.org)]
         /\ Written(n, TRUE, [id |-> i, org |-> item'[i].org, status |-> item'[i].status])
  BY DEF ServeCreate
<1>3. New(c.by.org) \in Items(app)
  BY <1>1, NewTyped
<1>4. item' \in [Ids -> {Absent} \cup Items(app)] /\ item'[i] = New(c.by.org)
  BY <1>1, <1>2, <1>3
<1> DEFINE body == [id |-> i, org |-> item'[i].org, status |-> item'[i].status]
<1>5. body \in ListRows
  <2>1. New(c.by.org) \in Tickets \cup PRs
    BY <1>3 DEF Items
  <2>2. New(c.by.org).org \in Orgs /\ New(c.by.org).status \in TicketStatus \cup PRStatus
    BY <2>1 DEF Tickets, PRs
  <2> QED BY <1>4, <2>2 DEF ListRows
<1>6. body \in Brought(app, view.page, c.do)
  BY <1>1, <1>5 DEF Brought
<1> HIDE DEF body
<1>7. Queue(calls', app, view) /\ Len(calls') <= Len(calls) /\ touched' \in BOOLEAN
  BY <1>2, <1>5, <1>6, WrittenType DEF body
<1>8. Len(calls) \in Nat /\ Len(calls') \in Nat /\ Len(calls) <= MaxCalls /\ MaxCalls \in Nat
  BY <1>7, PagesAssumption DEF TypeInv, Queue
<1> QED BY <1>1, <1>4, <1>7, <1>8 DEF TypeInv, ServerTyped, GhostsTyped

(* Requesting or answering a connection keeps the types. *)
LEMMA LinkType == ASSUME TypeInv, NEW n \in DOMAIN calls, ServeLink(n)  PROVE TypeInv'
<1> DEFINE c == calls[n]
<1>1. /\ app \in {"support-hub", "review-console"} /\ link \in {Absent} \cup Links
      /\ c \in Calls /\ Fits(c, app, view) /\ c.by.org \in Orgs
      /\ c.do \in {"request", "respond"} /\ Accepts(c.by, c.id, c)
      /\ Written(n, TRUE, link')
      /\ UNCHANGED <<app, role, activeOrg, item, view, members, overtaken, failed>>
  BY CallTyped DEF ServerTyped, ServeLink, Accepted
<1>2. link' \in Links
  <2>1. CASE c.do = "request"
    BY <1>1, <2>1 DEF ServeLink, Links, Fits, ChosenOf
  <2>2. CASE c.do = "respond"
    <3>1. link \in Links /\ c.choice \in {"APPROVED", "REVOKED"}
      BY <1>1, <2>2 DEF Accepts, patchConnection, Fits, ChosenOf
    <3>2. link' = [link EXCEPT !.status = c.choice]
      BY <2>2 DEF ServeLink
    <3> QED BY <3>1, <3>2 DEF Links
  <2> QED BY <1>1, <2>1, <2>2
<1>3. link' \in ListRows /\ link' \in Brought(app, view.page, c.do)
  BY <1>1, <1>2 DEF ListRows, Brought
<1>4. Queue(calls', app, view) /\ Len(calls') <= Len(calls) /\ touched' \in BOOLEAN
  BY <1>1, <1>3, WrittenType
<1>5. Len(calls) \in Nat /\ Len(calls') \in Nat /\ Len(calls) <= MaxCalls /\ MaxCalls \in Nat
  BY <1>4, PagesAssumption DEF TypeInv, Queue
<1> QED BY <1>1, <1>2, <1>4, <1>5 DEF TypeInv, ServerTyped, GhostsTyped

(* What the services accept about an item is about a row of their table,   *)
(* and comes from the organization that owns it.                           *)
LEMMA AcceptedHasRow ==
    ASSUME NEW by, NEW i, NEW r, r.do \in ItemDos, Accepts(by, i, r)
    PROVE  /\ item[i] # Absent /\ by.org = item[i].org
           /\ r.do = "required" => r.choice # 0
BY DEF Accepts, ItemDos, patchTicket, patchPR, deleteTicket, deletePR, postAttachment, postReviewer,
       postReview, ownsResource

(* The row after an accepted write of the page. *)
LEMMA WriteFacts ==
    ASSUME TypeInv, NEW n \in DOMAIN calls, ServeWrite(n)
    PROVE  LET c == calls[n]
               after == Effect(item[c.id], c, Me)
           IN  /\ c.do \in ItemDos /\ c.do \in FrontDos(app) /\ c.answer = NoAnswer
               /\ c.choice \in ChosenOf(app, c.do)
               /\ item[c.id] \in Items(app) /\ c.by.org = item[c.id].org
               /\ item' = [item EXCEPT ![c.id] = after] /\ item'[c.id] = after
               /\ c.do = "delete" => after = Absent
               /\ c.do # "delete" => after \in Items(app) /\ after # Absent
               /\ Written(n, TRUE, IF after = Absent THEN Absent ELSE Body(after, Unknown))
<1> DEFINE c == calls[n]
           it == item[c.id]
           after == Effect(it, c, Me)
<1>1. /\ app \in {"support-hub", "review-console"} /\ item \in [Ids -> {Absent} \cup Items(app)]
      /\ c \in Calls /\ Fits(c, app, view) /\ c.id \in Ids
      /\ c.do \in ItemDos /\ c.answer = NoAnswer /\ Accepts(c.by, c.id, c)
  BY CallTyped DEF ServerTyped, ServeWrite, Accepted, ItemDos
<1>2. it \in Items(app) /\ c.by.org = it.org
  <2>1. it # Absent /\ c.by.org = it.org
    BY <1>1, AcceptedHasRow
  <2> QED BY <1>1, <2>1
<1>3. item' = [item EXCEPT ![c.id] = after] /\ item'[c.id] = after
  BY <1>1 DEF ServeWrite
<1>4. c.do # "delete" => Hung(after) <= MaxHung
  BY <1>1, <1>3 DEF ServeWrite, Hung
<1>5. Written(n, TRUE, IF after = Absent THEN Absent ELSE Body(after, Unknown))
  BY <1>1, <1>3 DEF ServeWrite, Body
<1>6. /\ c.do \in ItemDos \cap FrontDos(app) /\ c.choice \in ChosenOf(app, c.do) /\ Me \in Users
      /\ c.do = "required" => c.choice # 0
  BY <1>1, AcceptedHasRow DEF Fits, Users
<1>7. /\ c.do = "delete" => after = Absent
      /\ c.do # "delete" => after \in Items(app)
  BY <1>1, <1>2, <1>4, <1>6, EffectTyped
<1>8. \A x \in Items(app) : x # Absent
  BY NothingAssumption DEF Items
<1> HIDE DEF after
<1> QED BY <1>1, <1>2, <1>3, <1>5, <1>6, <1>7, <1>8 DEF after

(* Writing an item keeps the types. *)
LEMMA WriteType == ASSUME TypeInv, NEW n \in DOMAIN calls, ServeWrite(n)  PROVE TypeInv'
<1> DEFINE c == calls[n]
           after == Effect(item[c.id], c, Me)
           body == IF after = Absent THEN Absent ELSE Body(after, Unknown)
<1>1. /\ app \in {"support-hub", "review-console"} /\ item \in [Ids -> {Absent} \cup Items(app)]
      /\ c \in Calls /\ Fits(c, app, view) /\ c.id \in Ids
      /\ UNCHANGED <<app, role, activeOrg, link, view, members, overtaken, failed>>
  BY CallTyped DEF ServerTyped, ServeWrite, Accepted
<1>2. /\ c.do \in ItemDos /\ c.do \in FrontDos(app)
      /\ item' = [item EXCEPT ![c.id] = after]
      /\ c.do = "delete" => after = Absent
      /\ c.do # "delete" => after \in Items(app) /\ after # Absent
      /\ Written(n, TRUE, body)
  BY WriteFacts
<1> HIDE DEF after
<1>3. item' \in [Ids -> {Absent} \cup Items(app)]
  BY <1>1, <1>2
<1>4. c.do # "delete" => body \in Bodies(app) /\ body \in DetailRows
  BY <1>1, <1>2, BodyTyped
<1>5. body \in ListRows \cup DetailRows
  BY <1>2, <1>4 DEF DetailRows
<1>6. body \in Brought(app, view.page, c.do)
  BY <1>2, <1>4 DEF Brought, ItemDos
<1> HIDE DEF body
<1>7. Queue(calls', app, view) /\ Len(calls') <= Len(calls) /\ touched' \in BOOLEAN
  BY <1>2, <1>5, <1>6, WrittenType
<1>8. Len(calls) \in Nat /\ Len(calls') \in Nat /\ Len(calls) <= MaxCalls /\ MaxCalls \in Nat
  BY <1>7, PagesAssumption DEF TypeInv, Queue
<1> QED BY <1>1, <1>3, <1>7, <1>8 DEF TypeInv, ServerTyped, GhostsTyped

(* A service fails, or an answer is lost. *)
LEMMA FailureType ==
    ASSUME TypeInv, NEW n \in DOMAIN calls, ServerError(n) \/ Lost(n)
    PROVE  TypeInv'
<1>1. /\ UNCHANGED <<app, role, activeOrg, item, link, view, members, overtaken, touched>>
      /\ failed' = TRUE
  BY DEF ServerError, Lost, server
<1>2. Queue(calls, app, view) /\ calls \in Seq(Calls) /\ Len(calls) \in Nat /\ Len(calls) <= MaxCalls
  BY DEF TypeInv, Queue
<1>3. Queue(calls', app, view) /\ Len(calls') <= Len(calls)
  <2>1. CASE ServerError(n)
    <3>1. PICK field \in {"answer", "extra"} :
             /\ field = "extra" => ~Write(calls[n])
             /\ Answer(n, field, FALSE, Absent)
      BY <2>1 DEF ServerError
    <3>2. ~calls[n].orphan /\ Absent \in DetailRows
      BY <2>1 DEF ServerError, DetailRows
    <3>3. field = "extra" => calls[n].do = "load"
      BY <3>1 DEF Write
    <3>4. Queue(calls', app, view) /\ Len(calls') = Len(calls)
      BY <3>1, <3>2, <3>3, AnswerType
    <3> QED BY <1>2, <3>4
  <2>2. CASE Lost(n)
    <3>1. calls' = RemoveAt(calls, n)
      BY <2>2 DEF Lost
    <3>2. calls' \in Seq(Calls) /\ Removed(calls, calls', n)
      BY <1>2, <3>1, RemovedFacts
    <3> QED BY <1>2, <3>2, QueueRemoved
  <2> QED BY <2>1, <2>2
<1>4. Len(calls') \in Nat /\ MaxCalls \in Nat
  BY <1>3, PagesAssumption DEF Queue
<1> QED BY <1>1, <1>2, <1>3, <1>4 DEF TypeInv, ServerTyped, GhostsTyped

(* An answer arrives. *)
LEMMA ReceiptType == ASSUME TypeInv, NEW n \in DOMAIN calls, Receipt(n)  PROVE TypeInv'
<1> DEFINE c == Request(Load, Claims)
<1>1. /\ Queue(calls, app, view) /\ calls \in Seq(Calls) /\ Len(calls) \in Nat
      /\ Len(calls) <= MaxCalls /\ MaxCalls \in Nat
      /\ app \in {"support-hub", "review-console"} /\ Claims \in Bys
  BY CallTyped, ClaimsTyped DEF TypeInv
<1>2. /\ view' \in Views /\ ViewFits(view', app)
      /\ view'.page = view.page /\ view'.id = view.id
      /\ UNCHANGED <<app, role, activeOrg, item, link, members, failed, touched>>
      /\ overtaken' \in BOOLEAN
  <2>1. calls[n] \in Calls /\ overtaken \in BOOLEAN
    BY <1>1 DEF TypeInv, GhostsTyped
  <2>2. calls[n].late \in BOOLEAN
    BY <2>1 DEF Calls
  <2> QED BY <2>1, <2>2 DEF Receipt
<1>3. Rest(n) \in Seq(Calls) /\ Removed(calls, Rest(n), n)
  BY <1>1, RestFacts
<1>4. Queue(Rest(n), app, view') /\ Len(Rest(n)) = Len(calls) - 1
  BY <1>1, <1>2, <1>3, QueueRemoved DEF Removed
<1>5. Queue(calls', app, view') /\ Len(calls') <= MaxCalls
  <2>1. CASE Reloads(calls[n], view.page)
    <3>1. view'.page # "none"
      <4>1. Fits(calls[n], app, view) /\ ~calls[n].orphan
        BY <1>1 DEF Receipt, Queue
      <4> QED BY <1>2, <4>1 DEF Fits, DosOf
    <3>2. c \in Calls /\ Fits(c, app, view') /\ ~c.orphan
      BY <1>1, <1>2, <3>1, LoadTyped
    <3>3. calls' = Append(Rest(n), c)
      BY <2>1 DEF Receipt
    <3> HIDE DEF c
    <3> QED BY <1>1, <1>4, <3>2, <3>3, QueueSent
  <2>2. CASE ~Reloads(calls[n], view.page)
    BY <1>1, <1>4, <2>2 DEF Receipt
  <2> QED BY <2>1, <2>2
<1> QED BY <1>1, <1>2, <1>5 DEF TypeInv, ServerTyped, GhostsTyped

(* The answer to useOrgMembers keeps the types. *)
LEMMA SetMembersType ==
    ASSUME TypeInv, NEW org \in Orgs, NEW ok \in BOOLEAN, setMembers(org, ok)
    PROVE  TypeInv'
<1>1. members \in [of : Mine \cup {NoOrg}, waits : SUBSET Mine] /\ org \in members.waits
  BY DEF TypeInv, setMembers
<1>2. members' \in [of : Mine \cup {NoOrg}, waits : SUBSET Mine]
  BY <1>1 DEF setMembers
<1>3. /\ UNCHANGED <<app, role, activeOrg, item, link, view, calls, overtaken, touched>>
      /\ failed' \in BOOLEAN
  BY DEF setMembers, server, TypeInv, GhostsTyped
<1> QED BY <1>2, <1>3 DEF TypeInv, ServerTyped, GhostsTyped

(* What somebody else does. *)
LEMMA RequestsTyped ==
    ASSUME app \in {"support-hub", "review-console"}, NEW r \in Requests
    PROVE  /\ r.do \in ItemDos \cap FrontDos(app) /\ r.do \notin {"upload", "edit"}
           /\ r.choice \in ChosenOf(app, r.do) /\ (r.do = "required" => r.choice # 0)
BY DEF Requests, Offer, ItemDos, FrontDos, ChosenOf, StatusOf

(* What other users do keeps the types. *)
LEMMA SomebodyElseType == ASSUME TypeInv, SomebodyElse  PROVE TypeInv'
<1>1. /\ app \in {"support-hub", "review-console"} /\ item \in [Ids -> {Absent} \cup Items(app)]
      /\ link \in {Absent} \cup Links
      /\ UNCHANGED <<app, role, activeOrg, view, members, calls, overtaken, failed>> /\ touched' = TRUE
  BY DEF SomebodyElse, TypeInv, ServerTyped
<1>2. item' \in [Ids -> {Absent} \cup Items(app)] /\ link' \in {Absent} \cup Links
  <2>1. CASE \E i \in Ids, r \in Requests :
                /\ item[i] # Absent
                /\ item' = [item EXCEPT ![i] = Effect(@, r, Other)]
                /\ UNCHANGED link
    <3>1. PICK i \in Ids, r \in Requests :
             item[i] # Absent /\ item' = [item EXCEPT ![i] = Effect(item[i], r, Other)]
      BY <2>1
    <3>2. item[i] \in Items(app) /\ Other \in Users
      BY <1>1, <3>1 DEF Users
    <3>3. Effect(item[i], r, Other) \in {Absent} \cup Items(app)
      BY <1>1, <3>2, RequestsTyped, EffectTyped
    <3> QED BY <1>1, <2>1, <3>1, <3>3
  <2>2. CASE \E i \in Ids, o \in Orgs :
                /\ item[i] # Absent
                /\ item' = [item EXCEPT ![i].guests = IF o \in @ THEN @ \ {o} ELSE @ \cup {o}]
                /\ UNCHANGED link
    <3>1. PICK i \in Ids, o \in Orgs :
             /\ item[i] # Absent
             /\ item' = [item EXCEPT ![i].guests = IF o \in @ THEN @ \ {o} ELSE @ \cup {o}]
      BY <2>2
    <3>2. item[i] \in Items(app)
      BY <1>1, <3>1
    <3>3. item[i].guests \in SUBSET Orgs
      BY <3>2 DEF Items, Tickets, PRs
    <3>4. PICK g \in SUBSET Orgs : item' = [item EXCEPT ![i] = [item[i] EXCEPT !.guests = g]]
      <4> DEFINE g == IF o \in item[i].guests THEN item[i].guests \ {o} ELSE item[i].guests \cup {o}
      <4>1. g \in SUBSET Orgs
        BY <3>3
      <4>2. item' = [item EXCEPT ![i] = [item[i] EXCEPT !.guests = g]]
        BY <3>1
      <4> HIDE DEF g
      <4> QED BY <4>1, <4>2
    <3>5. [item[i] EXCEPT !.guests = g] \in Items(app)
      BY <3>2 DEF Items, Tickets, PRs
    <3> QED BY <1>1, <2>2, <3>4, <3>5
  <2>3. CASE \E o \in Orgs, r \in Offer(TRUE, "request", Orgs)
                                   \cup Offer(TRUE, "respond", {"APPROVED", "REVOKED"}) :
                /\ Accepts([org |-> o, role |-> OA], CHOOSE i \in Ids : TRUE, r)
                /\ link' = IF r.do = "request" THEN [from |-> o, to |-> r.choice, status |-> "PENDING"]
                           ELSE [link EXCEPT !.status = r.choice]
                /\ UNCHANGED item
    <3>1. PICK o \in Orgs, r \in Offer(TRUE, "request", Orgs)
                                   \cup Offer(TRUE, "respond", {"APPROVED", "REVOKED"}) :
                /\ Accepts([org |-> o, role |-> OA], CHOOSE i \in Ids : TRUE, r)
                /\ link' = IF r.do = "request" THEN [from |-> o, to |-> r.choice, status |-> "PENDING"]
                           ELSE [link EXCEPT !.status = r.choice]
      BY <2>3
    <3>2. CASE r.do = "request" /\ r.choice \in Orgs
      BY <1>1, <2>3, <3>1, <3>2 DEF Links
    <3>3. CASE r.do = "respond" /\ r.choice \in {"APPROVED", "REVOKED"}
      <4>1. link \in Links
        BY <1>1, <3>1, <3>3 DEF Accepts, patchConnection
      <4>2. link' = [link EXCEPT !.status = r.choice]
        BY <3>1, <3>3
      <4>3. link' \in Links
        BY <3>3, <4>1, <4>2 DEF Links
      <4> QED BY <1>1, <2>3, <4>3
    <3> QED BY <3>1, <3>2, <3>3 DEF Offer
  <2> QED BY <2>1, <2>2, <2>3 DEF SomebodyElse
<1> QED BY <1>1, <1>2 DEF TypeInv, ServerTyped, GhostsTyped

(* The pages there are to go to. *)
LEMMA DeleteVisits ==
    ASSUME TypeInv, NEW n \in DOMAIN calls, handleDelete(n), Ok(n)
    PROVE  Home(app) \in PagesOf(app) /\ view.id \in Ids /\ Visit(Home(app), view.id)
BY DEF handleDelete, Home, PagesOf, TypeInv, Views

(* No step breaks the types. *)
LEMMA TypeStep == TypeInv /\ [Next]_vars => TypeInv'
<1> SUFFICES ASSUME TypeInv, [Next]_vars  PROVE TypeInv'
  OBVIOUS
<1>1. CASE Navigate
  <2>1. PICK page \in PagesOf(app), i \in Ids : Visit(page, i)
    BY <1>1 DEF Navigate, TypeInv, Views
  <2> QED BY <2>1, VisitType
<1>2. CASE \E org \in Mine : switchOrg(org)
  BY <1>2, SwitchType
<1>3. CASE \E filter \in Filters : setFilter(filter)
  BY <1>3, FilterType
<1>4. CASE toggleForm
  BY <1>4, ToggleType
<1>5. CASE \E r \in Offers : Submit(r)
  BY <1>5, SubmitType
<1>6. CASE Services
  <2> USE LoadsType, RefuseType, CreateType, LinkType, WriteType, FailureType
  <2> QED BY <1>6 DEF Services
<1>7. CASE Page
  <2>1. ASSUME NEW n \in DOMAIN calls, Handlers(n)  PROVE TypeInv'
    BY <2>1, HandlersReceive, ReceiptType
  <2>2. ASSUME NEW n \in DOMAIN calls, handleDelete(n), Ok(n)  PROVE TypeInv'
    BY <2>2, DeleteVisits, VisitType
  <2>3. ASSUME NEW org \in Orgs, NEW ok \in BOOLEAN, setMembers(org, ok)  PROVE TypeInv'
    BY <2>3, SetMembersType
  <2> QED BY <1>7, <2>1, <2>2, <2>3 DEF Page, Handlers
<1>8. CASE SomebodyElse
  BY <1>8, SomebodyElseType
<1>9. CASE UNCHANGED vars
  BY <1>9 DEF vars, server, ghosts, TypeInv, ServerTyped, GhostsTyped
<1> QED BY <1>1, <1>2, <1>3, <1>4, <1>5, <1>6, <1>7, <1>8, <1>9 DEF Next, User

(* The types proved are those the runs check. *)
LEMMA TypeImpl == TypeInv => TypeOK
<1> SUFFICES ASSUME TypeInv  PROVE TypeOK
  OBVIOUS
<1>1. view \in Views /\ ViewFits(view, app)
      /\ members \in [of : Mine \cup {NoOrg}, waits : SUBSET Mine]
  BY DEF TypeInv
<1>2. \A n \in DOMAIN calls : calls[n].do # "load" => calls[n].extra = NoAnswer
  BY DEF TypeInv, Queue, Fits
<1>3. item \in [Ids -> {Absent} \cup (IF app = "support-hub" THEN Tickets ELSE PRs)]
  BY DEF TypeInv, ServerTyped, Items
<1> QED BY <1>1, <1>2, <1>3 DEF TypeOK, TypeInv, ServerTyped, Views, ViewFits

(* Every variable always has its type. *)
LEMMA Typed == Spec => []TypeInv
<1>1. Init => TypeInv
  BY TypeInit
<1>2. TypeInv /\ [Next]_vars => TypeInv'
  BY TypeStep
<1> QED BY <1>1, <1>2, PTL DEF Spec

(* Every variable always has its type: what a page of either front end     *)
(* keeps are rows and counts of its own kind, its requests are never more  *)
(* than it may have, and the tables keep theirs.                           *)
THEOREM TypeCorrect == Spec => []TypeOK
<1>1. TypeInv => TypeOK
  BY TypeImpl
<1> QED BY <1>1, Typed, PTL

-----------------------------------------------------------------------------
(* The members that are offered as assignees and as reviewers.             *)

WithMembers(page) == page \in {"tickets", "ticket", "pr"}

(* An admin's page waits for the members of the active organization or has *)
(* them; another role's has none and waits for none.                       *)
MembersRight ==
    WithMembers(view.page) /\ ~failed =>
        IF role[activeOrg] = OA
        THEN members.waits \subseteq {activeOrg} /\ (members.waits = {} => members.of = activeOrg)
        ELSE members.of = NoOrg /\ members.waits = {}

(* The effect of useOrgMembers asks for the members the page should have. *)
LEMMA EffectRight ==
    ASSUME TypeInv, NEW before \in [of : Mine \cup {NoOrg}, waits : SUBSET Mine],
           useOrgMembers(before, Claims'), role' = role
    PROVE  MembersRight'
<1>1. Claims'.org = activeOrg' /\ Claims'.role = role'[activeOrg']
  BY DEF Claims
<1> QED BY <1>1 DEF MembersRight, WithMembers, useOrgMembers

(* A page that is opened asks for them. *)
LEMMA VisitMembers ==
    ASSUME TypeInv, NEW page, NEW id, Visit(page, id)
    PROVE  MembersRight'
<1>1. NoMembers \in [of : Mine \cup {NoOrg}, waits : SUBSET Mine]
  BY DEF NoMembers
<1>2. useOrgMembers(NoMembers, Claims) /\ UNCHANGED <<role, activeOrg>>
  BY DEF Visit
<1>3. Claims' = Claims
  BY <1>2 DEF Claims
<1> QED BY <1>1, <1>2, <1>3, EffectRight

(* No step breaks that the members are right. *)
LEMMA MembersStep == TypeInv /\ MembersRight /\ [Next]_vars => MembersRight'
<1> SUFFICES ASSUME TypeInv, MembersRight, [Next]_vars  PROVE MembersRight'
  OBVIOUS
<1> DEFINE Quiet == view'.page = view.page /\ UNCHANGED <<role, activeOrg, members>> /\ (failed => failed')
<1>1. ASSUME Quiet  PROVE MembersRight'
  <2>1. failed \in BOOLEAN
    BY DEF TypeInv, GhostsTyped
  <2> QED BY <1>1, <2>1 DEF MembersRight
<1>2. CASE Navigate
  BY <1>2, VisitMembers DEF Navigate
<1>3. ASSUME NEW org \in Mine, switchOrg(org)  PROVE MembersRight'
  <2>1. members \in [of : Mine \cup {NoOrg}, waits : SUBSET Mine]
    BY DEF TypeInv
  <2>2. useOrgMembers(members, Claims') /\ role' = role
    BY <1>3, SwitchQueue DEF switchOrg
  <2> QED BY <2>1, <2>2, EffectRight
<1>4. ASSUME NEW filter \in Filters, setFilter(filter)  PROVE Quiet
  BY <1>4, FilterQueue DEF setFilter, ghosts
<1>5. CASE toggleForm
  BY <1>1, <1>5, ToggleFacts
<1>6. ASSUME NEW r \in Offers, Submit(r)  PROVE Quiet
  BY <1>6 DEF Submit, ghosts
<1>7. CASE Services
  <2> DEFINE Still == UNCHANGED <<role, activeOrg, view, members, failed>>
  <2>1. ASSUME NEW n \in DOMAIN calls, ServeList(n) \/ ServeGet(n) \/ ServeExtra(n)  PROVE Still
    BY <2>1 DEF ServeList, ServeGet, ServeExtra, Served, server
  <2>2. ASSUME NEW n \in DOMAIN calls, Refuse(n) \/ ServeCreate(n) \/ ServeLink(n) \/ ServeWrite(n)
        PROVE  Still
    BY <2>2 DEF Refuse, ServeCreate, ServeLink, ServeWrite, Accepted, server
  <2>3. ASSUME NEW n \in DOMAIN calls, ServerError(n) \/ Lost(n)  PROVE Quiet
    BY <2>3 DEF ServerError, Lost, server
  <2>4. Still \/ Quiet
    BY <1>7, <2>1, <2>2, <2>3 DEF Services
  <2> QED BY <1>1, <2>4
<1>8. CASE Page
  <2>1. ASSUME NEW n \in DOMAIN calls, Handlers(n)  PROVE Quiet
    BY <2>1, HandlersReceive DEF Receipt
  <2>2. ASSUME NEW n \in DOMAIN calls, handleDelete(n), Ok(n)  PROVE MembersRight'
    BY <2>2, DeleteVisits, VisitMembers
  <2>3. ASSUME NEW org \in Orgs, NEW ok \in BOOLEAN, setMembers(org, ok)  PROVE MembersRight'
    <3>1. members \in [of : Mine \cup {NoOrg}, waits : SUBSET Mine] /\ org \in members.waits
      BY <2>3 DEF TypeInv, setMembers
    <3>2. /\ members'.of = IF ok THEN org ELSE members.of
          /\ members'.waits = members.waits \ {org}
          /\ failed' = (failed \/ ~ok) /\ failed \in BOOLEAN
          /\ UNCHANGED <<role, activeOrg, view>>
      BY <2>3 DEF setMembers, TypeInv, GhostsTyped
    <3> QED BY <3>1, <3>2 DEF MembersRight
  <2> QED BY <1>1, <1>8, <2>1, <2>2, <2>3 DEF Page, Handlers
<1>9. CASE SomebodyElse
  BY <1>1, <1>9 DEF SomebodyElse
<1>10. CASE UNCHANGED vars
  BY <1>1, <1>10 DEF vars, ghosts
<1> QED BY <1>1, <1>2, <1>3, <1>4, <1>5, <1>6, <1>7, <1>8, <1>9, <1>10 DEF Next, User

(* The members of a page whose requests have not failed are always those   *)
(* of the active organization, or under way.                               *)
LEMMA MembersAreRight == Spec => []MembersRight
<1>1. Init => MembersRight
  <2>1. Init => view.page = "none"
    <3>1. \A i : Blank("none", i).page = "none"
      BY DEF Blank
    <3>2. Init => view = Blank("none", CHOOSE i \in Ids : TRUE)
      BY DEF Init
    <3> QED BY <3>1, <3>2
  <2> QED BY <2>1 DEF MembersRight, WithMembers
<1>2. TypeInv /\ MembersRight /\ [Next]_vars => MembersRight'
  BY MembersStep
<1> QED BY <1>1, <1>2, Typed, PTL DEF Spec

-----------------------------------------------------------------------------
(* What a page will show when it has its answers.                          *)

(* After this answer the page loads again, or opens its list. *)
WillLoad(c, page) ==
    c.answer # NoAnswer /\ (Reloads(c, page) \/ (c.do = "delete" /\ c.answer.ok))

BringsLoad(c, d, page) == (c.do = "load" /\ Open(c, d)) \/ WillLoad(c, page)

(* A load is to come. *)
PendingIn(q, d, page) == \E n \in DOMAIN q : ~q[n].orphan /\ BringsLoad(q[n], d, page)

(* The requests are for one user of one organization, and for one filter;  *)
(* those that are not have a load behind them.                             *)
FreshIn(q, by, filter) ==
    \A n \in DOMAIN q : ~q[n].orphan =>
        \/ q[n].by = by /\ (q[n].do = "load" => q[n].choice = filter)
        \/ \E m \in DOMAIN q : m > n /\ q[m].do = "load"

(* What is the same counts the same. *)
LEMMA SameFacts ==
    ASSUME NEW c, NEW c1, Same(c, c1), NEW d, NEW page
    PROVE  /\ Open(c1, d) <=> Open(c, d)
           /\ Started(c1) <=> Started(c)
           /\ BringsLoad(c1, d, page) <=> BringsLoad(c, d, page)
BY DEF Same, Open, Started, BringsLoad, WillLoad, Reloads

(* Where the requests are that follow a removed one, and the others. *)
LEMMA RemovedAt ==
    ASSUME NEW q \in Seq(Calls), NEW q1 \in Seq(Calls), NEW n \in DOMAIN q, Removed(q, q1, n)
    PROVE  /\ \A k \in DOMAIN q1 : /\ k < n => k \in DOMAIN q /\ Same(q[k], q1[k])
                                   /\ k >= n => k + 1 \in DOMAIN q /\ Same(q[k + 1], q1[k])
           /\ \A m \in DOMAIN q : /\ m < n => m \in DOMAIN q1 /\ Same(q[m], q1[m])
                                  /\ m > n => m - 1 \in DOMAIN q1 /\ Same(q[m], q1[m - 1])
<1>1. /\ Len(q) \in Nat /\ DOMAIN q = 1..Len(q) /\ n \in 1..Len(q)
      /\ Len(q1) = Len(q) - 1 /\ DOMAIN q1 = 1..(Len(q) - 1)
      /\ \A k \in DOMAIN q1 : Same(IF k < n THEN q[k] ELSE q[k + 1], q1[k])
  BY DEF Removed
<1>2. ASSUME NEW k \in DOMAIN q1
      PROVE  /\ k < n => k \in DOMAIN q /\ Same(q[k], q1[k])
             /\ k >= n => k + 1 \in DOMAIN q /\ Same(q[k + 1], q1[k])
  BY <1>1
<1>3. ASSUME NEW m \in DOMAIN q
      PROVE  /\ m < n => m \in DOMAIN q1 /\ Same(q[m], q1[m])
             /\ m > n => m - 1 \in DOMAIN q1 /\ Same(q[m], q1[m - 1])
  <2>1. CASE m < n
    BY <1>1, <2>1
  <2>2. CASE m > n
    <3>1. m - 1 \in DOMAIN q1 /\ m - 1 >= n /\ (m - 1) + 1 = m
      BY <1>1, <2>2
    <3>2. Same(q[(m - 1) + 1], q1[m - 1])
      BY <1>2, <3>1
    <3> QED BY <1>1, <2>2, <3>1, <3>2
  <2>3. m \in Nat /\ n \in Nat
    BY <1>1
  <2> QED BY <2>1, <2>2, <2>3
<1> QED BY <1>2, <1>3

(* A load that is to come is still to come when another request is gone. *)
LEMMA RemovedPending ==
    ASSUME NEW q \in Seq(Calls), NEW q1 \in Seq(Calls), NEW n \in DOMAIN q, Removed(q, q1, n),
           NEW d, NEW page, PendingIn(q, d, page), q[n].orphan \/ ~BringsLoad(q[n], d, page)
    PROVE  PendingIn(q1, d, page)
<1>1. PICK m \in DOMAIN q : ~q[m].orphan /\ BringsLoad(q[m], d, page)
  BY DEF PendingIn
<1>2. m # n /\ m \in Nat /\ n \in Nat
  BY <1>1
<1>3. PICK k \in DOMAIN q1 : Same(q[m], q1[k])
  BY <1>2, RemovedAt
<1>4. ~q1[k].orphan /\ BringsLoad(q1[k], d, page)
  BY <1>1, <1>3, SameFacts DEF Same
<1> QED BY <1>4 DEF PendingIn

(* The requests of one user stay those of one user when one is gone. *)
LEMMA RemovedFresh ==
    ASSUME NEW q \in Seq(Calls), NEW q1 \in Seq(Calls), NEW n \in DOMAIN q, Removed(q, q1, n),
           NEW by, NEW filter, FreshIn(q, by, filter), \A k \in DOMAIN q : k < n => q[k].orphan
    PROVE  FreshIn(q1, by, filter)
<1> SUFFICES ASSUME NEW k \in DOMAIN q1, ~q1[k].orphan
             PROVE  \/ q1[k].by = by /\ (q1[k].do = "load" => q1[k].choice = filter)
                    \/ \E m \in DOMAIN q1 : m > k /\ q1[m].do = "load"
  BY DEF FreshIn
<1>1. k \in Nat /\ n \in Nat
  OBVIOUS
<1>2. k >= n /\ k + 1 \in DOMAIN q /\ Same(q[k + 1], q1[k])
  BY <1>1, RemovedAt DEF Same
<1>3. ~q[k + 1].orphan
  BY <1>2 DEF Same
<1>4. CASE q[k + 1].by = by /\ (q[k + 1].do = "load" => q[k + 1].choice = filter)
  BY <1>2, <1>4 DEF Same
<1>5. CASE \E m \in DOMAIN q : m > k + 1 /\ q[m].do = "load"
  <2>1. PICK m \in DOMAIN q : m > k + 1 /\ q[m].do = "load"
    BY <1>5
  <2>2. m \in Nat /\ m > n /\ m - 1 > k
    BY <1>1, <1>2, <2>1
  <2>3. m - 1 \in DOMAIN q1 /\ q1[m - 1].do = "load"
    BY <2>1, <2>2, RemovedAt DEF Same
  <2> QED BY <2>2, <2>3
<1> QED BY <1>2, <1>3, <1>4, <1>5 DEF FreshIn

(* A request is sent: a load to come stays to come, and a load that is     *)
(* sent is one; requests of one user and one filter stay so, and a load    *)
(* makes those before it a thing of the past.                              *)
LEMMA SentFacts ==
    ASSUME NEW q \in Seq(Calls), NEW c \in Calls, NEW d, NEW page, NEW by, NEW filter
    PROVE  /\ PendingIn(q, d, page) => PendingIn(Append(q, c), d, page)
           /\ ~c.orphan /\ c.do = "load" /\ ~Started(c) => PendingIn(Append(q, c), d, page)
           /\ FreshIn(q, by, filter) /\ c.by = by /\ c.do # "load" => FreshIn(Append(q, c), by, filter)
           /\ c.do = "load" /\ c.by = by /\ c.choice = filter => FreshIn(Append(q, c), by, filter)
<1> DEFINE q1 == Append(q, c)
<1>1. /\ Len(q) \in Nat /\ DOMAIN q = 1..Len(q) /\ DOMAIN q1 = 1..(Len(q) + 1)
      /\ \A k \in DOMAIN q : q1[k] = q[k]
      /\ q1[Len(q) + 1] = c
  OBVIOUS
<1> HIDE DEF q1
<1>2. \A k \in DOMAIN q : k \in DOMAIN q1 /\ k < Len(q) + 1
  BY <1>1
<1>3. \A k \in DOMAIN q1 : k \in DOMAIN q \/ k = Len(q) + 1
  BY <1>1
<1>4. Len(q) + 1 \in DOMAIN q1
  BY <1>1
<1>5. PendingIn(q, d, page) => PendingIn(q1, d, page)
  BY <1>1, <1>2 DEF PendingIn
<1>6. ~c.orphan /\ c.do = "load" /\ ~Started(c) => PendingIn(q1, d, page)
  BY <1>1, <1>4 DEF PendingIn, BringsLoad, Open, Started
<1>7. FreshIn(q, by, filter) /\ c.by = by /\ c.do # "load" => FreshIn(q1, by, filter)
  BY <1>1, <1>2, <1>3 DEF FreshIn
<1>8. c.do = "load" /\ c.by = by /\ c.choice = filter => FreshIn(q1, by, filter)
  BY <1>1, <1>2, <1>3, <1>4 DEF FreshIn
<1> QED BY <1>5, <1>6, <1>7, <1>8 DEF q1

(* An answer to another request leaves a load to come. *)
LEMMA AnsweredFacts ==
    ASSUME NEW q \in Seq(Calls), NEW q1 \in Seq(Calls), NEW n \in DOMAIN q, Answered(q, q1, n),
           NEW d, NEW page, NEW by, NEW filter
    PROVE  /\ FreshIn(q, by, filter) => FreshIn(q1, by, filter)
           /\ PendingIn(q, d, page) /\ ~BringsLoad(q[n], d, page) => PendingIn(q1, d, page)
<1>1. DOMAIN q1 = DOMAIN q
  BY DEF Answered
<1>2. \A k \in DOMAIN q : /\ q1[k].do = q[k].do /\ q1[k].choice = q[k].choice
                          /\ q1[k].by = q[k].by /\ q1[k].orphan = q[k].orphan
  BY DEF Answered, Same
<1>3. FreshIn(q, by, filter) => FreshIn(q1, by, filter)
  BY <1>1, <1>2 DEF FreshIn
<1>4. ASSUME PendingIn(q, d, page), ~BringsLoad(q[n], d, page)  PROVE PendingIn(q1, d, page)
  <2>1. PICK m \in DOMAIN q : ~q[m].orphan /\ BringsLoad(q[m], d, page)
    BY <1>4 DEF PendingIn
  <2>2. m # n
    BY <1>4, <2>1
  <2>3. Same(q[m], q1[m])
    BY <2>2 DEF Answered
  <2>4. ~q1[m].orphan /\ BringsLoad(q1[m], d, page)
    BY <2>1, <2>3, SameFacts DEF Same
  <2> QED BY <1>1, <2>4 DEF PendingIn
<1> QED BY <1>3, <1>4

(* The load behind a request that is next is to come. *)
LEMMA LaterLoad ==
    ASSUME NEW q \in Seq(Calls), NEW d, NEW page, NEW a, NEW b, InOrder(q, d, a, b),
           NEW m \in DOMAIN q, m > b, q[m].do = "load"
    PROVE  PendingIn(q, d, page)
<1>1. a \in Nat /\ b \in Nat /\ m \in Nat /\ a <= b
  BY DEF InOrder
<1>2. ~q[m].orphan /\ Open(q[m], d)
  BY <1>1 DEF InOrder
<1> QED BY <1>2 DEF PendingIn, BringsLoad

-----------------------------------------------------------------------------
(* What the services have, and what the page will show in the end.         *)

TrueRows(i) ==
    {Body(item[i], r) : r \in {Unknown} \cup (IF app = "review-console" THEN {item[i].reviewers} ELSE {})}

ShownOf(v) == v.listed \cup {row \in v.created :
                               view.page = "tickets" /\ view.filter # "" => row.status = view.filter}

(* A page that shows v shows what the services have. *)
Truly(v) ==
    /\ view.page \in Lists /\ ~Closed(view.page, Claims) =>
          ShownOf(v) = Listed(view.page, Claims, view.filter)
    /\ Detail /\ ~v.missing =>
          /\ item[view.id] # Absent
          /\ v.row \in TrueRows(view.id)
          /\ v.extra = Hung(item[view.id])

(* The part of its answer that a load of a detail page has is right. *)
PartTrue(c) ==
    /\ c.answer # NoAnswer => /\ c.answer.ok <=> Viewable(c.by, c.id)
                              /\ c.answer.ok => c.answer.body \in TrueRows(c.id)
    /\ c.extra # NoAnswer => /\ c.extra.ok <=> Viewable(c.by, c.id)
                             /\ c.extra.ok => c.extra.body = Hung(item[c.id])

PartsTrue ==
    Detail => \A n \in DOMAIN calls :
                 ~calls[n].orphan /\ calls[n].do = "load" /\ Open(calls[n], Detail) => PartTrue(calls[n])

(* Nothing has disturbed the page. *)
Good == ~overtaken /\ ~failed /\ \A n \in DOMAIN calls : ~calls[n].orphan => ~calls[n].late

Fresh == view.page \in Lists /\ ~Closed(view.page, Claims) => FreshIn(calls, Claims, view.filter)

Held(a, b, V) ==
    /\ InOrder(calls, Detail, a, b) /\ Chain(calls, Detail, Shows(view), a, b, V)
    /\ Fresh
    /\ ~touched => PartsTrue /\ (PendingIn(calls, Detail, view.page) \/ Truly(V[b]))

PageInv == Good => \E a, b, V : Held(a, b, V)

(* The services have what they had, and the page is the same. *)
LEMMA TruthStays ==
    ASSUME UNCHANGED <<app, role, activeOrg, item, link>>,
           view'.page = view.page, view'.id = view.id, view'.filter = view.filter
    PROVE  /\ Detail' = Detail /\ Claims' = Claims
           /\ \A v : Truly(v)' <=> Truly(v)
           /\ \A c : PartTrue(c)' <=> PartTrue(c)
<1>1. Detail' = Detail /\ Claims' = Claims
  BY DEF Detail, Claims
<1>2. \A by, i : Viewable(by, i)' = Viewable(by, i)
  BY DEF Viewable
<1>3. \A i : /\ Row(i)' = Row(i) /\ TrueRows(i)' = TrueRows(i)
             /\ Hung(item[i])' = Hung(item[i])
  BY DEF Row, TrueRows, Body, Hung
<1>4. \A page, by, filter : Listed(page, by, filter)' = Listed(page, by, filter)
  <2>1. \A by, filter : listTickets(by, filter)' = listTickets(by, filter)
    BY DEF listTickets, Viewable, Row
  <2>2. \A by : /\ listPRs(by)' = listPRs(by)
                /\ listConnections(by)' = listConnections(by)
    BY DEF listPRs, listConnections, Viewable, Row
  <2> QED BY <2>1, <2>2 DEF Listed, queryAuditLog, listFeatureFlags
<1>5. \A v : ShownOf(v)' = ShownOf(v)
  BY DEF ShownOf
<1>6. Closed(view.page, Claims)' = Closed(view.page, Claims)
  BY <1>1 DEF Closed
<1>7. \A v : Truly(v)' <=> Truly(v)
  BY <1>1, <1>3, <1>4, <1>5, <1>6 DEF Truly
<1>8. \A c : PartTrue(c)' <=> PartTrue(c)
  BY <1>2, <1>3 DEF PartTrue
<1> QED BY <1>1, <1>7, <1>8

(* Nothing happens to what the page shows and waits for. *)
LEMMA QuietHolds ==
    ASSUME PageInv, Good' => Good, touched' = touched, calls' = calls,
           UNCHANGED <<app, role, activeOrg, item, link>>,
           view'.page = view.page, view'.id = view.id, view'.filter = view.filter,
           Shows(view') = Shows(view)
    PROVE  PageInv'
<1> SUFFICES ASSUME Good'  PROVE (\E a, b, V : Held(a, b, V))'
  BY DEF PageInv
<1>1. PICK a, b, V : Held(a, b, V)
  BY DEF PageInv
<1>2. Fresh'
  BY <1>1, TruthStays DEF Held, Fresh, Closed
<1>3. PartsTrue' <=> PartsTrue
  BY TruthStays DEF PartsTrue
<1>4. Held(a, b, V)'
  BY <1>1, <1>2, <1>3, TruthStays DEF Held
<1> QED BY <1>4

(* Somebody else changes what the services have: all bets are off until    *)
(* the page loads again, but its requests are as they were.                *)
LEMMA SomebodyElseHolds == ASSUME TypeInv, PageInv, SomebodyElse  PROVE PageInv'
<1> SUFFICES ASSUME Good'  PROVE (\E a, b, V : Held(a, b, V))'
  BY DEF PageInv
<1>1. touched' = TRUE /\ UNCHANGED <<app, role, activeOrg, view, members, calls, overtaken, failed>>
  BY DEF SomebodyElse
<1>2. Good /\ Detail' = Detail /\ Claims' = Claims
  BY <1>1 DEF Good, Detail, Claims
<1>3. PICK a, b, V : Held(a, b, V)
  BY <1>2 DEF PageInv
<1>4. Held(a, b, V)'
  BY <1>1, <1>2, <1>3 DEF Held, Fresh, Closed
<1> QED BY <1>4

(* Appending an element. *)
LEMMA AppendFacts ==
    ASSUME NEW q \in Seq(Calls), NEW c \in Calls
    PROVE  /\ Append(q, c) \in Seq(Calls) /\ DOMAIN Append(q, c) = 1..(Len(q) + 1)
           /\ Append(q, c)[Len(q) + 1] = c
           /\ \A k \in DOMAIN q : Append(q, c)[k] = q[k]
           /\ \A k \in DOMAIN Append(q, c) : k \in DOMAIN q \/ k = Len(q) + 1
<1>1. Len(q) \in Nat /\ DOMAIN q = 1..Len(q)
  OBVIOUS
<1> QED BY <1>1

(* Only requests that were left behind. *)
LEMMA LeftBehind ==
    ASSUME NEW q \in Seq(Calls), \A k \in DOMAIN q : q[k].orphan, NEW d, NEW v
    PROVE  \E N, V : /\ N = Len(q) /\ N \in Nat /\ DOMAIN q = 1..N
                     /\ InOrder(q, d, N, N) /\ Chain(q, d, v, N, N, V)
<1> DEFINE N == Len(q)
           V == [k \in Nat |-> v]
<1>1. N \in Nat /\ DOMAIN q = 1..N /\ V[N] = v
  OBVIOUS
<1>2. InOrder(q, d, N, N)
  BY <1>1 DEF InOrder
<1>3. Chain(q, d, v, N, N, V)
  BY <1>1 DEF Chain
<1> QED BY <1>1, <1>2, <1>3

(* The requests of a closed page matter no more; its own are none, or one  *)
(* load of its own.                                                        *)
LEMMA VisitHolds ==
    ASSUME TypeInv, NEW page \in PagesOf(app), NEW id \in Ids, Visit(page, id)
    PROVE  PageInv'
<1>1. PICK c, q :
         /\ c = Request(Load, Claims) /\ q = Orphans
         /\ view' = Blank(page, id) /\ touched' = FALSE /\ view'.page = page /\ view'.filter = ""
         /\ q \in Seq(Calls) /\ calls' \in Seq(Calls)
         /\ \A k \in DOMAIN q : q[k].orphan
         /\ c \in Calls /\ ~c.orphan /\ ~Started(c) /\ ~c.late /\ c.do = "load" /\ c.by = Claims
         /\ c.choice = view'.filter
         /\ calls' = IF Closed(page, Claims) THEN q ELSE Append(q, c)
         /\ Claims' = Claims
  BY VisitQueue DEF Visit, Blank, Claims, Queue
<1>2. PICK N, V : /\ N = Len(q) /\ N \in Nat /\ DOMAIN q = 1..N
                  /\ InOrder(q, Detail', N, N) /\ Chain(q, Detail', Shows(view'), N, N, V)
  BY <1>1, LeftBehind
<1>3. InOrder(calls', Detail', N, N) /\ Chain(calls', Detail', Shows(view'), N, N, V)
  <2>1. CASE Closed(page, Claims)
    BY <1>1, <1>2, <2>1
  <2>2. CASE ~Closed(page, Claims)
    BY <1>1, <1>2, <2>2, OneSent
  <2> QED BY <2>1, <2>2
<1>4. Closed(view.page, Claims)' <=> Closed(page, Claims)
  BY <1>1 DEF Closed
<1>5. Fresh'
  <2>1. ASSUME ~Closed(page, Claims)  PROVE FreshIn(calls', Claims, view'.filter)
    BY <1>1, <2>1, SentFacts
  <2> QED BY <1>1, <1>4, <2>1 DEF Fresh
<1>6. PartsTrue'
  <2>1. ASSUME NEW k \in DOMAIN calls', ~calls'[k].orphan  PROVE calls'[k] = c
    <3>1. calls' = Append(q, c)
      BY <1>1, <2>1
    <3>2. /\ calls'[Len(q) + 1] = c
          /\ \A j \in DOMAIN q : calls'[j] = q[j]
          /\ \A j \in DOMAIN calls' : j \in DOMAIN q \/ j = Len(q) + 1
      <4>1. q \in Seq(Calls) /\ c \in Calls
        BY <1>1
      <4> QED BY <3>1, <4>1, AppendFacts
    <3>3. \A j \in DOMAIN q : q[j].orphan
      BY <1>1
    <3> QED BY <2>1, <3>2, <3>3
  <2>2. c.answer = NoAnswer /\ c.extra = NoAnswer
    BY <1>1 DEF Started
  <2> QED BY <2>1, <2>2 DEF PartsTrue, PartTrue
<1>7. PendingIn(calls', Detail', view'.page) \/ Truly(V[N])'
  <2>1. CASE ~Closed(page, Claims)
    BY <1>1, <2>1, SentFacts
  <2>2. CASE Closed(page, Claims)
    <3>1. ~Detail'
      BY <1>1, <2>2 DEF Closed, Detail
    <3> QED BY <1>4, <2>2, <3>1 DEF Truly
  <2> QED BY <2>1, <2>2
<1>8. Held(N, N, V)'
  BY <1>3, <1>5, <1>6, <1>7 DEF Held
<1> QED BY <1>8 DEF PageInv

(* A request more does not change what is to come before it. *)
LEMMA SentHolds ==
    ASSUME TypeInv, PageInv, Good', overtaken' = overtaken, failed' = failed,
           view'.page = view.page, Shows(view') = Shows(view),
           NEW c \in Calls, ~c.orphan, ~Started(c), calls' = Append(calls, c)
    PROVE  \E a, b, V : /\ Held(a, b, V)
                        /\ InOrder(calls', Detail', a, b)
                        /\ Chain(calls', Detail', Shows(view'), a, b, V)
<1>1. calls \in Seq(Calls) /\ Detail' = Detail
  BY DEF TypeInv, Queue, Detail
<1>2. \A k \in DOMAIN calls : k \in DOMAIN calls' /\ calls'[k] = calls[k]
  BY <1>1, AppendFacts
<1>3. Good
  BY <1>2 DEF Good
<1>4. PICK a, b, V : Held(a, b, V)
  BY <1>3 DEF PageInv
<1>5. InOrder(calls', Detail', a, b) /\ Chain(calls', Detail', Shows(view'), a, b, V)
  BY <1>1, <1>4, OneSent DEF Held
<1> QED BY <1>4, <1>5

(* A request that is sent has no part of its answer, and the others have   *)
(* the parts they had.                                                     *)
LEMMA SentParts ==
    ASSUME TypeInv, NEW c \in Calls, ~Started(c), calls' = Append(calls, c), PartsTrue,
           Detail' = Detail, \A x : PartTrue(x)' <=> PartTrue(x)
    PROVE  PartsTrue'
<1>1. calls \in Seq(Calls)
  BY DEF TypeInv, Queue
<1>2. \A k \in DOMAIN calls' : (k \in DOMAIN calls /\ calls'[k] = calls[k]) \/ calls'[k] = c
  <2>1. /\ calls'[Len(calls) + 1] = c
        /\ \A j \in DOMAIN calls : calls'[j] = calls[j]
        /\ \A j \in DOMAIN calls' : j \in DOMAIN calls \/ j = Len(calls) + 1
    BY <1>1, AppendFacts
  <2> QED BY <2>1
<1>3. PartTrue(c)
  BY DEF Started, PartTrue
<1> QED BY <1>2, <1>3 DEF PartsTrue

(* The user sends a write of the page. *)
LEMMA SubmitHolds == ASSUME TypeInv, PageInv, NEW r \in Offers, Submit(r)  PROVE PageInv'
<1> SUFFICES ASSUME Good'  PROVE (\E a, b, V : Held(a, b, V))'
  BY DEF PageInv
<1>1. PICK c : /\ calls' = Append(calls, c) /\ view' = view
               /\ c \in Calls /\ ~c.orphan /\ ~Started(c) /\ c.do # "load" /\ c.by = Claims
  BY SubmitQueue
<1>2. UNCHANGED <<app, role, activeOrg, item, link, view, overtaken, failed, touched>>
  BY DEF Submit, server, ghosts
<1>3. PICK a, b, V : /\ Held(a, b, V)
                     /\ InOrder(calls', Detail', a, b)
                     /\ Chain(calls', Detail', Shows(view'), a, b, V)
  BY <1>1, <1>2, SentHolds
<1>4. /\ Detail' = Detail /\ Claims' = Claims
      /\ \A v : Truly(v)' <=> Truly(v)
      /\ \A x : PartTrue(x)' <=> PartTrue(x)
  BY <1>2, TruthStays
<1>5. calls \in Seq(Calls)
  BY DEF TypeInv, Queue
<1>6. Fresh'
  <2>1. FreshIn(calls, Claims, view.filter) => FreshIn(calls', Claims, view.filter)
    BY <1>1, <1>5, SentFacts
  <2> QED BY <1>2, <1>3, <1>4, <2>1 DEF Held, Fresh, Closed
<1>7. ~touched => PartsTrue'
  BY <1>1, <1>3, <1>4, SentParts DEF Held
<1>8. PendingIn(calls, Detail, view.page) => PendingIn(calls', Detail, view.page)
  BY <1>1, <1>5, SentFacts
<1>9. Held(a, b, V)'
  BY <1>2, <1>3, <1>4, <1>6, <1>7, <1>8 DEF Held
<1> QED BY <1>9

(* A load that is sent is to come, and settles what the page will show. *)
LEMMA LoadSentHolds ==
    ASSUME TypeInv, PageInv, Good', overtaken' = overtaken, failed' = failed, touched' = touched,
           UNCHANGED <<app, item, link>>,
           view'.page = view.page, Shows(view') = Shows(view),
           NEW c \in Calls, ~c.orphan, ~Started(c), calls' = Append(calls, c),
           c.do = "load", c.by = Claims', c.choice = view'.filter
    PROVE  (\E a, b, V : Held(a, b, V))'
<1>1. PICK a, b, V : /\ Held(a, b, V)
                     /\ InOrder(calls', Detail', a, b)
                     /\ Chain(calls', Detail', Shows(view'), a, b, V)
  BY SentHolds
<1>2. calls \in Seq(Calls)
  BY DEF TypeInv, Queue
<1>3. Fresh'
  <2>1. FreshIn(calls', Claims', view'.filter)
    BY <1>2, SentFacts
  <2> QED BY <2>1 DEF Fresh
<1>4. Detail' = Detail /\ \A x : PartTrue(x)' <=> PartTrue(x)
  BY DEF Detail, PartTrue, Viewable, TrueRows, Body, Hung
<1>5. ~touched => PartsTrue'
  BY <1>1, <1>4, SentParts DEF Held
<1>6. PendingIn(calls', Detail', view'.page)
  BY <1>2, SentFacts
<1>7. Held(a, b, V)'
  BY <1>1, <1>3, <1>5, <1>6 DEF Held
<1> QED BY <1>7

(* The user switches the organization: a list is loaded for the new one;   *)
(* what a detail page shows does not depend on it.                         *)
LEMMA SwitchHolds == ASSUME TypeInv, PageInv, NEW org \in Mine, switchOrg(org)  PROVE PageInv'
<1> SUFFICES ASSUME Good'  PROVE (\E a, b, V : Held(a, b, V))'
  BY DEF PageInv
<1>1. UNCHANGED <<app, role, item, link, view, overtaken, failed, touched>>
  BY DEF switchOrg, server, ghosts
<1>2. PICK c : /\ calls' = IF view.page \in Lists /\ ~Closed(view.page, Claims') THEN Append(calls, c) ELSE calls
               /\ view.page \in Lists => /\ c \in Calls /\ ~c.orphan /\ ~Started(c)
                                         /\ c.do = "load" /\ c.by = Claims' /\ c.choice = view'.filter
  <2>1. PICK by, c : by = [org |-> org, role |-> role[org]] /\ c = Request(Load, by)
    OBVIOUS
  <2>2. by = Claims'
    BY <2>1, SwitchQueue
  <2>3. /\ calls' = IF view.page \in Lists /\ ~Closed(view.page, by) THEN Append(calls, c) ELSE calls
        /\ view.page \in Lists => /\ c \in Calls /\ ~c.orphan /\ ~Started(c)
                                  /\ c.do = "load" /\ c.by = by /\ c.choice = view'.filter
    BY <1>1, <2>1, SwitchQueue
  <2> QED BY <2>2, <2>3
<1>3. CASE view.page \in Lists /\ ~Closed(view.page, Claims')
  BY <1>1, <1>2, <1>3, LoadSentHolds
<1>4. CASE ~(view.page \in Lists /\ ~Closed(view.page, Claims'))
  <2>1. calls' = calls /\ Good
    BY <1>1, <1>2, <1>4 DEF Good
  <2>2. PICK a, b, V : Held(a, b, V)
    BY <2>1 DEF PageInv
  <2>3. Detail' = Detail /\ Closed(view.page, Claims)' = Closed(view.page, Claims')
    BY <1>1 DEF Detail, Closed
  <2>4. Fresh'
    BY <1>1, <1>4, <2>3 DEF Fresh
  <2>5. PartsTrue' <=> PartsTrue
    <3>1. \A x : PartTrue(x)' <=> PartTrue(x)
      BY <1>1 DEF PartTrue, Viewable, TrueRows, Body, Hung
    <3> QED BY <2>1, <2>3, <3>1 DEF PartsTrue
  <2>6. \A v : Truly(v) => Truly(v)'
    <3>1. \A i : Hung(item[i])' = Hung(item[i]) /\ TrueRows(i)' = TrueRows(i)
      BY <1>1 DEF Hung, TrueRows, Body
    <3> QED BY <1>1, <1>4, <2>3, <3>1 DEF Truly
  <2>7. Held(a, b, V)'
    BY <1>1, <2>1, <2>2, <2>3, <2>4, <2>5, <2>6 DEF Held
  <2> QED BY <2>7
<1> QED BY <1>3, <1>4

(* The user sets a filter, and the list is loaded for it. *)
LEMMA FilterHolds == ASSUME TypeInv, PageInv, NEW filter \in Filters, setFilter(filter)  PROVE PageInv'
<1> SUFFICES ASSUME Good'  PROVE (\E a, b, V : Held(a, b, V))'
  BY DEF PageInv
<1>1. UNCHANGED <<app, role, activeOrg, item, link, overtaken, failed, touched>>
  BY DEF setFilter, server, ghosts
<1>2. /\ view'.page = view.page /\ view'.filter = filter /\ Shows(view') = Shows(view)
      /\ view.page \in {"tickets", "audit"}
  BY FilterQueue DEF setFilter
<1>3. PICK c : /\ calls' = IF Closed(view.page, Claims) THEN calls ELSE Append(calls, c)
               /\ c \in Calls /\ ~c.orphan /\ ~Started(c)
               /\ c.do = "load" /\ c.by = Claims /\ c.choice = filter
  BY FilterQueue
<1>4. Claims' = Claims /\ Detail' = Detail /\ ~Detail
  BY <1>1, <1>2 DEF Claims, Detail
<1>5. CASE ~Closed(view.page, Claims)
  BY <1>1, <1>2, <1>3, <1>4, <1>5, LoadSentHolds
<1>6. CASE Closed(view.page, Claims)
  <2>1. calls' = calls /\ Good
    BY <1>1, <1>3, <1>6 DEF Good
  <2>2. PICK a, b, V : Held(a, b, V)
    BY <2>1 DEF PageInv
  <2>3. Closed(view.page, Claims)'
    BY <1>2, <1>4, <1>6 DEF Closed
  <2>4. Fresh' /\ PartsTrue' /\ \A v : Truly(v)'
    BY <1>4, <2>3 DEF Fresh, PartsTrue, Truly
  <2>5. Held(a, b, V)'
    BY <1>2, <1>4, <2>1, <2>2, <2>4 DEF Held
  <2> QED BY <2>5
<1> QED BY <1>5, <1>6

(* An answer that leaves the page undisturbed is the first to come. *)
LEMMA FirstReceived ==
    ASSUME TypeInv, NEW n \in DOMAIN calls, Receipt(n), Good'
    PROVE  /\ Good /\ \A k \in DOMAIN calls : k < n => calls[k].orphan
           /\ Rest(n) \in Seq(Calls) /\ Removed(calls, Rest(n), n)
           /\ LET c == Request(Load, Claims)
              IN  c \in Calls /\ ~c.orphan /\ ~Started(c) /\ c.do = "load"
<1>1. /\ Queue(calls, app, view) /\ calls \in Seq(Calls) /\ Len(calls) \in Nat
      /\ DOMAIN calls = 1..Len(calls) /\ n \in 1..Len(calls)
      /\ app \in {"support-hub", "review-console"} /\ Claims \in Bys
      /\ Fits(calls[n], app, view) /\ ~calls[n].orphan
  BY CallTyped, ClaimsTyped DEF TypeInv, Receipt
<1>2. PICK c : c = Request(Load, Claims)
  OBVIOUS
<1>3. c \in Calls /\ ~c.orphan /\ ~Started(c) /\ c.do = "load"
  <2>1. view' \in Views /\ ViewFits(view', app) /\ view'.page # "none"
    BY <1>1 DEF Receipt, Fits, DosOf
  <2> QED BY <1>1, <1>2, <2>1, LoadTyped
<1>4. /\ Rest(n) \in Seq(Calls) /\ Removed(calls, Rest(n), n)
      /\ DOMAIN Rest(n) = 1..(Len(calls) - 1)
      /\ \A k \in DOMAIN Rest(n) :
            Rest(n)[k].late = (k < n \/ calls[IF k < n THEN k ELSE k + 1].late)
  BY <1>1, RestFacts
<1>5. \A k \in DOMAIN Rest(n) : k \in DOMAIN calls' /\ calls'[k] = Rest(n)[k]
  <2>1. calls' = Rest(n) \/ calls' = Append(Rest(n), c)
    BY <1>2 DEF Receipt
  <2>2. \A k \in DOMAIN Rest(n) : k \in DOMAIN Append(Rest(n), c) /\ Append(Rest(n), c)[k] = Rest(n)[k]
    BY <1>3, <1>4, AppendFacts
  <2> QED BY <2>1, <2>2
<1>6. \A k \in DOMAIN Rest(n) : ~Rest(n)[k].orphan => ~Rest(n)[k].late
  BY <1>5 DEF Good
<1>7. \A k \in DOMAIN calls : k < n => calls[k].orphan
  <2> SUFFICES ASSUME NEW k \in DOMAIN calls, k < n  PROVE calls[k].orphan
    OBVIOUS
  <2>1. k \in DOMAIN Rest(n)
    BY <1>1, <1>4
  <2>2. Rest(n)[k].late /\ Rest(n)[k].orphan = calls[k].orphan
    BY <1>4, <2>1 DEF Removed, Same
  <2> QED BY <1>6, <2>1, <2>2
<1>8. Good
  <2>1. overtaken' = (overtaken \/ calls[n].late) /\ failed' = failed
    BY DEF Receipt
  <2>2. ~overtaken /\ ~calls[n].late /\ ~failed
    BY <2>1 DEF Good
  <2>3. ASSUME NEW k \in DOMAIN calls, ~calls[k].orphan, k # n  PROVE ~calls[k].late
    <3>1. k > n
      BY <1>1, <1>7, <2>3
    <3>2. k - 1 \in DOMAIN Rest(n) /\ ~(k - 1 < n) /\ (k - 1) + 1 = k
      BY <1>1, <1>4, <3>1
    <3>3. Rest(n)[k - 1].late = calls[k].late
      <4>1. Rest(n)[k - 1].late = (k - 1 < n \/ calls[IF k - 1 < n THEN k - 1 ELSE (k - 1) + 1].late)
        BY <1>4, <3>2
      <4>2. calls[k] \in Calls
        BY <1>1
      <4>3. calls[k].late \in BOOLEAN
        BY <4>2 DEF Calls
      <4> QED BY <3>2, <4>1, <4>3
    <3>4. Rest(n)[k - 1].orphan = calls[k].orphan
      BY <1>4, <3>2 DEF Removed, Same
    <3> QED BY <1>6, <2>3, <3>2, <3>3, <3>4
  <2> QED BY <2>2, <2>3 DEF Good
<1> QED BY <1>2, <1>3, <1>4, <1>7, <1>8

(* The parts of the other loads stay right when a request is gone. *)
LEMMA RemovedParts ==
    ASSUME TypeInv, NEW n \in DOMAIN calls, NEW q1 \in Seq(Calls), Removed(calls, q1, n),
           PartsTrue, Detail
    PROVE  \A k \in DOMAIN q1 : ~q1[k].orphan /\ q1[k].do = "load" /\ Open(q1[k], Detail) => PartTrue(q1[k])
<1> SUFFICES ASSUME NEW k \in DOMAIN q1, ~q1[k].orphan, q1[k].do = "load", Open(q1[k], Detail)
             PROVE  PartTrue(q1[k])
  OBVIOUS
<1>1. calls \in Seq(Calls) /\ k \in Nat /\ n \in Nat
  BY DEF TypeInv, Queue
<1>2. PICK m \in DOMAIN calls : Same(calls[m], q1[k])
  BY <1>1, RemovedAt
<1>3. ~calls[m].orphan /\ calls[m].do = "load" /\ Open(calls[m], Detail)
  BY <1>2, SameFacts DEF Same
<1>4. PartTrue(calls[m])
  BY <1>3 DEF PartsTrue
<1> QED BY <1>2, <1>4 DEF PartTrue, Same

(* The page handles an answer: if nothing was overtaken it is the first,   *)
(* and the rest of the chain is as before.                                 *)
LEMMA ReceiptHolds ==
    ASSUME TypeInv, PageInv, NEW n \in DOMAIN calls, Receipt(n), calls[n].do = "delete" => ~calls[n].answer.ok
    PROVE  PageInv'
<1> SUFFICES ASSUME Good'  PROVE (\E a, b, V : Held(a, b, V))'
  BY DEF PageInv
<1>1. PICK c, q1 :
         /\ c = Request(Load, Claims) /\ q1 = Rest(n)
         /\ Good /\ \A k \in DOMAIN calls : k < n => calls[k].orphan
         /\ q1 \in Seq(Calls) /\ Removed(calls, q1, n)
         /\ c \in Calls /\ ~c.orphan /\ ~Started(c) /\ c.do = "load"
  BY FirstReceived
<1>2. /\ ~calls[n].orphan /\ ~Open(calls[n], Detail)
      /\ calls \in Seq(Calls) /\ Fits(calls[n], app, view)
      /\ view'.page = view.page /\ view'.id = view.id /\ view'.filter = view.filter
      /\ UNCHANGED <<app, role, activeOrg, item, link, touched>>
      /\ Shows(view') = Applied(Shows(view), calls[n], Detail)
      /\ calls' = IF Reloads(calls[n], view.page) THEN Append(q1, c) ELSE q1
  BY <1>1 DEF Receipt, Open, Unserved, TypeInv, Queue
<1>3. PICK a, b, V : Held(a, b, V)
  BY <1>1 DEF PageInv
<1>4. InOrder(calls, Detail, a, b) /\ Chain(calls, Detail, Shows(view), a, b, V)
  BY <1>3 DEF Held
<1>5. n = a + 1 /\ b \in Nat /\ b >= 1
  <2>1. a \in Nat /\ b \in Nat /\ n \in Nat /\ n > a /\ ~(n > b) /\ DOMAIN calls = 1..Len(calls)
    BY <1>2, <1>4 DEF InOrder
  <2>2. ASSUME n > a + 1  PROVE FALSE
    <3>1. a + 1 \in DOMAIN calls /\ a + 1 < n
      BY <2>1, <2>2
    <3>2. calls[a + 1].orphan
      BY <1>1, <3>1
    <3> QED BY <1>4, <2>1, <3>1, <3>2 DEF InOrder
  <2> QED BY <2>1, <2>2
<1>6. PICK W : /\ InOrder(q1, Detail, a, b - 1)
               /\ Chain(q1, Detail, Shows(view'), a, b - 1, W)
               /\ W[b - 1] = V[b]
  <2>1. PICK W : W = [k \in Nat |-> V[k + 1]]
    OBVIOUS
  <2>2. InOrder(q1, Detail, a, b - 1) /\ Chain(q1, Detail, Shows(view'), a, b - 1, W)
    BY <1>1, <1>2, <1>4, <1>5, <2>1, FirstArrives
  <2>3. W[b - 1] = V[(b - 1) + 1] /\ (b - 1) + 1 = b
    BY <1>5, <2>1
  <2> QED BY <2>2, <2>3
<1>7. /\ Detail' = Detail /\ Claims' = Claims
      /\ \A v : Truly(v)' <=> Truly(v)
      /\ \A x : PartTrue(x)' <=> PartTrue(x)
  BY <1>2, TruthStays
<1>8. ASSUME PartsTrue, Detail
      PROVE  \A k \in DOMAIN q1 :
                ~q1[k].orphan /\ q1[k].do = "load" /\ Open(q1[k], Detail) => PartTrue(q1[k])
  BY <1>1, <1>8, RemovedParts
<1>9. CASE Reloads(calls[n], view.page)
  <2>1. calls' = Append(q1, c)
    BY <1>2, <1>9
  <2>2. InOrder(calls', Detail', a, b - 1) /\ Chain(calls', Detail', Shows(view'), a, b - 1, W)
    BY <1>1, <1>6, <1>7, <2>1, OneSent
  <2>3. view'.page \notin Lists
    BY <1>2, <1>9 DEF Reloads, Fits, DosOf, Lists
  <2>4. ASSUME PartsTrue  PROVE PartsTrue'
    <3>1. \A k \in DOMAIN calls' : (k \in DOMAIN q1 /\ calls'[k] = q1[k]) \/ calls'[k] = c
      <4>1. /\ calls'[Len(q1) + 1] = c
            /\ \A j \in DOMAIN q1 : calls'[j] = q1[j]
            /\ \A j \in DOMAIN calls' : j \in DOMAIN q1 \/ j = Len(q1) + 1
        BY <1>1, <2>1, AppendFacts
      <4> QED BY <4>1
    <3>2. PartTrue(c)
      BY <1>1 DEF Started, PartTrue
    <3> QED BY <1>7, <1>8, <2>4, <3>1, <3>2 DEF PartsTrue
  <2>5. PendingIn(calls', Detail', view'.page)
    BY <1>1, <2>1, SentFacts
  <2>6. Held(a, b - 1, W)'
    BY <1>2, <1>3, <2>2, <2>3, <2>4, <2>5 DEF Held, Fresh
  <2> QED BY <2>6
<1>10. CASE ~Reloads(calls[n], view.page)
  <2>1. calls' = q1
    BY <1>2, <1>10
  <2>2. Fresh'
    <3>1. FreshIn(calls, Claims, view.filter) => FreshIn(q1, Claims, view.filter)
      BY <1>1, <1>2, RemovedFresh
    <3> QED BY <1>2, <1>3, <1>7, <2>1, <3>1 DEF Held, Fresh, Closed
  <2>3. PartsTrue => PartsTrue'
    BY <1>7, <1>8, <2>1 DEF PartsTrue
  <2>4. PendingIn(calls, Detail, view.page) => PendingIn(q1, Detail, view.page)
    <3>1. ~BringsLoad(calls[n], Detail, view.page)
      BY <1>2, <1>10 DEF BringsLoad, WillLoad
    <3> QED BY <1>1, <1>2, <3>1, RemovedPending
  <2>5. Held(a, b - 1, W)'
    BY <1>2, <1>3, <1>6, <1>7, <2>1, <2>2, <2>3, <2>4 DEF Held
  <2> QED BY <2>5
<1> QED BY <1>9, <1>10

(* A write that was left behind is executed, and nobody hears of it. *)
LEMMA OrphanHolds ==
    ASSUME TypeInv, PageInv, NEW n \in DOMAIN calls, calls[n].orphan, calls' = RemoveAt(calls, n),
           UNCHANGED <<app, role, activeOrg, view, overtaken, failed>>,
           touched' = TRUE \/ (touched' = touched /\ UNCHANGED <<item, link>>)
    PROVE  PageInv'
<1> SUFFICES ASSUME Good'  PROVE (\E a, b, V : Held(a, b, V))'
  BY DEF PageInv
<1>1. /\ calls \in Seq(Calls) /\ n \in Nat
      /\ \A k \in DOMAIN calls : k < n => calls[k].orphan
  BY DEF TypeInv, Queue
<1>2. /\ calls' \in Seq(Calls) /\ Removed(calls, calls', n)
      /\ DOMAIN calls' = 1..(Len(calls) - 1)
      /\ \A k \in DOMAIN calls' : calls'[k] = calls[IF k < n THEN k ELSE k + 1]
  BY <1>1, RemovedFacts
<1>3. Good
  <2>1. ASSUME NEW k \in DOMAIN calls, ~calls[k].orphan  PROVE ~calls[k].late
    <3>1. k > n /\ DOMAIN calls = 1..Len(calls) /\ Len(calls) \in Nat
      BY <1>1, <2>1
    <3>2. k - 1 \in DOMAIN calls' /\ ~(k - 1 < n) /\ (k - 1) + 1 = k
      BY <1>1, <1>2, <3>1
    <3>3. calls'[k - 1] = calls[k]
      BY <1>2, <3>2
    <3> QED BY <2>1, <3>2, <3>3 DEF Good
  <2> QED BY <2>1 DEF Good
<1>4. PICK a, b, V : Held(a, b, V)
  BY <1>3 DEF PageInv
<1>5. InOrder(calls, Detail, a, b) /\ Chain(calls, Detail, Shows(view), a, b, V)
  BY <1>4 DEF Held
<1>6. a \in Nat /\ b \in Nat /\ b >= 1
  <2>1. DOMAIN calls = 1..Len(calls) /\ a \in 0..Len(calls) /\ b \in a..Len(calls) /\ n <= a /\ n >= 1
    BY <1>1, <1>5 DEF InOrder
  <2> QED BY <2>1
<1>7. PICK W : /\ InOrder(calls', Detail, a - 1, b - 1)
               /\ Chain(calls', Detail, Shows(view), a - 1, b - 1, W)
               /\ W[b - 1] = V[b]
  <2>1. PICK W : W = [k \in Nat |-> V[k + 1]]
    OBVIOUS
  <2>2. InOrder(calls', Detail, a - 1, b - 1) /\ Chain(calls', Detail, Shows(view), a - 1, b - 1, W)
    <3>1. PICK q1 : q1 = calls'
      OBVIOUS
    <3>2. q1 \in Seq(Calls) /\ Removed(calls, q1, n)
      BY <1>2, <3>1
    <3>3. InOrder(q1, Detail, a - 1, b - 1) /\ Chain(q1, Detail, Shows(view), a - 1, b - 1, W)
      BY <1>1, <1>5, <2>1, <3>2, OrphanGoes
    <3> QED BY <3>1, <3>3
  <2>3. W[b - 1] = V[(b - 1) + 1] /\ (b - 1) + 1 = b
    BY <1>6, <2>1
  <2> QED BY <2>2, <2>3
<1>8. Detail' = Detail /\ Claims' = Claims
  BY DEF Detail, Claims
<1>9. Fresh'
  <2>1. FreshIn(calls, Claims, view.filter) => FreshIn(calls', Claims, view.filter)
    BY <1>1, <1>2, RemovedFresh
  <2> QED BY <1>4, <1>8, <2>1 DEF Held, Fresh, Closed
<1>10. ASSUME touched' # TRUE, ~touched'
       PROVE  (PartsTrue /\ (PendingIn(calls, Detail, view.page) \/ Truly(V[b])))'
  <2>1. touched' = touched /\ UNCHANGED <<item, link>>
    BY <1>10
  <2>2. /\ \A v : Truly(v)' <=> Truly(v)
        /\ \A x : PartTrue(x)' <=> PartTrue(x)
    BY <2>1, TruthStays
  <2>3. PartsTrue => PartsTrue'
    BY <1>1, <1>2, <1>8, <2>2, RemovedParts DEF PartsTrue
  <2>4. PendingIn(calls, Detail, view.page) => PendingIn(calls', Detail, view.page)
    BY <1>1, <1>2, RemovedPending
  <2> QED BY <1>4, <1>8, <1>10, <2>1, <2>2, <2>3, <2>4 DEF Held
<1>11. ~touched' => (PartsTrue /\ (PendingIn(calls, Detail, view.page) \/ Truly(W[b - 1])))'
  BY <1>7, <1>10
<1>12. Held(a - 1, b - 1, W)'
  BY <1>7, <1>8, <1>9, <1>11 DEF Held
<1> QED BY <1>12

(* An answer, or a part of one, that leaves the page undisturbed is for    *)
(* the next request.                                                       *)
LEMMA NextServed ==
    ASSUME TypeInv, PageInv, Good', NEW n \in DOMAIN calls, ~calls[n].orphan, Unserved(calls[n]),
           NEW field \in {"answer", "extra"}, NEW ok, NEW body, [ok |-> ok, body |-> body] \in Answers,
           Answer(n, field, ok, body), overtaken' = overtaken, failed' = failed
    PROVE  /\ calls \in Seq(Calls) /\ calls' \in Seq(Calls) /\ Answered(calls, calls', n)
           /\ calls'[n][field] = [ok |-> ok, body |-> body]
           /\ field = "answer" => calls'[n].extra = calls[n].extra
           /\ field = "extra" => calls'[n].answer = calls[n].answer
           /\ \E a, b, V : Held(a, b, V) /\ n = b + 1
           /\ \A k \in DOMAIN calls' :
                 ~calls'[k].orphan /\ Open(calls'[k], Detail) => k = n \/ ~Started(calls'[k])
<1>1. calls \in Seq(Calls)
  BY DEF TypeInv, Queue
<1>2. /\ calls' \in Seq(Calls) /\ Answered(calls, calls', n)
      /\ calls'[n][field] = [ok |-> ok, body |-> body]
      /\ field = "answer" => calls'[n].extra = calls[n].extra
      /\ field = "extra" => calls'[n].answer = calls[n].answer
      /\ \A k \in DOMAIN calls : k < n /\ Unserved(calls[k]) => calls'[k].late
      /\ \A k \in DOMAIN calls : calls[k].late => calls'[k].late
  BY <1>1, AnswerFacts
<1>3. DOMAIN calls' = DOMAIN calls /\ \A k \in DOMAIN calls : calls'[k].orphan = calls[k].orphan
  BY <1>1, <1>2 DEF Answered, Same
<1>4. Good
  BY <1>2, <1>3 DEF Good
<1>5. PICK a, b, V : Held(a, b, V)
  BY <1>4 DEF PageInv
<1>6. InOrder(calls, Detail, a, b)
  BY <1>5 DEF Held
<1>7. \A k \in DOMAIN calls : Open(calls[k], Detail) <=> Unserved(calls[k])
  BY DEF Open, Unserved
<1>8. /\ DOMAIN calls = 1..Len(calls) /\ Len(calls) \in Nat
      /\ a \in Nat /\ b \in Nat /\ b >= a /\ n \in Nat /\ n > a /\ n > b
  <2>1. DOMAIN calls = 1..Len(calls) /\ Len(calls) \in Nat
    BY <1>1
  <2>2. a \in Nat /\ b \in Nat /\ b >= a /\ n \in Nat
    BY <1>6, <2>1 DEF InOrder
  <2>3. n > a
    BY <1>6, <2>2 DEF InOrder
  <2> QED BY <1>6, <1>7, <2>1, <2>2, <2>3 DEF InOrder
<1>9. n = b + 1
  <2> SUFFICES ASSUME n > b + 1  PROVE FALSE
    BY <1>8
  <2>1. b + 1 \in DOMAIN calls /\ b + 1 > a /\ b + 1 > b
    BY <1>8
  <2>2. ~calls[b + 1].orphan /\ Open(calls[b + 1], Detail)
    BY <1>6, <1>8, <2>1 DEF InOrder
  <2>3. calls'[b + 1].late /\ ~calls'[b + 1].orphan
    BY <1>2, <1>3, <1>7, <2>1, <2>2
  <2> QED BY <1>3, <2>1, <2>3 DEF Good
<1>10. ASSUME NEW k \in DOMAIN calls', ~calls'[k].orphan, Open(calls'[k], Detail), k # n
       PROVE  ~Started(calls'[k])
  <2>1. k \in DOMAIN calls /\ Same(calls[k], calls'[k])
    BY <1>2, <1>3, <1>10 DEF Answered
  <2>2. ~calls[k].orphan /\ Open(calls[k], Detail)
    BY <1>10, <2>1, SameFacts DEF Same
  <2>3. k \in Nat /\ k > a /\ k > b
    BY <1>6, <1>8, <2>1, <2>2 DEF InOrder
  <2>4. ~Started(calls[k])
    BY <1>6, <1>8, <1>9, <1>10, <2>1, <2>3 DEF InOrder
  <2> QED BY <2>1, <2>4, SameFacts
<1> QED BY <1>1, <1>2, <1>5, <1>9, <1>10

(* The first part of the answer of a detail page's load. *)
LEMMA PartHolds ==
    ASSUME TypeInv, PageInv, Good', NEW n \in DOMAIN calls, ~calls[n].orphan, Unserved(calls[n]),
           NEW field \in {"answer", "extra"}, NEW ok, NEW body, [ok |-> ok, body |-> body] \in Answers,
           Answer(n, field, ok, body),
           UNCHANGED <<app, role, activeOrg, view, item, link, overtaken, failed>>,
           Open(calls'[n], Detail), calls[n].do = "load", PartTrue(calls'[n])
    PROVE  (\E a, b, V : Held(a, b, V))'
<1>1. /\ calls \in Seq(Calls) /\ calls' \in Seq(Calls) /\ Answered(calls, calls', n)
      /\ \A k \in DOMAIN calls' :
            ~calls'[k].orphan /\ Open(calls'[k], Detail) => k = n \/ ~Started(calls'[k])
  BY NextServed
<1>2. PICK a, b, V : Held(a, b, V) /\ n = b + 1
  BY NextServed
<1>3. /\ Detail' = Detail /\ Claims' = Claims
      /\ \A x : PartTrue(x)' <=> PartTrue(x)
  BY TruthStays
<1>4. InOrder(calls', Detail, a, b) /\ Chain(calls', Detail, Shows(view), a, b, V)
  <2>1. PICK q1 : q1 = calls'
    OBVIOUS
  <2>2. /\ q1 \in Seq(Calls) /\ Answered(calls, q1, b + 1) /\ Open(q1[b + 1], Detail) /\ b + 1 \in DOMAIN calls
        /\ InOrder(calls, Detail, a, b) /\ Chain(calls, Detail, Shows(view), a, b, V)
    BY <1>1, <1>2, <2>1 DEF Held
  <2>3. InOrder(q1, Detail, a, b) /\ Chain(q1, Detail, Shows(view), a, b, V)
    BY <1>1, <2>2, NextStarted
  <2> QED BY <2>1, <2>3
<1>5. Fresh'
  <2>1. FreshIn(calls, Claims, view.filter) => FreshIn(calls', Claims, view.filter)
    BY <1>1, AnsweredFacts
  <2> QED BY <1>2, <1>3, <2>1 DEF Held, Fresh, Closed
<1>6. PartsTrue'
  <2>1. \A x : ~Started(x) => PartTrue(x)
    BY DEF Started, PartTrue
  <2> QED BY <1>1, <1>3, <2>1 DEF PartsTrue
<1>7. PendingIn(calls', Detail, view.page)
  <2>1. n \in DOMAIN calls' /\ calls'[n].do = "load" /\ ~calls'[n].orphan
    BY <1>1 DEF Answered
  <2> QED BY <2>1 DEF PendingIn, BringsLoad
<1>8. Held(a, b, V)'
  BY <1>3, <1>4, <1>5, <1>6, <1>7 DEF Held
<1> QED BY <1>8

(* The whole answer, or the rest of it. *)
LEMMA AnsweredHolds ==
    ASSUME TypeInv, PageInv, Good', NEW n \in DOMAIN calls, ~calls[n].orphan, Unserved(calls[n]),
           NEW field \in {"answer", "extra"}, NEW ok, NEW body, [ok |-> ok, body |-> body] \in Answers,
           Answer(n, field, ok, body),
           UNCHANGED <<app, role, activeOrg, view, overtaken, failed>>,
           ~Open(calls'[n], Detail),
           \A a, b, V, v :
              Held(a, b, V) /\ n = b + 1 /\ InOrder(calls', Detail, a, b + 1)
                /\ v = Applied(V[b], calls'[n], Detail) /\ ~touched' =>
                   PendingIn(calls', Detail, view.page) \/ Truly(v)'
    PROVE  (\E a, b, V : Held(a, b, V))'
<1>1. /\ calls \in Seq(Calls) /\ calls' \in Seq(Calls) /\ Answered(calls, calls', n)
      /\ \A k \in DOMAIN calls' :
            ~calls'[k].orphan /\ Open(calls'[k], Detail) => k = n \/ ~Started(calls'[k])
  BY NextServed
<1>2. PICK a, b, V : Held(a, b, V) /\ n = b + 1
  BY NextServed
<1>3. Detail' = Detail /\ Claims' = Claims
  BY DEF Detail, Claims
<1>4. PICK W : /\ InOrder(calls', Detail, a, b + 1) /\ Chain(calls', Detail, Shows(view), a, b + 1, W)
               /\ W[b + 1] = Applied(V[b], calls'[n], Detail)
  <2>1. PICK q1 : q1 = calls'
    OBVIOUS
  <2>2. /\ q1 \in Seq(Calls) /\ Answered(calls, q1, b + 1) /\ ~Open(q1[b + 1], Detail) /\ b + 1 \in DOMAIN calls
        /\ InOrder(calls, Detail, a, b) /\ Chain(calls, Detail, Shows(view), a, b, V)
    BY <1>1, <1>2, <2>1 DEF Held
  <2>3. PICK W : /\ InOrder(q1, Detail, a, b + 1) /\ Chain(q1, Detail, Shows(view), a, b + 1, W)
                 /\ W[b + 1] = Applied(V[b], q1[b + 1], Detail)
    BY <1>1, <2>2, NextAnswered
  <2> QED BY <1>2, <2>1, <2>3
<1>5. Fresh'
  <2>1. FreshIn(calls, Claims, view.filter) => FreshIn(calls', Claims, view.filter)
    BY <1>1, AnsweredFacts
  <2> QED BY <1>2, <1>3, <2>1 DEF Held, Fresh, Closed
<1>6. PartsTrue'
  <2>1. \A k \in DOMAIN calls' :
           ~calls'[k].orphan /\ Open(calls'[k], Detail) => calls'[k].answer = NoAnswer /\ calls'[k].extra = NoAnswer
    BY <1>1 DEF Started
  <2> QED BY <1>3, <2>1 DEF PartsTrue, PartTrue
<1>7. ~touched' => PendingIn(calls', Detail, view.page) \/ Truly(W[b + 1])'
  <2>1. PICK v : v = W[b + 1]
    OBVIOUS
  <2>2. ~touched' => PendingIn(calls', Detail, view.page) \/ Truly(v)'
    BY <1>2, <1>4, <2>1
  <2> QED BY <2>1, <2>2 DEF Truly, ShownOf
<1>8. Held(a, b + 1, W)'
  BY <1>3, <1>4, <1>5, <1>6, <1>7 DEF Held
<1> QED BY <1>8

(* On a list, the next request is the user's, or a load is to come. *)
LEMMA FreshNext ==
    ASSUME TypeInv, NEW a, NEW b, NEW V, Held(a, b, V), NEW n \in DOMAIN calls, n = b + 1, ~calls[n].orphan,
           Answered(calls, calls', n), calls' \in Seq(Calls), InOrder(calls', Detail, a, b + 1),
           view.page \in Lists, ~Closed(view.page, Claims), ~PendingIn(calls', Detail, view.page)
    PROVE  calls[n].by = Claims /\ (calls[n].do = "load" => calls[n].choice = view.filter)
<1>1. FreshIn(calls, Claims, view.filter)
  BY DEF Held, Fresh
<1>2. ASSUME NEW m \in DOMAIN calls, m > n, calls[m].do = "load"  PROVE FALSE
  <2>1. m \in DOMAIN calls' /\ calls'[m].do = "load" /\ m > b + 1
    BY <1>2 DEF TypeInv, Queue, Answered, Same
  <2> QED BY <2>1, LaterLoad
<1> QED BY <1>1, <1>2 DEF FreshIn

-----------------------------------------------------------------------------
(* The services answer a load.                                             *)

(* A list that was just loaded is shown as it was answered. *)
LEMMA ShownListed ==
    ASSUME NEW by, NEW v, v.created = {}, v.listed = Listed(view.page, by, view.filter), view.page \in Lists
    PROVE  ShownOf(v) = Listed(view.page, by, view.filter)
BY DEF ShownOf

(* The services answer a load of a list. *)
LEMMA ListHolds == ASSUME TypeInv, PageInv, NEW n \in DOMAIN calls, ServeList(n)  PROVE PageInv'
<1> SUFFICES ASSUME Good'  PROVE (\E a, b, V : Held(a, b, V))'
  BY DEF PageInv
<1>1. PICK c, body : c = calls[n] /\ body = Listed(view.page, c.by, c.choice)
  OBVIOUS
<1>2. /\ ~Detail /\ c.do = "load" /\ c.answer = NoAnswer /\ Answer(n, "answer", TRUE, body)
      /\ UNCHANGED <<app, role, activeOrg, item, link, view, overtaken, failed>>
  BY <1>1 DEF ServeList, Served, server
<1>3. /\ app \in {"support-hub", "review-console"} /\ ServerTyped /\ view.page \in PagesOf(app) \cup {"none"}
      /\ c.by \in Bys /\ Fits(c, app, view)
  BY <1>1, CallTyped DEF ViewFits
<1>4. ~c.orphan /\ view.page \in Lists /\ c.choice \in Filters
  BY <1>2, <1>3 DEF Fits, DosOf, ChosenOf, PagesOf, Lists, Detail
<1>5. [ok |-> TRUE, body |-> body] \in Answers
  <2>1. body \in SUBSET ListRows
    BY <1>1, <1>3, <1>4, ListedTyped
  <2> QED BY <2>1 DEF Answers
<1>6. Unserved(calls[n])
  BY <1>1, <1>2 DEF Unserved
<1>7. "answer" \in {"answer", "extra"}
  OBVIOUS
<1>8. /\ Answered(calls, calls', n) /\ calls' \in Seq(Calls)
      /\ calls'[n].answer = [ok |-> TRUE, body |-> body]
  <2>1. ~calls[n].orphan /\ overtaken' = overtaken /\ failed' = failed
    BY <1>1, <1>2, <1>4
  <2>2. PICK field, ok : field = "answer" /\ ok = TRUE
    OBVIOUS
  <2>3. /\ field \in {"answer", "extra"} /\ [ok |-> ok, body |-> body] \in Answers
        /\ Answer(n, field, ok, body) /\ Unserved(calls[n])
    BY <1>2, <1>5, <1>6, <2>2
  <2>4. /\ calls' \in Seq(Calls) /\ Answered(calls, calls', n)
        /\ calls'[n][field] = [ok |-> ok, body |-> body]
    BY <2>1, <2>3, NextServed
  <2> QED BY <2>2, <2>4
<1>9. ~Open(calls'[n], Detail)
  BY <1>2, <1>5, <1>8, NothingAssumption DEF Open
<1>10. ASSUME NEW a, NEW b, NEW V, NEW v, Held(a, b, V), n = b + 1, InOrder(calls', Detail, a, b + 1),
              v = Applied(V[b], calls'[n], Detail)
       PROVE  PendingIn(calls', Detail, view.page) \/ Truly(v)'
  <2>1. v.listed = body /\ v.created = {}
    BY <1>1, <1>2, <1>8, <1>10 DEF Applied, Answered
  <2>2. Truly(v)' <=> Truly(v)
    BY <1>2, TruthStays
  <2>3. CASE Closed(view.page, Claims)
    BY <1>2, <2>2, <2>3 DEF Truly
  <2>4. CASE ~Closed(view.page, Claims) /\ ~PendingIn(calls', Detail, view.page)
    <3>1. c.by = Claims /\ c.choice = view.filter
      BY <1>1, <1>2, <1>4, <1>8, <1>10, <2>4, FreshNext
    <3>2. ShownOf(v) = Listed(view.page, Claims, view.filter)
      BY <1>1, <1>4, <2>1, <3>1, ShownListed
    <3> QED BY <1>2, <2>2, <3>2 DEF Truly
  <2> QED BY <2>3, <2>4
<1> QED BY <1>1, <1>2, <1>4, <1>5, <1>6, <1>7, <1>9, <1>10, AnsweredHolds

(* What the load of a detail page brings. *)
LEMMA DetailFacts ==
    ASSUME TypeInv, NEW n \in DOMAIN calls, Detail, calls[n].do = "load"
    PROVE  LET c == calls[n]
               ok == Viewable(c.by, c.id)
               row == Body(item[c.id], IF app = "support-hub" THEN Unknown ELSE item[c.id].reviewers)
           IN  /\ ~c.orphan /\ c.id = view.id /\ ok \in BOOLEAN
               /\ ok => item[c.id] # Absent
               /\ ok => row \in TrueRows(c.id)
               /\ [ok |-> ok, body |-> IF ok THEN row ELSE Absent] \in Answers
               /\ [ok |-> ok, body |-> IF ok THEN Hung(item[c.id]) ELSE 0] \in Answers
<1> DEFINE c == calls[n]
           ok == Viewable(c.by, c.id)
           rs == IF app = "support-hub" THEN Unknown ELSE item[c.id].reviewers
           row == Body(item[c.id], rs)
<1>1. /\ app \in {"support-hub", "review-console"} /\ ServerTyped
      /\ c \in Calls /\ Fits(c, app, view) /\ c.id \in Ids
  BY CallTyped
<1>2. ~c.orphan /\ c.id = view.id
  BY <1>1 DEF Fits
<1>3. ok \in BOOLEAN /\ (ok => item[c.id] # Absent)
  BY DEF Viewable
<1>4. ok => item[c.id] \in Items(app)
  BY <1>1, <1>3 DEF ServerTyped
<1>5. ok => rs \in {Unknown} \cup SUBSET Users
  BY <1>1, <1>4 DEF Items, PRs
<1>6. ok => row \in DetailRows /\ Hung(item[c.id]) \in Nat
  BY <1>1, <1>4, <1>5, BodyTyped
<1>7. row \in TrueRows(c.id)
  BY <1>1 DEF TrueRows
<1> HIDE DEF row, ok
<1>8. [ok |-> ok, body |-> IF ok THEN row ELSE Absent] \in Answers
  <2>1. (IF ok THEN row ELSE Absent) \in DetailRows
    BY <1>6 DEF DetailRows
  <2> QED BY <1>3, <2>1 DEF Answers
<1>9. [ok |-> ok, body |-> IF ok THEN Hung(item[c.id]) ELSE 0] \in Answers
  <2>1. (IF ok THEN Hung(item[c.id]) ELSE 0) \in Nat
    BY <1>6
  <2> QED BY <1>3, <2>1 DEF Answers
<1> QED BY <1>2, <1>3, <1>7, <1>8, <1>9 DEF row, ok

(* The services answer one of the two parts of a load of a detail page. *)
LEMMA DetailHolds ==
    ASSUME TypeInv, PageInv, NEW n \in DOMAIN calls, ServeGet(n) \/ ServeExtra(n)
    PROVE  PageInv'
<1> SUFFICES ASSUME Good'  PROVE (\E a, b, V : Held(a, b, V))'
  BY DEF PageInv
<1>1. PICK c, ok, row :
         /\ c = calls[n] /\ ok = Viewable(c.by, c.id)
         /\ row = Body(item[c.id], IF app = "support-hub" THEN Unknown ELSE item[c.id].reviewers)
  OBVIOUS
<1>2. Detail /\ c.do = "load"
  BY <1>1 DEF ServeGet, ServeExtra, Served
<1>3. /\ ~c.orphan /\ c.id = view.id /\ ok \in BOOLEAN
      /\ ok => item[c.id] # Absent
      /\ ok => row \in TrueRows(c.id)
      /\ [ok |-> ok, body |-> IF ok THEN row ELSE Absent] \in Answers
      /\ [ok |-> ok, body |-> IF ok THEN Hung(item[c.id]) ELSE 0] \in Answers
  BY <1>1, <1>2, DetailFacts
<1>4. PICK field, body :
         /\ field \in {"answer", "extra"}
         /\ Served(n, field) /\ Answer(n, field, ok, body)
         /\ body = IF field = "answer" THEN (IF ok THEN row ELSE Absent) ELSE (IF ok THEN Hung(item[c.id]) ELSE 0)
  <2>1. CASE ServeGet(n)
    BY <1>1, <2>1 DEF ServeGet
  <2>2. CASE ServeExtra(n)
    BY <1>1, <2>2 DEF ServeExtra
  <2> QED BY <2>1, <2>2
<1>5. /\ calls[n][field] = NoAnswer
      /\ touched' = (touched /\ ~(calls[n].answer = NoAnswer /\ calls[n].extra = NoAnswer))
      /\ UNCHANGED <<app, role, activeOrg, item, link, view, overtaken, failed>>
  BY <1>4 DEF Served, server
<1>6. [ok |-> ok, body |-> body] \in Answers /\ ~calls[n].orphan /\ calls[n].do = "load"
  BY <1>1, <1>2, <1>3, <1>4
<1>7. Unserved(calls[n])
  BY <1>2, <1>4, <1>5, <1>6 DEF Unserved
<1>8. /\ Answered(calls, calls', n) /\ calls' \in Seq(Calls)
      /\ calls'[n][field] = [ok |-> ok, body |-> body]
      /\ field = "answer" => calls'[n].extra = calls[n].extra
      /\ field = "extra" => calls'[n].answer = calls[n].answer
  BY <1>4, <1>5, <1>6, <1>7, NextServed
<1>9. /\ calls'[n].do = "load" /\ calls'[n].by = c.by /\ calls'[n].id = c.id
      /\ calls'[n][field] # NoAnswer
  BY <1>1, <1>2, <1>6, <1>8, NothingAssumption DEF Answered
<1>10. CASE calls[n].answer = NoAnswer /\ calls[n].extra = NoAnswer
  <2>1. PartTrue(calls'[n])
    <3>1. CASE field = "answer"
      BY <1>1, <1>3, <1>4, <1>8, <1>9, <1>10, <3>1 DEF PartTrue
    <3>2. CASE field = "extra"
      BY <1>1, <1>3, <1>4, <1>8, <1>9, <1>10, <3>2 DEF PartTrue
    <3> QED BY <1>4, <3>1, <3>2
  <2>2. Open(calls'[n], Detail)
    BY <1>2, <1>4, <1>8, <1>9, <1>10 DEF Open
  <2> QED BY <1>4, <1>5, <1>6, <1>7, <2>1, <2>2, PartHolds
<1>11. CASE ~(calls[n].answer = NoAnswer /\ calls[n].extra = NoAnswer)
  <2>1. ~Open(calls'[n], Detail)
    BY <1>4, <1>5, <1>8, <1>9, <1>11 DEF Open
  <2>2. ASSUME NEW a, NEW b, NEW V, NEW v, Held(a, b, V), n = b + 1, v = Applied(V[b], calls'[n], Detail), ~touched'
        PROVE  Truly(v)'
    <3>1. ~touched
      BY <1>5, <1>11, <2>2
    <3>2. PartTrue(c)
      <4>1. PartsTrue
        BY <2>2, <3>1 DEF Held
      <4>2. Open(calls[n], Detail)
        BY <1>7 DEF Open, Unserved
      <4> QED BY <1>1, <1>2, <1>6, <4>1, <4>2 DEF PartsTrue
    <3>3. /\ calls'[n].answer.ok <=> ok
          /\ calls'[n].extra.ok <=> ok
          /\ ok => calls'[n].answer.body \in TrueRows(c.id)
          /\ ok => calls'[n].extra.body = Hung(item[c.id])
      <4>1. CASE field = "answer"
        BY <1>1, <1>3, <1>4, <1>5, <1>8, <1>11, <3>2, <4>1 DEF PartTrue
      <4>2. CASE field = "extra"
        BY <1>1, <1>3, <1>4, <1>5, <1>8, <1>11, <3>2, <4>2 DEF PartTrue
      <4> QED BY <1>4, <4>1, <4>2
    <3>4. CASE ok
      <4>1. v.row = calls'[n].answer.body /\ v.extra = calls'[n].extra.body
        BY <1>2, <1>9, <2>2, <3>3, <3>4 DEF Applied
      <4>2. item[view.id] # Absent /\ v.row \in TrueRows(view.id) /\ v.extra = Hung(item[view.id])
        BY <1>3, <3>3, <3>4, <4>1
      <4> QED BY <1>2, <1>5, <4>2, TruthStays DEF Truly, Detail, Lists
    <3>5. CASE ~ok
      <4>1. v.missing
        BY <1>2, <1>9, <2>2, <3>3, <3>5 DEF Applied
      <4> QED BY <1>2, <1>5, <4>1, TruthStays DEF Truly, Detail, Lists
    <3> QED BY <3>4, <3>5
  <2>3. UNCHANGED <<app, role, activeOrg, view, overtaken, failed>>
    BY <1>5
  <2> QED BY <1>4, <1>6, <1>7, <2>1, <2>2, <2>3, AnsweredHolds
<1> QED BY <1>10, <1>11

-----------------------------------------------------------------------------
(* The services execute a write.                                           *)

(* What a page will show stays right if the write changes it as it changes *)
(* the tables.                                                             *)
LEMMA WrittenHolds ==
    ASSUME TypeInv, PageInv, NEW n \in DOMAIN calls, NEW ok \in BOOLEAN, NEW body, Written(n, ok, body),
           calls[n].do # "load", calls[n].answer = NoAnswer, body \in ListRows \cup DetailRows,
           UNCHANGED <<app, role, activeOrg, view, overtaken, failed>>,
           ~ok => UNCHANGED <<item, link>>,
           \A a, b, V, v :
              Held(a, b, V) /\ n = b + 1 /\ InOrder(calls', Detail, a, b + 1) /\ ~calls[n].orphan
                /\ Answered(calls, calls', n) /\ calls' \in Seq(Calls)
                /\ calls'[n].answer = [ok |-> ok, body |-> body]
                /\ v = Applied(V[b], calls'[n], Detail)
                /\ ~PendingIn(calls', Detail, view.page) /\ Truly(V[b]) => Truly(v)'
    PROVE  PageInv'
<1>1. CASE calls[n].orphan
  <2>1. calls' = RemoveAt(calls, n) /\ touched' = (touched \/ ok) /\ touched \in BOOLEAN
    BY <1>1 DEF Written, TypeInv, GhostsTyped
  <2>2. touched' = TRUE \/ (touched' = touched /\ UNCHANGED <<item, link>>)
    BY <2>1
  <2> QED BY <1>1, <2>1, <2>2, OrphanHolds
<1>2. CASE ~calls[n].orphan
  <2> SUFFICES ASSUME Good'  PROVE (\E a, b, V : Held(a, b, V))'
    BY DEF PageInv
  <2>1. Answer(n, "answer", ok, body) /\ touched' = touched
    BY <1>2 DEF Written
  <2>2. [ok |-> ok, body |-> body] \in Answers
    <3>1. body \in Nat \cup ListRows \cup (SUBSET ListRows) \cup DetailRows
      OBVIOUS
    <3> QED BY <3>1 DEF Answers
  <2>3. Unserved(calls[n]) /\ "answer" \in {"answer", "extra"}
    BY DEF Unserved
  <2>4. /\ Answered(calls, calls', n) /\ calls \in Seq(Calls) /\ calls' \in Seq(Calls)
        /\ calls'[n].answer = [ok |-> ok, body |-> body]
    BY <1>2, <2>1, <2>2, <2>3, NextServed
  <2>5. ~Open(calls'[n], Detail)
    BY <2>2, <2>4, NothingAssumption DEF Open, Answered
  <2>6. ASSUME NEW a, NEW b, NEW V, NEW v, Held(a, b, V), n = b + 1, InOrder(calls', Detail, a, b + 1),
               v = Applied(V[b], calls'[n], Detail), ~touched'
        PROVE  PendingIn(calls', Detail, view.page) \/ Truly(v)'
    <3>1. PendingIn(calls, Detail, view.page) \/ Truly(V[b])
      BY <2>1, <2>6 DEF Held
    <3>2. ~BringsLoad(calls[n], Detail, view.page)
      BY DEF BringsLoad, WillLoad
    <3>3. PendingIn(calls, Detail, view.page) => PendingIn(calls', Detail, view.page)
      BY <2>4, <3>2, AnsweredFacts
    <3> QED BY <1>2, <2>4, <2>6, <3>1, <3>3
  <2> QED BY <1>2, <2>1, <2>2, <2>3, <2>5, <2>6, AnsweredHolds
<1> QED BY <1>1, <1>2

(* A write that is refused changes neither side. *)
LEMMA RefuseHolds == ASSUME TypeInv, PageInv, NEW n \in DOMAIN calls, Refuse(n)  PROVE PageInv'
<1>1. /\ Written(n, FALSE, Absent) /\ calls[n].do # "load" /\ calls[n].answer = NoAnswer
      /\ UNCHANGED <<app, role, activeOrg, item, link, view, overtaken, failed>>
  BY DEF Refuse, Write, server
<1>2. Absent \in ListRows \cup DetailRows
  BY DEF DetailRows
<1>3. ASSUME NEW a, NEW b, NEW V, NEW v, Answered(calls, calls', n),
             calls'[n].answer = [ok |-> FALSE, body |-> Absent],
             v = Applied(V[b], calls'[n], Detail), Truly(V[b])
      PROVE  Truly(v)'
  <2>1. calls'[n].do # "load" /\ calls'[n].answer.ok = FALSE
    BY <1>1, <1>3 DEF Answered
  <2>2. /\ v.listed = V[b].listed /\ v.created = V[b].created /\ v.row = V[b].row
        /\ v.extra = V[b].extra /\ v.missing = (V[b].missing \/ FALSE)
    BY <1>3, <2>1 DEF Applied
  <2>3. Truly(v)
    BY <1>3, <2>2 DEF Truly, ShownOf
  <2> QED BY <1>1, <2>3, TruthStays
<1>4. FALSE \in BOOLEAN /\ UNCHANGED <<app, role, activeOrg, view, overtaken, failed>>
  BY <1>1
<1> QED BY <1>1, <1>2, <1>3, <1>4, WrittenHolds

(* The row of a new ticket in a list that is filtered. *)
NewIn(row, filter) == {r \in {row} : filter # "" => r.status = filter}

(* Somebody with these claims creates the row x, which is listed as body. *)
Created(x, by, body) ==
    \E i \in Ids :
       /\ item \in [Ids -> {Absent} \cup Items(app)] /\ item[i] = Absent /\ x # Absent
       /\ item' = [item EXCEPT ![i] = x] /\ app' = app
       /\ x.org = by.org /\ (app = "support-hub" \/ by.role \in {OA, REV})
       /\ body = [id |-> i, org |-> x.org, status |-> x.status]

(* A new row is listed with the others. *)
LEMMA ListedMore ==
    ASSUME NEW x, NEW by, NEW filter, NEW body, Created(x, by, body)
    PROVE  /\ listTickets(by, filter)' = listTickets(by, filter) \cup NewIn(body, filter)
           /\ listPRs(by)' = listPRs(by) \cup {body}
<1>0. PICK i \in Ids :
         /\ item \in [Ids -> {Absent} \cup Items(app)] /\ item[i] = Absent /\ x # Absent
         /\ item' = [item EXCEPT ![i] = x] /\ app' = app
         /\ x.org = by.org /\ (app = "support-hub" \/ by.role \in {OA, REV})
         /\ body = [id |-> i, org |-> x.org, status |-> x.status]
  BY DEF Created
<1>1. item'[i] = x /\ \A j \in Ids : j # i => item'[j] = item[j]
  BY <1>0
<1>2. \A j \in Ids : j # i => Row(j)' = Row(j) /\ (Viewable(by, j)' <=> Viewable(by, j))
  BY <1>0, <1>1 DEF Row, Viewable
<1>3. /\ ~Viewable(by, i) /\ Viewable(by, i)'
      /\ Row(i)' = body /\ body.status = item'[i].status
  <2>1. ~Viewable(by, i)
    BY <1>0 DEF Viewable
  <2>2. Viewable(by, i)'
    BY <1>0, <1>1 DEF Viewable
  <2>3. Row(i)' = body /\ body.status = item'[i].status
    BY <1>0, <1>1 DEF Row
  <2> QED BY <2>1, <2>2, <2>3
<1> DEFINE In(j) == Viewable(by, j) /\ (filter = "" \/ item[j].status = filter)
           In1(j) == Viewable(by, j)' /\ (filter = "" \/ item'[j].status = filter)
<1>4. \A j \in Ids : In1(j) <=> (In(j) \/ (j = i /\ (filter # "" => body.status = filter)))
  BY <1>1, <1>2, <1>3
<1>5. listTickets(by, filter) = {Row(j) : j \in {j \in Ids : In(j)}}
  BY DEF listTickets
<1>6. listTickets(by, filter)' = {Row(j)' : j \in {j \in Ids : In1(j)}}
  BY DEF listTickets
<1>7. \A j \in Ids : In(j) => j # i
  BY <1>3
<1> HIDE DEF In, In1
<1>8. listTickets(by, filter)' = listTickets(by, filter) \cup NewIn(body, filter)
  BY <1>2, <1>3, <1>4, <1>5, <1>6, <1>7 DEF NewIn
<1>9. listPRs(by)' = listPRs(by) \cup {body}
  <2>1. listPRs(by) = {Row(j) : j \in {j \in Ids : Viewable(by, j)}}
    BY DEF listPRs
  <2>2. listPRs(by)' = {Row(j)' : j \in {j \in Ids : Viewable(by, j)'}}
    BY DEF listPRs
  <2>3. \A j \in Ids : Viewable(by, j)' <=> (Viewable(by, j) \/ j = i)
    BY <1>2, <1>3
  <2>4. \A j \in Ids : Viewable(by, j) => j # i
    BY <1>3
  <2> QED BY <1>2, <1>3, <2>1, <2>2, <2>3, <2>4
<1> QED BY <1>8, <1>9

(* A ticket or pull request that is created is added to the list of both   *)
(* sides.                                                                  *)
LEMMA CreateHolds == ASSUME TypeInv, PageInv, NEW n \in DOMAIN calls, ServeCreate(n)  PROVE PageInv'
<1>1. PICK c : c = calls[n]
  OBVIOUS
<1>2. /\ app \in {"support-hub", "review-console"} /\ item \in [Ids -> {Absent} \cup Items(app)]
      /\ c \in Calls /\ Fits(c, app, view) /\ c.do = "create" /\ c.answer = NoAnswer /\ c.by.org \in Orgs
      /\ UNCHANGED <<app, role, activeOrg, link, view, overtaken, failed>>
      /\ Accepts(c.by, c.id, c) /\ ViewFits(view, app)
  BY <1>1, CallTyped DEF ServerTyped, ServeCreate, Accepted
<1>3. PICK i, body :
         /\ i \in Ids
         /\ item[i] = Absent
         /\ item' = [item EXCEPT ![i] = New(c.by.org)]
         /\ body = [id |-> i, org |-> item'[i].org, status |-> item'[i].status]
         /\ Written(n, TRUE, body)
  BY <1>1 DEF ServeCreate
<1>4. New(c.by.org) \in Items(app) /\ New(c.by.org) # Absent
  <2>1. New(c.by.org) \in Items(app)
    BY <1>2, NewTyped
  <2> QED BY <2>1, NothingAssumption DEF Items
<1>5. item'[i] = New(c.by.org) /\ New(c.by.org).org = c.by.org
      /\ New(c.by.org).org \in Orgs /\ New(c.by.org).status \in TicketStatus \cup PRStatus
  <2>1. item'[i] = New(c.by.org)
    BY <1>2, <1>3
  <2>2. New(c.by.org).org = c.by.org
    BY DEF New, NewTicket, NewPR
  <2>3. New(c.by.org) \in Tickets \cup PRs
    BY <1>4 DEF Items
  <2>4. New(c.by.org).org \in Orgs /\ New(c.by.org).status \in TicketStatus \cup PRStatus
    BY <2>3 DEF Tickets, PRs
  <2> QED BY <2>1, <2>2, <2>4
<1>6. body \in ListRows \cup DetailRows
  BY <1>3, <1>5 DEF ListRows
<1>7. app = "support-hub" \/ c.by.role \in {OA, REV}
  BY <1>2 DEF Accepts, postPR, requireRole
<1>8. ASSUME NEW a, NEW b, NEW V, NEW v, Held(a, b, V), n = b + 1, InOrder(calls', Detail, a, b + 1),
             ~calls[n].orphan, Answered(calls, calls', n), calls' \in Seq(Calls),
             calls'[n].answer = [ok |-> TRUE, body |-> body], v = Applied(V[b], calls'[n], Detail),
             ~PendingIn(calls', Detail, view.page), Truly(V[b])
      PROVE  Truly(v)'
  <2>1. view.page \in {"tickets", "prs"}
    BY <1>1, <1>2, <1>8 DEF Fits, DosOf
  <2>2. view.page \in Lists /\ ~Detail /\ ~Closed(view.page, Claims)
    BY <2>1 DEF Lists, Detail, Closed
  <2>3. c.by = Claims
    BY <1>1, <1>8, <2>2, FreshNext
  <2>4. v.listed = V[b].listed /\ v.created = V[b].created \cup {body}
    <3>1. calls'[n].do = "create" /\ calls'[n].answer.ok /\ calls'[n].answer.body = body
      BY <1>1, <1>2, <1>8 DEF Answered
    <3> QED BY <1>8, <3>1 DEF Applied
  <2>5. ShownOf(v) = ShownOf(V[b]) \cup (IF view.page = "tickets" THEN NewIn(body, view.filter) ELSE {body})
    BY <2>4 DEF ShownOf, NewIn
  <2>6. ShownOf(V[b]) = Listed(view.page, Claims, view.filter)
    BY <1>8, <2>2 DEF Truly
  <2>7. /\ listTickets(Claims, view.filter)' = listTickets(Claims, view.filter) \cup NewIn(body, view.filter)
        /\ listPRs(Claims)' = listPRs(Claims) \cup {body}
    <3>1. Claims' = Claims /\ view' = view
      BY <1>2 DEF Claims
    <3>2. PICK by, filter : by = Claims /\ filter = view.filter
      OBVIOUS
    <3>3. /\ listTickets(by, filter)' = listTickets(by, filter) \cup NewIn(body, filter)
          /\ listPRs(by)' = listPRs(by) \cup {body}
      <4>1. PICK x : x = New(c.by.org)
        OBVIOUS
      <4>2. /\ x # Absent /\ item[i] = Absent /\ item' = [item EXCEPT ![i] = x] /\ app' = app
            /\ item \in [Ids -> {Absent} \cup Items(app)]
        BY <1>2, <1>3, <1>4, <4>1
      <4>3. x.org = by.org /\ (app = "support-hub" \/ by.role \in {OA, REV})
        BY <1>5, <1>7, <2>3, <3>2, <4>1
      <4>4. body = [id |-> i, org |-> x.org, status |-> x.status]
        BY <1>3, <1>5, <4>1
      <4>5. Created(x, by, body)
        BY <1>3, <4>2, <4>3, <4>4 DEF Created
      <4> QED BY <4>5, ListedMore
    <3>4. listTickets(Claims, view.filter)' = listTickets(by, filter)' /\ listPRs(Claims)' = listPRs(by)'
      BY <3>1, <3>2 DEF listTickets, listPRs
    <3> QED BY <3>2, <3>3, <3>4
  <2>8. ShownOf(v)' = Listed(view.page, Claims, view.filter)'
    <3>1. ShownOf(v)' = ShownOf(v)
      BY <1>2 DEF ShownOf
    <3>2. CASE view.page = "tickets"
      <4>1. Listed(view.page, Claims, view.filter) = listTickets(Claims, view.filter)
            /\ Listed(view.page, Claims, view.filter)' = listTickets(Claims, view.filter)'
        BY <1>2, <3>2 DEF Listed
      <4> QED BY <2>5, <2>6, <2>7, <3>1, <3>2, <4>1
    <3>3. CASE view.page = "prs"
      <4>1. Listed(view.page, Claims, view.filter) = listPRs(Claims)
            /\ Listed(view.page, Claims, view.filter)' = listPRs(Claims)'
        BY <1>2, <3>3 DEF Listed
      <4> QED BY <2>5, <2>6, <2>7, <3>1, <3>3, <4>1
    <3> QED BY <2>1, <3>2, <3>3
  <2> QED BY <1>2, <2>2, <2>8 DEF Truly, Detail
<1>9. TRUE \in BOOLEAN /\ UNCHANGED <<app, role, activeOrg, view, overtaken, failed>>
       /\ calls[n].do # "load" /\ calls[n].answer = NoAnswer
  BY <1>1, <1>2
<1> QED BY <1>3, <1>6, <1>8, <1>9, WrittenHolds

(* A connection that is requested or answered is the only one its page     *)
(* shows then.                                                             *)
LEMMA LinkHolds == ASSUME TypeInv, PageInv, NEW n \in DOMAIN calls, ServeLink(n)  PROVE PageInv'
<1>1. PICK c : c = calls[n]
  OBVIOUS
<1>2. /\ link \in {Absent} \cup Links
      /\ c \in Calls /\ Fits(c, app, view) /\ c.do \in {"request", "respond"} /\ c.answer = NoAnswer
      /\ UNCHANGED <<app, role, activeOrg, item, view, overtaken, failed>>
      /\ Accepts(c.by, c.id, c) /\ Written(n, TRUE, link')
  BY <1>1, CallTyped DEF ServerTyped, ServeLink, Accepted
<1>3. link' \in Links /\ link' # Absent
  <2>3. CASE c.do = "request"
    <3>1. link' = [from |-> c.by.org, to |-> c.choice, status |-> "PENDING"]
      BY <1>1, <2>3 DEF ServeLink
    <3>2. c.by.org \in Orgs /\ c.choice \in Orgs
      BY <1>1, <1>2, <2>3, CallTyped DEF Fits, ChosenOf
    <3>3. link' \in Links
      BY <3>1, <3>2 DEF Links
    <3> QED BY <3>3, NothingAssumption
  <2>4. CASE c.do = "respond"
    <3>1. link \in Links /\ c.choice \in {"APPROVED", "REVOKED"}
      BY <1>2, <2>4 DEF Accepts, patchConnection, Fits, ChosenOf
    <3>2. link' = [link EXCEPT !.status = c.choice]
      BY <1>1, <2>4 DEF ServeLink
    <3>3. link' \in Links
      BY <3>1, <3>2 DEF Links
    <3> QED BY <3>3, NothingAssumption
  <2> QED BY <1>2, <2>3, <2>4
<1>4. PICK body : body = link'
  OBVIOUS
<1>5. body \in ListRows \cup DetailRows
  BY <1>3, <1>4 DEF ListRows
<1>6. ASSUME NEW a, NEW b, NEW V, NEW v, Held(a, b, V), n = b + 1, InOrder(calls', Detail, a, b + 1),
             ~calls[n].orphan, Answered(calls, calls', n), calls' \in Seq(Calls),
             calls'[n].answer = [ok |-> TRUE, body |-> body], v = Applied(V[b], calls'[n], Detail),
             ~PendingIn(calls', Detail, view.page), Truly(V[b])
      PROVE  Truly(v)'
  <2>1. view.page = "connections"
    BY <1>1, <1>2, <1>6 DEF Fits, DosOf
  <2>2. view.page \in Lists /\ ~Detail /\ view' = view /\ Claims' = Claims
    BY <1>2, <2>1 DEF Lists, Detail, Claims
  <2>3. CASE Closed(view.page, Claims)
    <3>1. Closed(view.page, Claims)'
      BY <2>2, <2>3 DEF Closed
    <3> QED BY <2>2, <3>1 DEF Truly, Detail
  <2>4. CASE ~Closed(view.page, Claims)
    <3>1. c.by = Claims
      BY <1>1, <1>6, <2>2, <2>4, FreshNext
    <3>2. V[b].listed \cup V[b].created = listConnections(Claims)
      BY <1>6, <2>1, <2>2, <2>4 DEF Truly, ShownOf, Listed
    <3>3. calls'[n].do = c.do /\ calls'[n].answer.ok /\ calls'[n].answer.body = body
      BY <1>1, <1>6 DEF Answered
    <3>4. v.listed \cup v.created = {body} /\ Claims.org \in {body.from, body.to}
      <4>1. CASE c.do = "request"
        <5>1. link = Absent /\ body = [from |-> c.by.org, to |-> c.choice, status |-> "PENDING"]
          BY <1>1, <1>4, <4>1 DEF ServeLink
        <5>2. V[b].listed \cup V[b].created = {}
          BY <3>2, <5>1 DEF listConnections
        <5>3. v.listed = V[b].listed /\ v.created = V[b].created \cup {body}
          BY <1>6, <3>3, <4>1 DEF Applied
        <5>4. Claims.org \in {body.from, body.to}
          BY <3>1, <5>1
        <5> QED BY <5>2, <5>3, <5>4
      <4>2. CASE c.do = "respond"
        <5>1. link \in Links /\ link # Absent /\ c.by.org \in {link.from, link.to}
          BY <1>2, <4>2 DEF Accepts, patchConnection
        <5>2. body = [link EXCEPT !.status = c.choice]
          BY <1>1, <1>4, <4>2 DEF ServeLink
        <5>3. body.from = link.from /\ body.to = link.to
          BY <5>1, <5>2 DEF Links
        <5>4. V[b].listed \cup V[b].created = {link}
          BY <3>1, <3>2, <5>1 DEF listConnections
        <5>5. v.listed = now(V[b].listed, body) /\ v.created = now(V[b].created, body)
          BY <1>6, <3>3, <4>2 DEF Applied
        <5>6. v.listed \cup v.created = {body}
          BY <5>4, <5>5 DEF now
        <5> QED BY <3>1, <5>1, <5>3, <5>6
      <4> QED BY <1>2, <4>1, <4>2
    <3>5. ShownOf(v)' = {body}
      BY <2>1, <2>2, <3>4 DEF ShownOf
    <3>6. listConnections(Claims)' = {body}
      BY <1>3, <1>4, <2>2, <3>4 DEF listConnections
    <3>7. Listed(view.page, Claims, view.filter)' = {body}
      BY <2>1, <2>2, <3>6 DEF Listed
    <3> QED BY <2>2, <3>5, <3>7 DEF Truly, Detail
  <2> QED BY <2>3, <2>4
<1>7. TRUE \in BOOLEAN /\ UNCHANGED <<app, role, activeOrg, view, overtaken, failed>>
      /\ calls[n].do # "load" /\ calls[n].answer = NoAnswer /\ Written(n, TRUE, body)
  BY <1>1, <1>2, <1>4
<1> QED BY <1>5, <1>6, <1>7, WrittenHolds

(* The row after a write that its page does not answer with a load: what   *)
(* the page makes of the answer is the row, with what hangs on it.         *)
LEMMA RowAfter ==
    ASSUME app \in {"support-hub", "review-console"}, NEW it \in Items(app), NEW r,
           \/ r.do \in {"status", "assign", "upload"} /\ app = "support-hub"
           \/ r.do = "required" /\ app = "review-console"
    PROVE  LET after == Effect(it, r, Me)
           IN  /\ r.do # "upload" => Hung(after) = Hung(it)
               /\ r.do = "upload" => Hung(after) = Hung(it) + 1 /\ Body(after, Unknown) = Body(it, Unknown)
<1>1. CASE app = "support-hub"
  <2>1. it \in Tickets /\ it.status # "DRAFT"
    BY <1>1 DEF Items, Tickets, TicketStatus
  <2>2. CASE r.do = "status"
    <3>1. Effect(it, r, Me) = [it EXCEPT !.status = r.choice]
      BY <2>1, <2>2 DEF Effect
    <3>2. Effect(it, r, Me).files = it.files
      BY <2>1, <3>1 DEF Tickets
    <3> QED BY <1>1, <2>2, <3>2 DEF Hung
  <2>3. CASE r.do = "assign"
    BY <2>3 DEF Effect
  <2>4. CASE r.do = "upload"
    <3>1. Effect(it, r, Me) = [it EXCEPT !.files = @ + 1]
      BY <2>4 DEF Effect
    <3>2. /\ Effect(it, r, Me).files = it.files + 1
          /\ Effect(it, r, Me).org = it.org /\ Effect(it, r, Me).status = it.status
      BY <2>1, <3>1 DEF Tickets
    <3> QED BY <1>1, <2>4, <3>2 DEF Hung, Body
  <2> QED BY <1>1, <2>2, <2>3, <2>4
<1>2. CASE app = "review-console"
  <2>1. it \in PRs /\ r.do = "required"
    BY <1>2 DEF Items
  <2>2. PICK pr : pr = [it EXCEPT !.required = r.choice]
    OBVIOUS
  <2>3. pr.versions = it.versions /\ DOMAIN pr = DOMAIN it /\ "versions" \in DOMAIN it
    BY <2>1, <2>2 DEF PRs
  <2>4. Recomputed(pr).versions = pr.versions
    BY <2>1, <2>2 DEF Recomputed, PRs
  <2>5. Effect(it, r, Me) = Recomputed(pr)
    BY <2>1, <2>2 DEF Effect
  <2> QED BY <1>2, <2>1, <2>3, <2>4, <2>5 DEF Hung
<1> QED BY <1>1, <1>2

(* Writes on a ticket or a pull request. *)
LEMMA WriteHolds == ASSUME TypeInv, PageInv, NEW n \in DOMAIN calls, ServeWrite(n)  PROVE PageInv'
<1>1. PICK c, it, after : c = calls[n] /\ it = item[c.id] /\ after = Effect(it, c, Me)
  OBVIOUS
<1>2. /\ app \in {"support-hub", "review-console"} /\ ViewFits(view, app)
      /\ c \in Calls /\ Fits(c, app, view) /\ c.id \in Ids
      /\ UNCHANGED <<app, role, activeOrg, link, view, overtaken, failed>>
  BY <1>1, CallTyped DEF ServeWrite, Accepted
<1>3. PICK body : body = IF after = Absent THEN Absent ELSE Body(after, Unknown)
  OBVIOUS
<1>4. /\ c.do \in ItemDos /\ c.do \in FrontDos(app) /\ c.answer = NoAnswer
      /\ it \in Items(app) /\ item'[c.id] = after
      /\ c.do # "delete" => after \in Items(app) /\ after # Absent
      /\ Written(n, TRUE, body)
  BY <1>1, <1>3, WriteFacts
<1>5. body \in ListRows \cup DetailRows
  <2>1. CASE c.do = "delete"
    <3>1. after = Absent
      BY <1>1, <2>1, WriteFacts
    <3> QED BY <1>3, <3>1 DEF DetailRows
  <2>2. CASE c.do # "delete"
    BY <1>2, <1>3, <1>4, <2>2, BodyTyped
  <2> QED BY <2>1, <2>2
<1>6. [ok |-> TRUE, body |-> body] # NoAnswer
  <2>1. [ok |-> TRUE, body |-> body] \in Answers
    BY <1>5 DEF Answers
  <2> QED BY <2>1, NothingAssumption
<1>7. ASSUME NEW a, NEW b, NEW V, NEW v, Held(a, b, V), n = b + 1, InOrder(calls', Detail, a, b + 1),
             ~calls[n].orphan, Answered(calls, calls', n), calls' \in Seq(Calls),
             calls'[n].answer = [ok |-> TRUE, body |-> body], v = Applied(V[b], calls'[n], Detail),
             ~PendingIn(calls', Detail, view.page), Truly(V[b])
      PROVE  Truly(v)'
  <2>1. c.do \in DosOf(view.page) /\ c.id = view.id
    BY <1>1, <1>2, <1>7 DEF Fits
  <2>2. \/ view.page = "ticket" /\ app = "support-hub"
        \/ view.page = "pr" /\ app = "review-console"
    BY <1>2, <1>4, <2>1 DEF DosOf, ItemDos, ViewFits, PagesOf
  <2>3. view.page \notin Lists /\ Detail
    BY <2>2 DEF Lists, Detail
  <2>4. ~WillLoad(calls'[n], view.page)
    <3>1. n \in DOMAIN calls' /\ ~calls'[n].orphan
      <4>1. Len(calls') = Len(calls) /\ calls \in Seq(Calls)
        BY <1>7, CallTyped DEF Answered
      <4> QED BY <1>7, <4>1 DEF Answered
    <3> QED BY <1>7, <3>1 DEF PendingIn, BringsLoad
  <2>5. /\ calls'[n].do = c.do /\ calls'[n].answer.ok /\ calls'[n].answer.body = body
        /\ calls'[n].answer # NoAnswer
    BY <1>1, <1>6, <1>7 DEF Answered
  <2>6. \/ c.do \in {"status", "assign", "upload"} /\ app = "support-hub"
        \/ c.do = "required" /\ app = "review-console"
    BY <1>4, <2>1, <2>2, <2>4, <2>5 DEF WillLoad, Reloads, DosOf, ItemDos
  <2>7. /\ c.do # "upload" => v.row = body /\ v.extra = V[b].extra
        /\ c.do = "upload" => v.row = V[b].row /\ v.extra = V[b].extra + 1
    BY <1>7, <2>3, <2>5, <2>6 DEF Applied
  <2>8. v.missing = (V[b].missing \/ FALSE)
    BY <1>7, <2>5, <2>6 DEF Applied
  <2>9. ASSUME ~v.missing
        PROVE  item'[view.id] # Absent /\ v.row \in TrueRows(view.id)' /\ v.extra = Hung(item[view.id])'
    <3>1. it # Absent /\ V[b].row \in TrueRows(view.id) /\ V[b].extra = Hung(it)
      BY <1>1, <1>7, <2>1, <2>3, <2>8, <2>9 DEF Truly
    <3>2. after # Absent /\ item'[view.id] = after /\ body = Body(after, Unknown)
      BY <1>3, <1>4, <2>1, <2>6
    <3>3. /\ c.do # "upload" => Hung(after) = Hung(it)
          /\ c.do = "upload" => Hung(after) = Hung(it) + 1 /\ Body(after, Unknown) = Body(it, Unknown)
      BY <1>1, <1>2, <1>4, <2>6, RowAfter
    <3>4. v.extra = Hung(after)
      BY <2>7, <3>1, <3>3
    <3>5. v.row = Body(after, Unknown)
      <4>1. CASE c.do = "upload"
        <5>1. TrueRows(view.id) = {Body(it, Unknown)}
          BY <1>1, <2>1, <2>6, <4>1 DEF TrueRows
        <5> QED BY <2>7, <3>1, <3>3, <4>1, <5>1
      <4>2. CASE c.do # "upload"
        BY <2>7, <3>2, <4>2
      <4> QED BY <4>1, <4>2
    <3>6. Hung(item[view.id])' = Hung(after)
      BY <1>2, <3>2 DEF Hung
    <3>7. Body(after, Unknown) \in TrueRows(view.id)'
      <4>1. Body(item[view.id], Unknown)' \in TrueRows(view.id)'
        BY <1>2 DEF TrueRows
      <4>2. Body(item[view.id], Unknown)' = Body(after, Unknown)
        BY <1>2, <3>2 DEF Body
      <4> QED BY <4>1, <4>2
    <3> QED BY <3>2, <3>4, <3>5, <3>6, <3>7
  <2>10. view' = view /\ Detail' /\ view'.page \notin Lists
    BY <1>2, <2>3 DEF Detail
  <2> QED BY <2>9, <2>10 DEF Truly
<1>8. TRUE \in BOOLEAN /\ UNCHANGED <<app, role, activeOrg, view, overtaken, failed>>
      /\ calls[n].do # "load" /\ calls[n].answer = NoAnswer
  BY <1>1, <1>2, <1>4 DEF ItemDos
<1> QED BY <1>4, <1>5, <1>7, <1>8, WrittenHolds

-----------------------------------------------------------------------------
(* What the page will show, in every state.                                *)

(* At first no page is open. *)
LEMMA PageInit == Init => PageInv
<1> SUFFICES ASSUME Init  PROVE PageInv
  OBVIOUS
<1>1. calls \in Seq(Calls) /\ calls = <<>> /\ DOMAIN calls = {} /\ view.page = "none"
  <2>1. calls = <<>> /\ view.page = "none"
    BY DEF Init, Blank
  <2>2. <<>> \in Seq(Calls) /\ DOMAIN <<>> = {}
    OBVIOUS
  <2> QED BY <2>1, <2>2
<1>2. \A k \in DOMAIN calls : calls[k].orphan
  BY <1>1
<1>3. PICK N, V : InOrder(calls, Detail, N, N) /\ Chain(calls, Detail, Shows(view), N, N, V)
  BY <1>1, <1>2, LeftBehind
<1>4. Fresh /\ PartsTrue /\ Truly(V[N])
  BY <1>1 DEF Fresh, PartsTrue, Truly, Lists, Detail
<1>5. Held(N, N, V)
  BY <1>3, <1>4 DEF Held
<1> QED BY <1>5 DEF PageInv

(* The only handler of a deletion that stays on its page is for one that   *)
(* was refused.                                                            *)
LEMMA HandlersStay ==
    ASSUME NEW n \in DOMAIN calls, Handlers(n)
    PROVE  calls[n].do = "delete" => ~calls[n].answer.ok
BY DEF Handlers, Ok, Received, loadList, handleCreate, handleRequest, respond, loadDetail, updateField,
       handleUpload, handleTransition, handleRequiredApprovalsChange, handleSubmitReview

(* No step breaks it. *)
LEMMA PageStep == TypeInv /\ PageInv /\ [Next]_vars => PageInv'
<1> SUFFICES ASSUME TypeInv, PageInv, [Next]_vars  PROVE PageInv'
  OBVIOUS
<1>1. CASE Navigate
  <2>1. PICK page \in PagesOf(app), i \in Ids : Visit(page, i)
    BY <1>1 DEF Navigate, TypeInv, Views
  <2> QED BY <2>1, VisitHolds
<1>2. CASE \E org \in Mine : switchOrg(org)
  BY <1>2, SwitchHolds
<1>3. CASE \E filter \in Filters : setFilter(filter)
  BY <1>3, FilterHolds
<1>4. CASE toggleForm
  <2>1. Good' => Good
    BY <1>4, ToggleFacts DEF Good
  <2> QED BY <1>4, <2>1, ToggleFacts, QuietHolds
<1>5. CASE \E r \in Offers : Submit(r)
  BY <1>5, SubmitHolds
<1>6. CASE Services
  <2> SUFFICES ASSUME NEW n \in DOMAIN calls,
                      \/ ServeList(n) \/ ServeGet(n) \/ ServeExtra(n)
                      \/ Refuse(n) \/ ServeCreate(n) \/ ServeLink(n) \/ ServeWrite(n)
                      \/ ServerError(n) \/ Lost(n)
               PROVE  PageInv'
    BY <1>6 DEF Services
  <2>1. CASE ServerError(n) \/ Lost(n)
    BY <2>1 DEF ServerError, Lost, PageInv, Good
  <2> QED BY <2>1, ListHolds, DetailHolds, RefuseHolds, CreateHolds, LinkHolds, WriteHolds
<1>7. CASE Page
  <2>1. ASSUME NEW n \in DOMAIN calls, Handlers(n)  PROVE PageInv'
    BY <2>1, HandlersReceive, HandlersStay, ReceiptHolds
  <2>2. ASSUME NEW n \in DOMAIN calls, handleDelete(n), Ok(n)  PROVE PageInv'
    BY <2>2, DeleteVisits, VisitHolds
  <2>3. ASSUME NEW org \in Orgs, NEW ok \in BOOLEAN, setMembers(org, ok)  PROVE PageInv'
    <3>1. /\ touched' = touched /\ calls' = calls /\ view' = view
          /\ UNCHANGED <<app, role, activeOrg, item, link>>
          /\ overtaken' = overtaken /\ failed' = (failed \/ ~ok)
      BY <2>3 DEF setMembers, server
    <3>2. Good' => Good
      BY <3>1 DEF Good
    <3>3. Shows(view') = Shows(view)
      BY <3>1
    <3> QED BY <3>1, <3>2, <3>3, QuietHolds
  <2> QED BY <1>7, <2>1, <2>2, <2>3 DEF Page, Handlers
<1>8. CASE SomebodyElse
  BY <1>8, SomebodyElseHolds
<1>9. CASE UNCHANGED vars
  <2>1. /\ touched' = touched /\ calls' = calls /\ view' = view
        /\ UNCHANGED <<app, role, activeOrg, item, link, overtaken, failed>>
    BY <1>9 DEF vars, server, ghosts
  <2>2. Good' => Good
    BY <2>1 DEF Good
  <2>3. Shows(view') = Shows(view)
    BY <2>1
  <2> QED BY <2>1, <2>2, <2>3, QuietHolds
<1> QED BY <1>1, <1>2, <1>3, <1>4, <1>5, <1>6, <1>7, <1>8, <1>9 DEF Next, User

(* A page that nothing has disturbed will show what the services have.     *)
LEMMA PagesHold == Spec => []PageInv
<1>1. Init => PageInv
  BY PageInit
<1>2. TypeInv /\ PageInv /\ [Next]_vars => PageInv'
  BY PageStep
<1> QED BY <1>1, <1>2, Typed, PTL DEF Spec

-----------------------------------------------------------------------------
(* What a settled page shows.                                              *)

(* Without requests under way, the page shows the end of its chain. *)
LEMMA SettledTruly == ASSUME TypeInv, PageInv, Settled  PROVE Truly(Shows(view))
<1>1. calls \in Seq(Calls) /\ Len(calls) \in Nat /\ DOMAIN calls = 1..Len(calls)
  BY DEF TypeInv, Queue
<1>2. Good /\ ~touched /\ \A n \in DOMAIN calls : calls[n].orphan
  BY DEF Settled, Good
<1>3. PICK a, b, V : Held(a, b, V)
  BY <1>2 DEF PageInv
<1>4. InOrder(calls, Detail, a, b) /\ Chain(calls, Detail, Shows(view), a, b, V)
  BY <1>3 DEF Held
<1>5. a \in 0..Len(calls) /\ b \in a..Len(calls) /\ \A n \in DOMAIN calls : n <= a
  BY <1>2, <1>4 DEF InOrder
<1>6. b = a
  BY <1>1, <1>5
<1>7. ~PendingIn(calls, Detail, view.page)
  BY <1>2 DEF PendingIn
<1>8. Truly(V[a])
  BY <1>2, <1>3, <1>6, <1>7 DEF Held
<1> QED BY <1>4, <1>8 DEF Chain

(* The members of a page that waits for none. *)
LEMMA SettledMembers ==
    ASSUME MembersRight, ~failed, members.waits = {}, view.page \in {"tickets", "ticket", "pr"}
    PROVE  members.of = IF role[activeOrg] = OA THEN activeOrg ELSE NoOrg
BY DEF MembersRight, WithMembers

(* SettledRows follows from the three invariants. *)
LEMMA SettledRight == TypeInv /\ PageInv /\ MembersRight => SettledRows
<1> SUFFICES ASSUME TypeInv, PageInv, MembersRight, Settled
             PROVE  /\ view.page \in Lists /\ ~Closed(view.page, Claims) =>
                          Shown = Listed(view.page, Claims, view.filter)
                    /\ Detail /\ ~view.missing =>
                          /\ item[view.id] # Absent
                          /\ view.row \in TrueRows(view.id)
                          /\ view.extra = Hung(item[view.id])
                    /\ members.waits = {} /\ view.page \in {"tickets", "ticket", "pr"} =>
                          members.of = IF role[activeOrg] = OA THEN activeOrg ELSE NoOrg
  BY DEF SettledRows, TrueRows
<1>1. Truly(Shows(view))
  BY SettledTruly
<1>2. Shown = ShownOf(Shows(view))
  BY DEF Shown, ShownOf, Shows
<1>3. ~failed
  BY DEF Settled
<1>4. /\ Shows(view).row = view.row /\ Shows(view).extra = view.extra
      /\ Shows(view).missing = view.missing
  BY DEF Shows
<1> QED BY <1>1, <1>2, <1>3, <1>4, SettledMembers DEF Truly

(* What a settled page shows is what the services have: lists are those of *)
(* the active organization and of the filter that is set, a ticket or pull *)
(* request is the row of its table with what hangs on it, the members are  *)
(* those of the active organization.  So no order of switching, filtering, *)
(* writing and leaving makes a page keep what it should have replaced,     *)
(* unless an answer overtook another, was lost or somebody else wrote.     *)
THEOREM SettledPagesTell == Spec => []SettledRows
<1>1. TypeInv /\ PageInv /\ MembersRight => SettledRows
  BY SettledRight
<1> QED BY <1>1, Typed, PagesHold, MembersAreRight, PTL

-----------------------------------------------------------------------------
(* What a settled page offers.                                             *)

(* What a detail page reads from its row is in the row of the table. *)
LEMMA RowTells ==
    ASSUME view.row \in TrueRows(view.id), app \in {"support-hub", "review-console"}
    PROVE  /\ view.row.org = item[view.id].org /\ view.row.status = item[view.id].status
           /\ app = "review-console" =>
                 view.row.reviewers = Unknown \/ view.row.reviewers = item[view.id].reviewers
<1>1. PICK r \in {Unknown} \cup (IF app = "review-console" THEN {item[view.id].reviewers} ELSE {}) :
         view.row = Body(item[view.id], r)
  BY DEF TrueRows
<1>2. CASE app = "support-hub"
  BY <1>1, <1>2 DEF Body
<1>3. CASE app = "review-console"
  BY <1>1, <1>3 DEF Body
<1> QED BY <1>2, <1>3

(* What an offer is. *)
LEMMA OfferTells ==
    ASSUME NEW gate, NEW do, NEW args, NEW r \in Offer(gate, do, args)
    PROVE  gate /\ r.do = do /\ r.choice \in args
BY DEF Offer

(* The controls of a ticket. *)
LEMMA TicketAccepted ==
    ASSUME app = "support-hub", activeOrg \in Mine, item[view.id] # Absent,
           view.row.org = item[view.id].org,
           members.of = IF role[activeOrg] = OA THEN activeOrg ELSE NoOrg,
           NEW r \in TicketOffers, ~Unchecked(r)
    PROVE  Accepts(Claims, view.id, r)
<1>1. Claims.org = activeOrg /\ Claims.role = role[activeOrg]
  BY DEF Claims
<1>2. ASSUME isOwner  PROVE ownsResource(Claims, view.id)
  BY <1>1, <1>2 DEF isOwner, ownsResource
<1>3. CASE r \in DeleteTicketButton
  <2>1. RoleGate({OA}, isOwner) /\ r.do = "delete"
    BY <1>3, OfferTells DEF DeleteTicketButton
  <2> QED BY <1>1, <1>2, <2>1 DEF RoleGate, Accepts, deleteTicket, requireRole
<1>4. CASE r \in StatusSelect
  <2>1. RoleGate({OA, SA}, isOwner) /\ r.do = "status"
    BY <1>4, OfferTells DEF StatusSelect
  <2> QED BY <1>1, <1>2, <2>1 DEF RoleGate, Accepts, patchTicket, requireRole
<1>5. CASE r \in AssigneeSelect
  <2>1. /\ RoleGate({OA, SA}, isOwner) /\ r.do = "assign"
        /\ r.choice \in {NoOrg} \cup IF members.of # NoOrg THEN {members.of} ELSE Orgs
    BY <1>5, OfferTells DEF AssigneeSelect
  <2>2. r.choice \in {NoOrg, activeOrg} /\ ownsResource(Claims, view.id)
    BY <1>2, <2>1 DEF RoleGate, Unchecked
  <2> QED BY <1>1, <2>1, <2>2
          DEF RoleGate, Accepts, patchTicket, requireRole, ownsResource, assertValidAssignee
<1>6. CASE r \in UploadForm
  <2>1. RoleGate({OA, SA}, isOwner) /\ r.do = "upload" /\ r.choice # "huge"
    BY <1>6, OfferTells DEF UploadForm, Unchecked
  <2> QED BY <1>1, <1>2, <2>1 DEF RoleGate, Accepts, postAttachment, requireRole
<1> QED BY <1>3, <1>4, <1>5, <1>6 DEF TicketOffers

(* The controls of a pull request. *)
LEMMA PRAccepted ==
    ASSUME app = "review-console", activeOrg \in Mine, item[view.id] # Absent, item[view.id] \in PRs,
           view.row.org = item[view.id].org, view.row.status = item[view.id].status,
           view.row.reviewers = Unknown \/ view.row.reviewers = item[view.id].reviewers,
           members.of = IF role[activeOrg] = OA THEN activeOrg ELSE NoOrg,
           NEW r \in PROffers, ~Unchecked(r)
    PROVE  \/ r.do = "diff"
           \/ r.do = "reviewer" /\ r.choice \in item[view.id].reviewers
           \/ Accepts(Claims, view.id, r)
<1>1. Claims.org = activeOrg /\ Claims.role = role[activeOrg]
  BY DEF Claims
<1>2. ASSUME isOwner  PROVE ownsResource(Claims, view.id)
  BY <1>1, <1>2 DEF isOwner, ownsResource
<1>3. CASE r \in DeletePRButton
  <2>1. RoleGate({OA}, isOwner) /\ r.do = "delete"
    BY <1>3, OfferTells DEF DeletePRButton
  <2> QED BY <1>1, <1>2, <2>1 DEF RoleGate, Accepts, deletePR, requireRole
<1>4. CASE r \in EditForm
  <2>1. RoleGate({OA}, isOwner /\ view.row.status \notin {"REJECTED", "MERGED"}) /\ r.do = "edit"
    BY <1>4, OfferTells DEF EditForm
  <2> QED BY <1>1, <1>2, <2>1 DEF RoleGate, Accepts, patchPR, requireRole, Terminal
<1>5. CASE r \in RequiredApprovals
  <2>1. RoleGate({OA}, isOwner) /\ r.do = "required" /\ r.choice \in 0..2
    BY <1>5, OfferTells DEF RequiredApprovals
  <2>2. r.choice # 0
    BY <2>1 DEF Unchecked
  <2> QED BY <1>1, <1>2, <2>1, <2>2 DEF RoleGate, Accepts, patchPR, requireRole
<1>6. CASE r \in TransitionButtons
  <2>1. RoleGate({OA}, isOwner) /\ r.do = "status" /\ r.choice \in NEXT_TRANSITIONS[view.row.status]
    BY <1>6, OfferTells DEF TransitionButtons
  <2>2. r.choice \in ALLOWED_TRANSITIONS[item[view.id].status]
    BY <2>1 DEF NEXT_TRANSITIONS, ALLOWED_TRANSITIONS, PRs, PRStatus
  <2> QED BY <1>1, <1>2, <2>1, <2>2 DEF RoleGate, Accepts, patchPR, requireRole
<1>7. CASE r \in ReviewerSelect
  <2>1. (RoleGate({OA}, isOwner) /\ members.of # NoOrg) /\ r.do = "reviewer" /\ r.choice \in Reviewers(members.of)
    BY <1>7, OfferTells DEF ReviewerSelect
  <2>2. members.of = item[view.id].org /\ ownsResource(Claims, view.id)
    BY <1>1, <1>2, <2>1 DEF RoleGate, ownsResource
  <2>3. r.choice \in Reviewers(item[view.id].org)
    BY <2>1, <2>2
  <2> QED BY <1>1, <2>1, <2>2, <2>3 DEF RoleGate, Accepts, postReviewer, requireRole
<1>8. CASE r \in ReviewButtons
  <2>1. canReview /\ r.do = "review"
    BY <1>8, OfferTells DEF ReviewButtons
  <2>2. item[view.id].status \in {"IN_REVIEW", "APPROVED"} /\ ownsResource(Claims, view.id)
    BY <1>2, <2>1 DEF canReview
  <2>3. Claims.role \in {OA, REV}
    BY <1>1, <2>1 DEF canReview
  <2>4. Claims.role = REV => Me \in item[view.id].reviewers
    BY <1>1, <2>1 DEF canReview, isAssignedReviewer, OA, REV
  <2> QED BY <2>1, <2>2, <2>3, <2>4 DEF Accepts, postReview, requireRole
<1>9. CASE r \in DiffButtons
  BY <1>9 DEF DiffButtons, Offer
<1>10. \/ r \in DeletePRButton \/ r \in EditForm \/ r \in RequiredApprovals
       \/ r \in TransitionButtons \/ r \in ReviewerSelect \/ r \in ReviewButtons \/ r \in DiffButtons
  BY DEF PROffers
<1> QED BY <1>3, <1>4, <1>5, <1>6, <1>7, <1>8, <1>9, <1>10

(* The buttons of the connections. *)
LEMMA RespondAccepted ==
    ASSUME TypeInv, SettledRows, Settled, NEW r \in RespondButtons
    PROVE  Accepts(Claims, view.id, r)
<1>1. Claims.org = activeOrg /\ Claims.role = role[activeOrg]
  BY DEF Claims
<1>2. PICK c \in IF view.page = "connections" THEN view.listed \cup view.created ELSE {} :
         r \in Offer(canManage /\ c.status = "PENDING" /\ c.to = activeOrg, "respond", {"APPROVED"})
               \cup Offer(canManage /\ c.status = "APPROVED", "respond", {"REVOKED"})
  BY DEF RespondButtons
<1>3. /\ view.page = "connections" /\ c \in view.listed \cup view.created
      /\ canManage /\ r.do = "respond"
      /\ \/ r.choice = "APPROVED" /\ c.status = "PENDING" /\ c.to = activeOrg
         \/ r.choice = "REVOKED" /\ c.status = "APPROVED"
  <2>1. view.page = "connections" /\ c \in view.listed \cup view.created
    BY <1>2
  <2>2. CASE r \in Offer(canManage /\ c.status = "PENDING" /\ c.to = activeOrg, "respond", {"APPROVED"})
    <3>1. (canManage /\ c.status = "PENDING" /\ c.to = activeOrg) /\ r.do = "respond" /\ r.choice \in {"APPROVED"}
      BY <2>2, OfferTells
    <3> QED BY <2>1, <3>1
  <2>3. CASE r \in Offer(canManage /\ c.status = "APPROVED", "respond", {"REVOKED"})
    <3>1. (canManage /\ c.status = "APPROVED") /\ r.do = "respond" /\ r.choice \in {"REVOKED"}
      BY <2>3, OfferTells
    <3> QED BY <2>1, <3>1
  <2> QED BY <1>2, <2>2, <2>3
<1>4. view.page \in Lists /\ ~Closed(view.page, Claims)
  BY <1>1, <1>3 DEF Lists, Closed, canManage
<1>5. Shown = listConnections(Claims)
  BY <1>3, <1>4 DEF SettledRows, Listed
<1>6. c \in Shown
  BY <1>3 DEF Shown
<1>7. link # Absent /\ c = link /\ Claims.org \in {link.from, link.to}
  BY <1>5, <1>6 DEF listConnections
<1>8. patchConnection(Claims, r)
  BY <1>1, <1>3, <1>7 DEF patchConnection, requireRole, canManage
<1> QED BY <1>3, <1>8 DEF Accepts

(* OffersAccepted follows from SettledRows. *)
LEMMA SettledAccepted == TypeInv /\ SettledRows => OffersAccepted
<1> SUFFICES ASSUME TypeInv, SettledRows, Settled
             PROVE  /\ NewTicketGate => postTicket(Claims, [choice |-> NoOrg])
                    /\ NewPRGate => postPR(Claims)
                    /\ members.waits = {} => \A r \in Offers :
                          \/ r.do \in {"create", "request", "diff"} \/ Unchecked(r)
                          \/ r.do = "reviewer" /\ r.choice \in item[view.id].reviewers
                          \/ Accepts(Claims, view.id, r)
  BY DEF OffersAccepted
<1>1. /\ app \in {"support-hub", "review-console"} /\ activeOrg \in Mine
      /\ view.page \in PagesOf(app) \cup {"none"} /\ view.id \in Ids
      /\ item \in [Ids -> {Absent} \cup Items(app)]
  BY DEF TypeInv, Views, ViewFits, ServerTyped
<1>2. (NewTicketGate => postTicket(Claims, [choice |-> NoOrg])) /\ (NewPRGate => postPR(Claims))
  BY DEF NewTicketGate, NewPRGate, RoleGate, postTicket, postPR, requireRole, assertValidAssignee, Claims
<1>3. ASSUME members.waits = {}, NEW r \in Offers
      PROVE  \/ r.do \in {"create", "request", "diff"} \/ Unchecked(r)
             \/ r.do = "reviewer" /\ r.choice \in item[view.id].reviewers
             \/ Accepts(Claims, view.id, r)
  <2>1. CASE Detail
    <3>1. ~view.missing /\ view.row # Absent
      BY <1>3, <2>1 DEF Offers
    <3>2. item[view.id] # Absent /\ view.row \in TrueRows(view.id)
      BY <2>1, <3>1 DEF SettledRows, TrueRows
    <3>3. members.of = IF role[activeOrg] = OA THEN activeOrg ELSE NoOrg
      BY <1>3, <2>1 DEF SettledRows, Detail
    <3>4. /\ view.row.org = item[view.id].org /\ view.row.status = item[view.id].status
          /\ app = "review-console" =>
                view.row.reviewers = Unknown \/ view.row.reviewers = item[view.id].reviewers
      BY <1>1, <3>2, RowTells
    <3>5. CASE view.page = "ticket"
      <4>1. app = "support-hub"
        BY <1>1, <3>5 DEF PagesOf
      <4>2. r \in TicketOffers
        BY <1>3, <2>1, <3>1, <3>5 DEF Offers
      <4> QED BY <1>1, <3>2, <3>3, <3>4, <4>1, <4>2, TicketAccepted
    <3>6. CASE view.page = "pr"
      <4>1. app = "review-console"
        BY <1>1, <3>6 DEF PagesOf
      <4>2. r \in PROffers
        BY <1>3, <2>1, <3>1, <3>6 DEF Offers
      <4>3. item[view.id] \in PRs
        BY <1>1, <3>2, <4>1 DEF Items
      <4> QED BY <1>1, <3>2, <3>3, <3>4, <4>1, <4>2, <4>3, PRAccepted
    <3> QED BY <2>1, <3>5, <3>6 DEF Detail
  <2>2. CASE ~Detail
    <3>1. r \in CreateForm \/ r \in RequestForm \/ r \in RespondButtons
      BY <1>3, <2>2 DEF Offers
    <3>2. CASE r \in CreateForm
      BY <3>2, OfferTells DEF CreateForm
    <3>3. CASE r \in RequestForm
      BY <3>3, OfferTells DEF RequestForm
    <3>4. CASE r \in RespondButtons
      BY <3>4, RespondAccepted
    <3> QED BY <3>1, <3>2, <3>3, <3>4
  <2> QED BY <2>1, <2>2
<1> QED BY <1>2, <1>3

(* A settled page offers nothing that the services reject, in whichever    *)
(* organization the user has switched to and whatever role they have       *)
(* there: the gates of the page read from its row and from the token what  *)
(* those of the routes read from the table.  Excepted are a create form    *)
(* that was left open, the target of a connection, diffs, reviewers that   *)
(* are assigned already, and input that no page checks (Unchecked).        *)
THEOREM OffersAreAccepted == Spec => []OffersAccepted
<1>1. TypeInv /\ SettledRows => OffersAccepted
  BY SettledAccepted
<1> QED BY <1>1, Typed, SettledPagesTell, PTL
=============================================================================
