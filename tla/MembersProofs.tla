----------------------------- MODULE MembersProofs -----------------------------
(***************************************************************************)
(* Proofs about Members, for any users, organizations, roles and number of *)
(* concurrently running handlers.                                          *)
(*                                                                         *)
(* The argument.  What a token, a session or a running handler says of a   *)
(* user was copied from a membership, and memberships come and go, so the  *)
(* invariant relates every copy to held, the memberships there have ever   *)
(* been: held has what the table has (HeldHasRows), and whatever a login   *)
(* or a switch-org is about to sign was in it (SignsEarned).  A session    *)
(* that got the context of another user's switch-org is in lent, with the  *)
(* user who had earned it.                                                 *)
(***************************************************************************)
EXTENDS Members, FiniteSetTheorems, TLAPS

HeldHasRows == \A m \in rows : <<m.user, m.org, m.role>> \in held

(* A login or a switch-org that has looked up what it will sign. *)
SignsEarned ==
    \A s \in Slots : Running(s, "signIn") \/ Running(s, "switch") =>
        Earned(local[s].user, local[s].org, local[s].role)

(* Users and organizations are never deleted, so the ones addMember found  *)
(* are still there at its insert.                                          *)
AddsKnown ==
    \A s \in Slots : Running(s, "add") =>
        local[s].user \in accounts /\ local[s].org \in orgs

IInv == /\ TypeOK
        /\ AddsKnown
        /\ HeldHasRows
        /\ SignsEarned
        /\ ClaimsEarned
        /\ AuthorityFromAdmins

-----------------------------------------------------------------------------
(* A set of numbers that is not empty has a least one: of the intervals    *)
(* from 0 to its elements one has none of the others strictly inside it.   *)
LEMMA LeastExists ==
    ASSUME NEW I \in SUBSET Nat, I # {}
    PROVE  \E i \in I : \A j \in I : i <= j
<1> DEFINE Down == {0..i : i \in I}
<1>1. Down \subseteq FiniteSubsetsOf(Nat) /\ Down # {}
  <2>1. ASSUME NEW i \in I PROVE IsFiniteSet(0..i) /\ 0..i \in SUBSET Nat
    BY FS_Interval
  <2> QED
    BY <2>1 DEF FiniteSubsetsOf
<1>2. PICK d \in Down : \A e \in Down : ~ (<<e, d>> \in StrictSubsetOrdering(Nat))
  <2> HIDE DEF Down
  <2> QED
    BY <1>1, WFMin, FS_StrictSubsetOrderingWellFounded
<1>3. PICK i \in I : d = 0..i
  OBVIOUS
<1>4. ASSUME NEW j \in I, j < i PROVE FALSE
  <2>1. 0..j \in Down /\ 0..j \in SUBSET Nat /\ 0..i \in SUBSET Nat
    OBVIOUS
  <2>2. 0..j \subseteq 0..i /\ 0..j # 0..i
    BY <1>4
  <2>3. <<0..j, 0..i>> \in StrictSubsetOrdering(Nat)
    BY <2>1, <2>2 DEF StrictSubsetOrdering
  <2> QED
    BY <1>2, <1>3, <2>1, <2>3
<1> QED
  BY <1>4

(* A set of memberships that is not empty has an oldest one: login's       *)
(* primary organization is well defined.                                   *)
LEMMA OldestExists ==
    ASSUME NEW S, S \subseteq Memberships, S # {}
    PROVE  \E m \in S : \A n \in S : m.id <= n.id
<1>1. {m.id : m \in S} \in SUBSET Nat /\ {m.id : m \in S} # {}
  BY DEF Memberships
<1>2. \E i \in {m.id : m \in S} : \A j \in {m.id : m \in S} : i <= j
  BY <1>1, LeastExists
<1> QED
  BY <1>2

(* What login hands on to signIn is the oldest membership's claim, or none *)
(* for an account without memberships.                                     *)
LEMMA LoginLooksUp ==
    ASSUME IInv, NEW s \in Slots, NEW u \in Users, login(s, u)
    PROVE  \E o \in Orgs \cup {NoOrg}, role \in Roles \cup {NoRole} :
              /\ Begin(s, [op |-> "signIn", user |-> u, org |-> o, role |-> role])
              /\ Earned(u, o, role)
<1> DEFINE mine == {m \in rows : m.user = u}
           primary == CHOOSE m \in mine : \A n \in mine : m.id <= n.id
<1>1. CASE mine = {}
  BY <1>1 DEF login, Earned
<1>2. CASE mine # {}
  <2>1. mine \subseteq Memberships
    BY DEF IInv, TypeOK
  <2>2. primary \in mine
    BY <1>2, <2>1, OldestExists
  <2>3. primary.org \in Orgs /\ primary.role \in Roles /\ primary.user = u
    BY <2>1, <2>2 DEF Memberships
  <2>4. Earned(u, primary.org, primary.role)
    BY <2>2, <2>3 DEF IInv, HeldHasRows, Earned
  <2>5. Begin(s, [op |-> "signIn", user |-> u, org |-> primary.org, role |-> primary.role])
    BY <1>2 DEF login
  <2> QED
    BY <2>3, <2>4, <2>5
<1> QED
  BY <1>1, <1>2

(* Somebody who may be taken for an admin of an organization.              *)
Authorized(by, o) ==
    \/ by \in PSAs
    \/ <<by, o, "ORG_ADMIN">> \in held
    \/ \E u \in Users : <<u, by, o, "ORG_ADMIN">> \in lent /\ <<u, o, "ORG_ADMIN">> \in held

(* Claims that let a caller manage an organization are those of somebody   *)
(* who was its admin, or was lent what its admin had, or of a platform     *)
(* admin.                                                                  *)
LEMMA ManagersWereAdmins ==
    ASSUME IInv, NEW c \in tokens, NEW o \in Orgs, MayManage(c, o)
    PROVE  c.user \in Users /\ Authorized(c.user, o)
<1>1. c \in Claim
  BY DEF IInv, TypeOK
<1>2. CASE c.user \in PSAs
  BY <1>1, <1>2 DEF Claim, Authorized
<1>3. CASE c.user \notin PSAs
  <2>1. c.org = o /\ c.role = "ORG_ADMIN" /\ c.role # NoRole
    BY <1>3, MembersAssumption DEF MayManage, assertOrgAdminOrPSA
  <2>2. \/ Earned(c.user, c.org, c.role)
        \/ \E u \in Users : <<u, c.user, c.org, c.role>> \in lent /\ Earned(u, c.org, c.role)
    BY DEF IInv, ClaimsEarned
  <2>3. \A u : Earned(u, c.org, c.role) => <<u, o, "ORG_ADMIN">> \in held
    BY <2>1 DEF Earned
  <2> QED
    BY <1>1, <2>1, <2>2, <2>3 DEF Claim, Authorized
<1> QED
  BY <1>2, <1>3

-----------------------------------------------------------------------------
(* A lookup that is typed and says of its user what is in held keeps the   *)
(* invariant: it touches no table and no claims.                           *)
LEMMA BeginInv ==
    ASSUME IInv, NEW s \in Slots, NEW h \in Handlers, Begin(s, h), UNCHANGED <<tables, claims>>,
           h.op \in {"signIn", "switch"} => Earned(h.user, h.org, h.role),
           h.op = "add" => /\ Authorized(h.by, h.org)
                           /\ h.user \in accounts /\ h.org \in orgs,
           h.op \in {"update", "remove"} => Authorized(h.by, h.row.org)
    PROVE  IInv'
<1> USE DEF Begin, tables, claims
<1>1. /\ local' \in [Slots -> Handlers \cup {Idle}]
      /\ local'[s] = h
      /\ \A t \in Slots \ {s} : local'[t] = local[t]
  BY DEF IInv, TypeOK
<1>2. TypeOK'
  BY <1>1 DEF IInv, TypeOK
<1>3. HeldHasRows' /\ ClaimsEarned'
  BY DEF IInv, HeldHasRows, ClaimsEarned, Earned
<1>4. SignsEarned'
  BY <1>1 DEF IInv, SignsEarned, Running, Earned
<1>5. AddsKnown'
  BY <1>1 DEF IInv, AddsKnown, Running
<1>6. AuthorityFromAdmins'
  <2>1. \A by, o : Authorized(by, o)' <=> Authorized(by, o)
    BY DEF Authorized
  <2>2. AuthorityFromAdmins <=>
            \A t \in Slots : \A op \in {"add", "update", "remove"} : Running(t, op) =>
                Authorized(local[t].by, IF op = "add" THEN local[t].org ELSE local[t].row.org)
    BY DEF AuthorityFromAdmins, Authorized
  <2>3. AuthorityFromAdmins' <=>
            \A t \in Slots : \A op \in {"add", "update", "remove"} : Running(t, op)' =>
                Authorized(local'[t].by, IF op = "add" THEN local'[t].org ELSE local'[t].row.org)
    BY <2>1 DEF AuthorityFromAdmins, Authorized
  <2> HIDE DEF Authorized
  <2> QED
    BY <1>1, <2>2, <2>3 DEF IInv, Running
<1> QED
  BY <1>2, <1>3, <1>4, <1>5, <1>6 DEF IInv

(* A handler that ends, after a write that enrols or re-grades only what   *)
(* held is told of, keeps the invariant: nobody loses what was held.       *)
LEMMA DoneInv ==
    ASSUME IInv, NEW s \in Slots, Done(s), UNCHANGED claims,
           PSAs \subseteq accounts', accounts \subseteq accounts', accounts' \subseteq Users,
           orgs \subseteq orgs', orgs' \subseteq Orgs,
           created' \in 0..MaxRows, rows' \subseteq Memberships,
           \A m \in rows' : m.id <= created' /\ m.user \in accounts' /\ m.org \in orgs',
           held \subseteq held', held' \subseteq Users \X Orgs \X Roles, HeldHasRows'
    PROVE  IInv'
<1>1. /\ local' \in [Slots -> Handlers \cup {Idle}]
      /\ local'[s] = Idle
      /\ \A t \in Slots \ {s} : local'[t] = local[t]
  BY DEF IInv, TypeOK, Done
<1>2. TypeOK'
  BY <1>1 DEF IInv, TypeOK, claims
<1>3. ClaimsEarned'
  BY DEF IInv, ClaimsEarned, Earned, claims
<1>4. SignsEarned'
  BY <1>1 DEF IInv, SignsEarned, Running, Earned
<1>5. AuthorityFromAdmins' /\ AddsKnown'
  BY <1>1 DEF IInv, AuthorityFromAdmins, AddsKnown, Running, claims
<1> QED
  BY <1>2, <1>3, <1>4, <1>5 DEF IInv

(* An enrolment is one more membership, with its entry in held.            *)
LEMMA EnrollHeld ==
    ASSUME IInv, NEW u \in Users, NEW o \in Orgs, NEW role \in Roles, Enroll(u, o, role),
           accounts \subseteq accounts', orgs \subseteq orgs', u \in accounts', o \in orgs'
    PROVE  /\ created' \in 0..MaxRows
           /\ rows' \subseteq Memberships
           /\ \A m \in rows' : m.id <= created' /\ m.user \in accounts' /\ m.org \in orgs'
           /\ held \subseteq held'
           /\ held' \subseteq Users \X Orgs \X Roles
           /\ HeldHasRows'
<1> DEFINE new == [id |-> created + 1, user |-> u, org |-> o, role |-> role]
<1>1. /\ created' = created + 1 /\ created' \in 0..MaxRows
      /\ rows' = rows \cup {new}
      /\ held' = held \cup {<<u, o, role>>}
  BY MembersAssumption DEF Enroll, IInv, TypeOK
<1>2. new \in Memberships
  BY <1>1, MembersAssumption DEF Memberships, Enroll, IInv, TypeOK
<1>3. \A m \in rows : m.id \in Nat /\ m.id <= created
  BY DEF IInv, TypeOK, Memberships
<1>4. \A m \in rows' : m.id <= created' /\ m.user \in accounts' /\ m.org \in orgs'
  BY <1>1, <1>3 DEF IInv, TypeOK
<1>5. ASSUME NEW m \in rows' PROVE <<m.user, m.org, m.role>> \in held'
  <2>1. CASE m \in rows
    BY <1>1, <2>1 DEF IInv, HeldHasRows
  <2>2. CASE m = new
    BY <1>1, <2>2
  <2> QED
    BY <1>1, <2>1, <2>2
<1>6. HeldHasRows'
  BY <1>5 DEF HeldHasRows
<1> QED
  BY <1>1, <1>2, <1>4, <1>6 DEF IInv, TypeOK

(* register: the second step enrols the new account in the organization    *)
(* it creates, or finds the email taken.                                   *)
LEMMA RegisterCommitInv ==
    ASSUME IInv, NEW s \in Slots, NEW o \in Orgs, RegisterCommit(s, o)
    PROVE  IInv'
<1> DEFINE u == local[s].user
           h == [op |-> "signIn", user |-> u, org |-> o, role |-> "ORG_ADMIN"]
<1>1. u \in Users
  BY DEF RegisterCommit, Running, IInv, TypeOK, Handlers
<1>2. CASE u \in accounts
  <2>1. Done(s) /\ UNCHANGED <<tables, claims>>
    BY <1>2 DEF RegisterCommit
  <2> QED
    BY <2>1, DoneInv DEF tables, IInv, TypeOK, HeldHasRows
<1>3. CASE u \notin accounts
  <2>1. /\ orgs' = orgs \cup {o} /\ accounts' = accounts \cup {u}
        /\ Enroll(u, o, "ORG_ADMIN")
        /\ local' = [local EXCEPT ![s] = h]
        /\ UNCHANGED claims
    BY <1>3 DEF RegisterCommit
  <2>2. h \in Handlers
    BY <1>1, MembersAssumption DEF Handlers
  <2>3. /\ created' \in 0..MaxRows
        /\ rows' \subseteq Memberships
        /\ \A m \in rows' : m.id <= created' /\ m.user \in accounts' /\ m.org \in orgs'
        /\ held \subseteq held'
        /\ held' \subseteq Users \X Orgs \X Roles
        /\ HeldHasRows'
    BY <1>1, <2>1, EnrollHeld, MembersAssumption
  <2>4. <<u, o, "ORG_ADMIN">> \in held'
    BY <2>1 DEF Enroll
  <2>5. TypeOK'
    BY <1>1, <2>1, <2>2, <2>3 DEF IInv, TypeOK, claims
  <2>6. ClaimsEarned'
    BY <2>1, <2>3 DEF IInv, ClaimsEarned, Earned, claims
  <2>7. /\ local'[s] = h
        /\ \A t \in Slots \ {s} : local'[t] = local[t]
    BY <2>1 DEF IInv, TypeOK
  <2>8. /\ \A t \in Slots \ {s} : local'[t] = local[t]
        /\ held \subseteq held'
    BY <2>3, <2>7
  <2>9. SignsEarned'
    BY <2>4, <2>7, <2>8 DEF IInv, SignsEarned, Running, Earned
  <2>10. AuthorityFromAdmins' /\ AddsKnown'
    <3>1. local'[s].op \notin {"add", "update", "remove"}
      BY <2>7
    <3> QED
      BY SMTT(30), <2>1, <2>8, <3>1 DEF IInv, AuthorityFromAdmins, AddsKnown, Running, claims
  <2> QED
    BY <2>3, <2>5, <2>6, <2>9, <2>10 DEF IInv
<1> QED
  BY <1>2, <1>3

(* Claims that go on: whoever had earned them still has, and what was lent *)
(* was.                                                                    *)
LEMMA EarnedStays ==
    ASSUME held \subseteq held', lent \subseteq lent', NEW c,
           \/ Earned(c.user, c.org, c.role)
           \/ \E u \in Users : <<u, c.user, c.org, c.role>> \in lent /\ Earned(u, c.org, c.role)
    PROVE  \/ Earned(c.user, c.org, c.role)'
           \/ \E u \in Users : <<u, c.user, c.org, c.role>> \in lent' /\ Earned(u, c.org, c.role)'
BY DEF Earned

(* The claims of a login or switch-org are those that were looked up, and  *)
(* what it adds to a session its user earned.                              *)
LEMMA SignInv ==
    ASSUME IInv, NEW s \in Slots, SignIn(s) \/ SignSwitch(s)
    PROVE  IInv'
<1>1. local[s] \in Handlers /\ local[s].op \in {"signIn", "switch"}
  BY DEF SignIn, SignSwitch, Running, IInv, TypeOK
<1>2. PICK c \in Claim : c = Looked(s) /\ Earned(c.user, c.org, c.role)
  BY <1>1 DEF Handlers, Claim, Looked, SignIn, SignSwitch, Running, IInv, SignsEarned
<1>3. tokens' = tokens \cup {c} /\ Done(s) /\ UNCHANGED tables
  BY <1>2 DEF SignIn, SignSwitch
<1>4. /\ local' \in [Slots -> Handlers \cup {Idle}]
      /\ local'[s] = Idle
      /\ \A t \in Slots \ {s} : local'[t] = local[t]
  BY <1>3 DEF IInv, TypeOK, Done
<1>5. PICK d \in Claim :
          /\ sessions' \subseteq sessions \cup {d}
          /\ lent' \in {lent, lent \cup {<<c.user, d.user, c.org, c.role>>}}
          /\ d.org = c.org /\ d.role = c.role
          /\ d.user = c.user \/ <<c.user, d.user, c.org, c.role>> \in lent'
  <2>1. CASE SignIn(s)
    BY <1>2, <2>1 DEF SignIn
  <2>2. CASE SignSwitch(s) /\ UNCHANGED <<sessions, lent>>
    BY <1>2, <2>2 DEF Claim
  <2>3. CASE SignSwitch(s) /\ ~ UNCHANGED <<sessions, lent>>
    <3>1. PICK x \in sessions :
            /\ sessions' \subseteq sessions \cup {[c EXCEPT !.user = x.user]}
            /\ lent' = IF x.user = c.user THEN lent
                       ELSE lent \cup {<<c.user, x.user, c.org, c.role>>}
      BY <1>2, <2>3 DEF SignSwitch
    <3>2. x \in Claim
      BY DEF IInv, TypeOK
    <3>3. /\ [c EXCEPT !.user = x.user] \in Claim
          /\ [c EXCEPT !.user = x.user].user = x.user
          /\ [c EXCEPT !.user = x.user].org = c.org
          /\ [c EXCEPT !.user = x.user].role = c.role
      BY <1>2, <3>2 DEF Claim
    <3> QED
      BY <3>1, <3>3
  <2> QED
    BY <2>1, <2>2, <2>3
<1>6. TypeOK'
  <2>1. /\ c.user \in Users /\ d.user \in Users
        /\ c.org \in Orgs \cup {NoOrg} /\ c.role \in Roles \cup {NoRole}
    BY <1>2 DEF Claim
  <2>2. lent' \subseteq Users \X Users \X (Orgs \cup {NoOrg}) \X (Roles \cup {NoRole})
    BY <1>5, <2>1 DEF IInv, TypeOK
  <2> QED
    BY <1>2, <1>3, <1>4, <1>5, <2>2 DEF IInv, TypeOK, tables
<1>7. ClaimsEarned'
  <2> SUFFICES ASSUME NEW e \in tokens' \cup sessions'
               PROVE  \/ Earned(e.user, e.org, e.role)'
                      \/ \E u \in Users : /\ <<u, e.user, e.org, e.role>> \in lent'
                                          /\ Earned(u, e.org, e.role)'
    BY DEF ClaimsEarned
  <2>1. held \subseteq held' /\ lent \subseteq lent'
    BY <1>3, <1>5 DEF tables
  <2>2. CASE e \in tokens \cup sessions
    BY <2>1, <2>2, EarnedStays DEF IInv, ClaimsEarned
  <2>3. Earned(c.user, c.org, c.role)'
    BY <1>2, <1>3 DEF Earned, tables
  <2>4. CASE e = c
    BY <2>3, <2>4
  <2>5. CASE e = d
    <3>1. c.user \in Users
      BY <1>2 DEF Claim
    <3> QED
      BY <1>5, <2>3, <2>5, <3>1
  <2> QED
    BY <1>3, <1>5, <2>2, <2>4, <2>5
<1>8. HeldHasRows' /\ SignsEarned' /\ AddsKnown'
  BY <1>3, <1>4 DEF IInv, HeldHasRows, SignsEarned, AddsKnown, Running, Earned, tables
<1>9. AuthorityFromAdmins'
  BY <1>3, <1>4, <1>5 DEF IInv, AuthorityFromAdmins, Running, tables
<1> QED
  BY <1>6, <1>7, <1>8, <1>9 DEF IInv

(* A refresh says what the session says; expiry and logout take away.      *)
LEMMA CopyInv ==
    ASSUME IInv,
           \/ \E c \in sessions : refresh(c) \/ EndSession(c)
           \/ \E c \in tokens : Expire(c)
    PROVE  IInv'
<1>1. /\ tokens' \cup sessions' \subseteq tokens \cup sessions
      /\ UNCHANGED <<tables, lent, local>>
  BY DEF refresh, EndSession, Expire
<1>2. TypeOK'
  BY <1>1 DEF IInv, TypeOK, tables
<1>3. ClaimsEarned'
  BY <1>1 DEF IInv, ClaimsEarned, Earned, tables
<1> QED
  BY <1>1, <1>2, <1>3
  DEF IInv, HeldHasRows, AddsKnown, SignsEarned, AuthorityFromAdmins, Running, Earned, tables

(* addMember's insert, which the unique constraint may refuse.             *)
LEMMA AddCommitInv ==
    ASSUME IInv, NEW s \in Slots, AddCommit(s)
    PROVE  IInv'
<1>1. local[s].user \in Users /\ local[s].org \in Orgs /\ local[s].role \in Roles
  BY DEF AddCommit, Running, IInv, TypeOK, Handlers
<1>2. /\ Done(s) /\ UNCHANGED <<accounts, orgs, claims>>
      /\ Enroll(local[s].user, local[s].org, local[s].role) \/ UNCHANGED <<rows, created, held>>
  BY DEF AddCommit
<1>3. CASE UNCHANGED <<rows, created, held>>
  BY <1>2, <1>3, DoneInv DEF IInv, TypeOK, HeldHasRows
<1>4. CASE Enroll(local[s].user, local[s].org, local[s].role)
  <2>1. local[s].user \in accounts /\ local[s].org \in orgs
    BY DEF AddCommit, Running, IInv, AddsKnown
  <2> QED
    BY <1>1, <1>2, <1>4, <2>1, EnrollHeld, DoneInv DEF IInv, TypeOK
<1> QED
  BY <1>2, <1>3, <1>4

(* updateMemberRole's write: a row it re-grades is still of the same user  *)
(* and organization.                                                       *)
LEMMA UpdateCommitInv ==
    ASSUME IInv, NEW s \in Slots, UpdateCommit(s)
    PROVE  IInv'
<1> DEFINE h == local[s]
           now == {[m EXCEPT !.role = h.role] : m \in ById(h)}
<1>1. h.role \in Roles
  BY DEF UpdateCommit, Running, IInv, TypeOK, Handlers
<1>2. /\ rows' = (rows \ ById(h)) \cup now
      /\ held' = held \cup {<<m.user, m.org, m.role>> : m \in now}
      /\ Done(s) /\ UNCHANGED <<accounts, orgs, created, claims>>
  BY DEF UpdateCommit
<1>3. ASSUME NEW n \in now
      PROVE  /\ n \in Memberships
             /\ n.id <= created /\ n.user \in accounts /\ n.org \in orgs
  <2>1. PICK m \in rows : n = [m EXCEPT !.role = h.role]
    BY DEF ById
  <2>2. m \in Memberships /\ m.id <= created /\ m.user \in accounts /\ m.org \in orgs
    BY DEF IInv, TypeOK
  <2> QED
    BY <1>1, <2>1, <2>2 DEF Memberships
<1>4. \A n \in now : <<n.user, n.org, n.role>> \in Users \X Orgs \X Roles
  BY <1>3 DEF Memberships
<1>5. HeldHasRows'
  <2> SUFFICES ASSUME NEW m \in rows' PROVE <<m.user, m.org, m.role>> \in held'
    BY DEF HeldHasRows
  <2>1. CASE m \in rows
    BY <1>2, <2>1 DEF IInv, HeldHasRows
  <2>2. CASE m \in now
    BY <1>2, <2>2
  <2> QED
    BY <1>2, <2>1, <2>2
<1>6. /\ rows' \subseteq Memberships
      /\ \A m \in rows' : m.id <= created' /\ m.user \in accounts' /\ m.org \in orgs'
  BY <1>2, <1>3 DEF IInv, TypeOK
<1>7. held \subseteq held' /\ held' \subseteq Users \X Orgs \X Roles
  <2> HIDE DEF now
  <2> QED
    BY <1>2, <1>4 DEF IInv, TypeOK
<1> QED
  BY <1>2, <1>5, <1>6, <1>7, DoneInv DEF IInv, TypeOK

(* removeMember's delete and a stop only take away.                        *)
LEMMA TakeAwayInv ==
    ASSUME IInv, NEW t \in Slots, RemoveCommit(t) \/ Crash(t)
    PROVE  IInv'
<1>1. ASSUME NEW s \in Slots, RemoveCommit(s) PROVE IInv'
  <2>1. /\ rows' \subseteq rows
        /\ Done(s) /\ UNCHANGED <<accounts, orgs, created, held, claims>>
    BY <1>1 DEF RemoveCommit
  <2> QED
    BY <2>1, DoneInv DEF IInv, TypeOK, HeldHasRows
<1>2. ASSUME NEW s \in Slots, Crash(s) PROVE IInv'
  BY <1>2, DoneInv DEF Crash, tables, IInv, TypeOK, HeldHasRows
<1> QED
  BY <1>1, <1>2

-----------------------------------------------------------------------------
(* The lookups.                                                            *)
LEMMA LookupInv ==
    ASSUME IInv, NEW s \in Slots, Lookup(s)
    PROVE  IInv'
<1>1. ASSUME NEW u \in Users, register(s, u) PROVE IInv'
  <2>1. [op |-> "register", user |-> u] \in Handlers
    BY DEF Handlers
  <2> QED
    BY <1>1, <2>1, BeginInv DEF register
<1>2. ASSUME NEW u \in Users, login(s, u) PROVE IInv'
  <2>1. PICK o \in Orgs \cup {NoOrg}, role \in Roles \cup {NoRole} :
          /\ Begin(s, [op |-> "signIn", user |-> u, org |-> o, role |-> role])
          /\ Earned(u, o, role)
    BY <1>2, LoginLooksUp
  <2>2. [op |-> "signIn", user |-> u, org |-> o, role |-> role] \in Handlers
    BY DEF Handlers
  <2> QED
    BY <1>2, <2>1, <2>2, BeginInv DEF login
<1>3. ASSUME NEW c \in tokens, NEW o \in Orgs, switchOrg(s, c, o) PROVE IInv'
  <2>1. c.user \in Users
    BY DEF IInv, TypeOK, Claim
  <2>2. PICK role \in Roles \cup {NoRole} :
          /\ Begin(s, [op |-> "switch", user |-> c.user, org |-> o, role |-> role])
          /\ Earned(c.user, o, role)
    <3>1. CASE \E m \in Membership(c.user, o) :
                  Begin(s, [op |-> "switch", user |-> c.user, org |-> o, role |-> m.role])
      BY <3>1 DEF Membership, IInv, TypeOK, Memberships, HeldHasRows, Earned
    <3>2. CASE /\ c.user \in PSAs
               /\ Begin(s, [op |-> "switch", user |-> c.user, org |-> o, role |-> NoRole])
      BY <3>2 DEF Earned
    <3> QED
      BY <1>3, <3>1, <3>2 DEF switchOrg
  <2>3. [op |-> "switch", user |-> c.user, org |-> o, role |-> role] \in Handlers
    BY <2>1 DEF Handlers
  <2> QED
    BY <1>3, <2>2, <2>3, BeginInv DEF switchOrg
<1>4. ASSUME NEW c \in tokens, NEW o \in Orgs, NEW u \in Users, NEW role \in Roles,
             addMember(s, c, o, u, role)
      PROVE  IInv'
  <2>1. c.user \in Users /\ Authorized(c.user, o)
    BY <1>4, ManagersWereAdmins DEF addMember
  <2>2. [op |-> "add", by |-> c.user, user |-> u, org |-> o, role |-> role] \in Handlers
    BY <2>1 DEF Handlers
  <2> QED
    BY <1>4, <2>1, <2>2, BeginInv DEF addMember
<1>5. ASSUME NEW c \in tokens, NEW o \in Orgs, NEW u \in Users, MayManage(c, o),
             NEW m \in Membership(u, o)
      PROVE  /\ c.user \in Users
             /\ Authorized(c.user, Key(m).org)
             /\ Key(m) \in Keys
  <2>1. m \in Memberships /\ m.org = o
    BY DEF Membership, IInv, TypeOK
  <2> QED
    BY <1>5, <2>1, ManagersWereAdmins DEF Key, Keys, Memberships
<1>6. ASSUME NEW c \in tokens, NEW o \in Orgs, NEW u \in Users, NEW role \in Roles,
             updateMemberRole(s, c, o, u, role)
      PROVE  IInv'
  <2>1. PICK m \in Membership(u, o) :
          Begin(s, [op |-> "update", by |-> c.user, row |-> Key(m), role |-> role])
    BY <1>6 DEF updateMemberRole
  <2>2. [op |-> "update", by |-> c.user, row |-> Key(m), role |-> role] \in Handlers
    BY <1>5, <1>6 DEF Handlers, updateMemberRole
  <2> QED
    BY <1>5, <1>6, <2>1, <2>2, BeginInv DEF updateMemberRole
<1>7. ASSUME NEW c \in tokens, NEW o \in Orgs, NEW u \in Users, removeMember(s, c, o, u)
      PROVE  IInv'
  <2>1. PICK m \in Membership(u, o) :
          Begin(s, [op |-> "remove", by |-> c.user, row |-> Key(m)])
    BY <1>7 DEF removeMember
  <2>2. [op |-> "remove", by |-> c.user, row |-> Key(m)] \in Handlers
    BY <1>5, <1>7 DEF Handlers, removeMember
  <2> QED
    BY <1>5, <1>7, <2>1, <2>2, BeginInv DEF removeMember
<1> QED
  BY <1>1, <1>2, <1>3, <1>4, <1>6, <1>7 DEF Lookup

(* IInv is inductive.                                                      *)
LEMMA Inductive == Spec => []IInv
<1>1. Init => IInv
  BY MembersAssumption
  DEF Init, IInv, TypeOK, HeldHasRows, AddsKnown, SignsEarned, ClaimsEarned,
      AuthorityFromAdmins, Running
<1>2. IInv /\ [Next]_vars => IInv'
  <2> SUFFICES ASSUME IInv, [Next]_vars PROVE IInv'
    OBVIOUS
  <2>1. ASSUME NEW s \in Slots, Commit(s) PROVE IInv'
    BY <2>1, RegisterCommitInv, SignInv, AddCommitInv, UpdateCommitInv, TakeAwayInv DEF Commit
  <2>2. CASE UNCHANGED vars
    BY <2>2 DEF vars, tables, claims, IInv, TypeOK, HeldHasRows, AddsKnown, SignsEarned, ClaimsEarned,
                AuthorityFromAdmins, Running, Earned
  <2> QED
    BY <2>1, <2>2, LookupInv, TakeAwayInv, CopyInv DEF Next
<1> QED
  BY <1>1, <1>2, PTL DEF Spec

-----------------------------------------------------------------------------
(* Every variable of every reachable state has its type; in particular a   *)
(* membership is always of an account and an organization that exist.      *)
THEOREM TypeCorrect == Spec => []TypeOK
BY Inductive, PTL DEF IInv

(* However lookups and writes interleave and stop, nobody gets a token or  *)
(* a session with a role in an organization they never had there, but for  *)
(* a session into which the switch-org of a user who had it was written    *)
(* (auth.service.js:59-90, 98-161, session.js:54-63).                      *)
THEOREM OnlyEarnedClaims == Spec => []ClaimsEarned
BY Inductive, PTL DEF IInv

(* Nobody's members are changed but for someone who was an admin of that   *)
(* very organization, or in whose session such an admin's switch-org was   *)
(* written, or a platform admin (org.service.js:13-16).                    *)
THEOREM OnlyAdminsManage == Spec => []AuthorityFromAdmins
BY Inductive, PTL DEF IInv

(* A change of a role and a removal touch no row but the one looked up,    *)
(* whatever was removed and added again meanwhile.                         *)
THEOREM ChangesHitTheirRow == Spec => UpdatesWhatItSaw
<1>1. ASSUME IInv, Next, NEW s \in Slots, NEW op \in {"update", "remove"},
             Running(s, op), local'[s] = Idle
      PROVE  {m \in rows : m.id # local[s].row.id} \subseteq rows'
  <2>1. local[s] # Idle /\ local[s].op = op
    BY <1>1 DEF Running
  <2>2. ASSUME NEW t \in Slots, NEW l, local' = [local EXCEPT ![t] = l]
        PROVE  t = s
    BY <1>1, <2>1, <2>2 DEF IInv, TypeOK
  <2>3. ASSUME NEW t \in Slots, Lookup(t) PROVE FALSE
    <3>1. PICK h : Begin(t, h)
      BY ZenonT(40), <2>3 DEF Lookup, register, login, switchOrg, addMember, updateMemberRole, removeMember
    <3> QED
      BY <2>1, <2>2, <3>1 DEF Begin
  <2>4. ASSUME NEW t \in Slots, UpdateCommit(t) \/ RemoveCommit(t)
        PROVE  {m \in rows : m.id # local[s].row.id} \subseteq rows'
    <3>1. t = s
      BY <2>2, <2>4 DEF UpdateCommit, RemoveCommit, Done
    <3> QED
      BY <2>4, <3>1 DEF UpdateCommit, RemoveCommit, ById
  <2>5. ASSUME NEW t \in Slots, NEW o \in Orgs, RegisterCommit(t, o)
        PROVE  rows \subseteq rows'
    BY <2>5 DEF RegisterCommit, Enroll, tables
  <2>6. ASSUME NEW t \in Slots, Crash(t) PROVE rows' = rows
    BY <2>6 DEF Crash, tables
  <2>7. ASSUME NEW c, refresh(c) \/ EndSession(c) \/ Expire(c) PROVE rows' = rows
    BY <2>7 DEF refresh, EndSession, Expire, tables
  <2>8. ASSUME NEW t \in Slots, SignIn(t) \/ SignSwitch(t) \/ AddCommit(t)
        PROVE  rows \subseteq rows'
    BY <2>8 DEF SignIn, SignSwitch, AddCommit, Enroll, tables
  <2> QED
    BY <1>1, <2>3, <2>4, <2>5, <2>6, <2>7, <2>8 DEF Next, Commit
<1>2. IInv /\ [Next]_vars
        => [\A s \in Slots, op \in {"update", "remove"} :
               Running(s, op) /\ local'[s] = Idle
                  => {m \in rows : m.id # local[s].row.id} \subseteq rows']_vars
  BY <1>1
<1> QED
  BY <1>2, Inductive, PTL DEF Spec, UpdatesWhatItSaw
=============================================================================
