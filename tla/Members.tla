------------------------------- MODULE Members -------------------------------
(***************************************************************************)
(* Organizations, their members and the authority that members carry:      *)
(* org.service.js of identity-service, and the handlers of auth.service.js *)
(* that turn a membership into the claims of an access token and into the  *)
(* org context of a session.                                               *)
(*                                                                         *)
(* A handler that looks something up and then writes is a slot: other      *)
(* handlers run between the two.  Postgres holds one account per email and *)
(* one membership per user and organization, whatever was looked up.  The  *)
(* claims of a token and of a session are copies; nothing updates or       *)
(* withdraws them when a membership changes: refresh copies those of the   *)
(* session, and reads no membership.  Sessions has the refresh tokens.     *)
(*                                                                         *)
(* A request is made in the name of the user of its access token.  The     *)
(* session that switch-org updates is that of the refresh cookie, which    *)
(* all tabs of a browser share and which may by then be another user's.    *)
(*                                                                         *)
(* Ghost variables: held, the memberships there have ever been; lent, what *)
(* a switch-org of one user wrote into a session of another.               *)
(***************************************************************************)
EXTENDS Naturals, FiniteSets

CONSTANTS Users,       \* emails; each is the email of at most one account
          PSAs,        \* accounts with isPlatformAdmin, from the seed
          Orgs,        \* ids an organization can get
          Roles,       \* the enum OrgRole
          MaxRows,     \* bound: memberships created
          MaxTokens,   \* bound: different claims in access tokens at a time
          MaxSessions, \* bound: different claims in sessions at a time
          Slots,       \* handlers that run at the same time
          NoOrg,       \* a null activeOrgId
          NoRole,      \* a null orgRole
          Idle         \* the local variables of a slot without a handler

ASSUME MembersAssumption ==
    /\ PSAs \subseteq Users
    /\ "ORG_ADMIN" \in Roles
    /\ MaxRows \in Nat /\ MaxTokens \in Nat /\ MaxSessions \in Nat
    /\ NoOrg \notin Orgs
    /\ NoRole \notin Roles

VARIABLES accounts,    \* table User
          orgs,        \* table Organization
          rows,        \* table OrgMembership; ids in the order of createdAt
          created,     \* the number of memberships created so far
          tokens,      \* what unexpired access tokens say
          sessions,    \* what live sessions say
          local,       \* what each running handler has looked up
          held,        \* ghost
          lent         \* ghost

tables == <<accounts, orgs, rows, created, held>>
claims == <<tokens, sessions, lent>>
vars == <<tables, claims, local>>

Keys == [id : 1..MaxRows, user : Users, org : Orgs]
Memberships == [id : 1..MaxRows, user : Users, org : Orgs, role : Roles]
Claim == [user : Users, org : Orgs \cup {NoOrg}, role : Roles \cup {NoRole}]
Handlers ==
    [op : {"register"}, user : Users]
    \cup [op : {"signIn", "switch"}, user : Users,
          org : Orgs \cup {NoOrg}, role : Roles \cup {NoRole}]
    \cup [op : {"add"}, by : Users, user : Users, org : Orgs, role : Roles]
    \cup [op : {"update"}, by : Users, row : Keys, role : Roles]
    \cup [op : {"remove"}, by : Users, row : Keys]

Init ==
    /\ accounts = PSAs
    /\ orgs = {}
    /\ rows = {}
    /\ created = 0
    /\ tokens = {}
    /\ sessions = {}
    /\ local = [s \in Slots |-> Idle]
    /\ held = {}
    /\ lent = {}

(* The membership of a user in an organization: a set of at most one row.  *)
Membership(u, o) == {m \in rows : m.user = u /\ m.org = o}

Key(m) == [id |-> m.id, user |-> m.user, org |-> m.org]

(* INSERT of a membership. *)
Enroll(u, o, role) ==
    /\ created < MaxRows
    /\ created' = created + 1
    /\ rows' = rows \cup {[id |-> created + 1, user |-> u, org |-> o, role |-> role]}
    /\ held' = held \cup {<<u, o, role>>}

Begin(s, h) ==
    /\ local[s] = Idle
    /\ local' = [local EXCEPT ![s] = h]

Running(s, op) == local[s] # Idle /\ local[s].op = op

Done(s) == local' = [local EXCEPT ![s] = Idle]

-----------------------------------------------------------------------------
(* register: the lookup of the email, the transaction after the hashing,   *)
(* and the session (signIn).  The transaction fails as a whole when the    *)
(* email has been taken meanwhile.                                         *)
register(s, u) ==
    /\ u \notin accounts
    /\ Begin(s, [op |-> "register", user |-> u])
    /\ UNCHANGED <<tables, claims>>

(* Mutant: the transaction does not create the account. *)
RegisterHalf(s, o) ==
    /\ Running(s, "register")
    /\ o \in Orgs \ orgs
    /\ orgs' = orgs \cup {o}
    /\ Enroll(local[s].user, o, "ORG_ADMIN")
    /\ Done(s)
    /\ UNCHANGED <<accounts, claims>>

RegisterCommit(s, o) ==
    /\ Running(s, "register")
    /\ LET u == local[s].user
       IN  \/ /\ u \notin accounts
              /\ o \in Orgs \ orgs
              /\ orgs' = orgs \cup {o}
              /\ accounts' = accounts \cup {u}
              /\ Enroll(u, o, "ORG_ADMIN")
              /\ local' = [local EXCEPT ![s] =
                    [op |-> "signIn", user |-> u, org |-> o, role |-> "ORG_ADMIN"]]
           \/ /\ u \in accounts
              /\ Done(s)
              /\ UNCHANGED tables
    /\ UNCHANGED claims

(* login: the account with its memberships; the oldest one is primary. *)
login(s, u) ==
    LET mine == {m \in rows : m.user = u}
        primary == CHOOSE m \in mine : \A n \in mine : m.id <= n.id
    IN  /\ u \in accounts
        /\ Begin(s, IF mine = {}
                    THEN [op |-> "signIn", user |-> u, org |-> NoOrg, role |-> NoRole]
                    ELSE [op |-> "signIn", user |-> u, org |-> primary.org,
                          role |-> primary.role])
        /\ UNCHANGED <<tables, claims>>

(* Mutant: nobody looks whether the caller is a member. *)
SwitchAnywhere(s, c, o) ==
    /\ Begin(s, [op |-> "switch", user |-> c.user, org |-> o,
                 role |-> IF Membership(c.user, o) = {} THEN NoRole
                          ELSE (CHOOSE m \in Membership(c.user, o) : TRUE).role])
    /\ UNCHANGED <<tables, claims>>

(* switchOrg: a member keeps the role of the membership; a platform admin  *)
(* may go to any organization id, without a role unless a member there.    *)
switchOrg(s, c, o) ==
    /\ \/ \E m \in Membership(c.user, o) :
             Begin(s, [op |-> "switch", user |-> c.user, org |-> o, role |-> m.role])
       \/ /\ Membership(c.user, o) = {}
          /\ c.user \in PSAs
          /\ Begin(s, [op |-> "switch", user |-> c.user, org |-> o, role |-> NoRole])
    /\ UNCHANGED <<tables, claims>>

(* What a login or a switch-org has looked up. *)
Looked(s) == [user |-> local[s].user, org |-> local[s].org, role |-> local[s].role]

InBounds ==
    Cardinality(tokens') <= MaxTokens /\ Cardinality(sessions') <= MaxSessions

(* register and login: jwt.sign and createSession. *)
SignIn(s) ==
    /\ Running(s, "signIn")
    /\ tokens' = tokens \cup {Looked(s)}
    /\ sessions' = sessions \cup {Looked(s)}
    /\ InBounds
    /\ Done(s)
    /\ UNCHANGED <<tables, lent>>

(* switch-org: jwt.sign, and updateSessionContext of the session of the    *)
(* cookie that came along, if it is live.  That session keeps its user;    *)
(* what it said stays in sessions if another one, or a rotation that has   *)
(* read it, says the same.                                                 *)
SignSwitch(s) ==
    LET c == Looked(s)
    IN  /\ Running(s, "switch")
        /\ tokens' = tokens \cup {c}
        /\ \/ UNCHANGED <<sessions, lent>>
           \/ \E x \in sessions :
                 /\ \E others \in {sessions, sessions \ {x}} :
                       sessions' = others \cup {[c EXCEPT !.user = x.user]}
                 /\ lent' = IF x.user = c.user THEN lent
                            ELSE lent \cup {<<c.user, x.user, c.org, c.role>>}
        /\ InBounds
        /\ Done(s)
        /\ UNCHANGED tables

(* refresh: a token with what the session says, and the user's flag. *)
refresh(c) ==
    /\ tokens' = tokens \cup {c}
    /\ UNCHANGED <<tables, sessions, lent, local>>
    /\ InBounds

(* The last token with these claims expires (ACCESS_TOKEN_TTL_SECONDS). *)
Expire(c) ==
    /\ tokens' = tokens \ {c}
    /\ UNCHANGED <<tables, sessions, lent, local>>

(* The last session with these claims has been logged out, or has ended. *)
EndSession(c) ==
    /\ sessions' = sessions \ {c}
    /\ UNCHANGED <<tables, tokens, lent, local>>

-----------------------------------------------------------------------------
(* Mutant: the role is looked at, the organization is not. *)
AnyOrgAdmin(c, o) ==
    c.user \in PSAs \/ c.role = "ORG_ADMIN"

assertOrgAdminOrPSA(c, o) ==
    c.user \in PSAs \/ (c.org = o /\ c.role = "ORG_ADMIN")

requireRole(c, roles, allowPlatformAdmin) ==
    (allowPlatformAdmin /\ c.user \in PSAs) \/ c.role \in roles

(* The routes under /orgs/:id/members: decided by the claims alone. *)
MayManage(c, o) ==
    requireRole(c, {"ORG_ADMIN"}, TRUE) /\ assertOrgAdminOrPSA(c, o)

addMember(s, c, o, u, role) ==
    /\ MayManage(c, o)
    /\ o \in orgs
    /\ u \in accounts
    /\ Membership(u, o) = {}
    /\ Begin(s, [op |-> "add", by |-> c.user, user |-> u, org |-> o, role |-> role])
    /\ UNCHANGED <<tables, claims>>

(* The INSERT, which the unique constraint refuses if a membership has     *)
(* been created since the lookup.                                          *)
AddCommit(s) ==
    /\ Running(s, "add")
    /\ LET h == local[s]
       IN  \/ /\ Membership(h.user, h.org) = {}
              /\ Enroll(h.user, h.org, h.role)
           \/ /\ Membership(h.user, h.org) # {}
              /\ UNCHANGED <<rows, created, held>>
    /\ Done(s)
    /\ UNCHANGED <<accounts, orgs, claims>>

updateMemberRole(s, c, o, u, role) ==
    /\ MayManage(c, o)
    /\ \E m \in Membership(u, o) :
          Begin(s, [op |-> "update", by |-> c.user, row |-> Key(m), role |-> role])
    /\ UNCHANGED <<tables, claims>>

(* Mutant: by userId and orgId, which is also what was looked up. *)
ByUserAndOrg(h) == Membership(h.row.user, h.row.org)

(* The rows an UPDATE or DELETE by id meets: none if it has been deleted. *)
ById(h) == {m \in rows : m.id = h.row.id}

UpdateCommit(s) ==
    /\ Running(s, "update")
    /\ LET h == local[s]
           now == {[m EXCEPT !.role = h.role] : m \in ById(h)}
       IN  /\ rows' = (rows \ ById(h)) \cup now
           /\ held' = held \cup {<<m.user, m.org, m.role>> : m \in now}
    /\ Done(s)
    /\ UNCHANGED <<accounts, orgs, created, claims>>

removeMember(s, c, o, u) ==
    /\ MayManage(c, o)
    /\ \E m \in Membership(u, o) : Begin(s, [op |-> "remove", by |-> c.user, row |-> Key(m)])
    /\ UNCHANGED <<tables, claims>>

RemoveCommit(s) ==
    /\ Running(s, "remove")
    /\ rows' = rows \ ById(local[s])
    /\ Done(s)
    /\ UNCHANGED <<accounts, orgs, created, held, claims>>

(* A handler stops between two of its steps. *)
Crash(s) ==
    /\ local[s] # Idle
    /\ Done(s)
    /\ UNCHANGED <<tables, claims>>

-----------------------------------------------------------------------------
Lookup(s) ==
    \/ \E u \in Users : register(s, u) \/ login(s, u)
    \/ \E c \in tokens, o \in Orgs :
          \/ switchOrg(s, c, o)
          \/ \E u \in Users :
                \/ removeMember(s, c, o, u)
                \/ \E role \in Roles :
                      addMember(s, c, o, u, role) \/ updateMemberRole(s, c, o, u, role)

Commit(s) ==
    \/ \E o \in Orgs : RegisterCommit(s, o)
    \/ SignIn(s) \/ SignSwitch(s) \/ AddCommit(s) \/ UpdateCommit(s) \/ RemoveCommit(s)

Next == \/ \E s \in Slots : Lookup(s) \/ Commit(s) \/ Crash(s)
        \/ \E c \in sessions : refresh(c) \/ EndSession(c)
        \/ \E c \in tokens : Expire(c)

Spec == Init /\ [][Next]_vars

-----------------------------------------------------------------------------
TypeOK ==
    /\ PSAs \subseteq accounts /\ accounts \subseteq Users
    /\ orgs \subseteq Orgs
    /\ created \in 0..MaxRows
    /\ rows \subseteq Memberships
    /\ \A m \in rows : m.id <= created /\ m.user \in accounts /\ m.org \in orgs
    /\ tokens \subseteq Claim /\ sessions \subseteq Claim
    /\ local \in [Slots -> Handlers \cup {Idle}]
    /\ held \subseteq Users \X Orgs \X Roles
    /\ lent \subseteq Users \X Users \X (Orgs \cup {NoOrg}) \X (Roles \cup {NoRole})

(* The claims are those of a membership the user had at some time, none at *)
(* all, or those of a platform admin who visits an organization.           *)
Earned(u, o, role) ==
    \/ <<u, o, role>> \in held
    \/ o = NoOrg /\ role = NoRole
    \/ u \in PSAs /\ role = NoRole

(* No access token and no session carries a role in an organization that   *)
(* its user has never had there, whatever was added, changed or removed    *)
(* between a handler's lookup and its answer, unless a user who had it     *)
(* switched there with that user's cookie.                                 *)
ClaimsEarned ==
    \A c \in tokens \cup sessions :
        \/ Earned(c.user, c.org, c.role)
        \/ \E u \in Users : <<u, c.user, c.org, c.role>> \in lent /\ Earned(u, c.org, c.role)

(* A handler that is about to change the members of an organization acts   *)
(* for a platform admin, for someone who was ORG_ADMIN of that very        *)
(* organization at some time, or for someone into whose session such an    *)
(* admin's switch-org to that organization was written.                    *)
AuthorityFromAdmins ==
    \A s \in Slots : \A op \in {"add", "update", "remove"} : Running(s, op) =>
        LET by == local[s].by
            o == IF op = "add" THEN local[s].org ELSE local[s].row.org
        IN  \/ by \in PSAs
            \/ <<by, o, "ORG_ADMIN">> \in held
            \/ \E u \in Users : <<u, by, o, "ORG_ADMIN">> \in lent /\ <<u, o, "ORG_ADMIN">> \in held

(* A handler changes no membership that was created after its lookup: what *)
(* was decided about a member who was then removed does not touch a user   *)
(* who has been added again meanwhile.                                     *)
UpdatesWhatItSaw ==
    [][\A s \in Slots, op \in {"update", "remove"} :
          Running(s, op) /\ local'[s] = Idle
              => {m \in rows : m.id # local[s].row.id} \subseteq rows']_vars

=============================================================================
