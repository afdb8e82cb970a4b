------------------------------ MODULE Sessions ------------------------------
(***************************************************************************)
(* The refresh-token sessions of one user: lib/session.js of               *)
(* identity-service, the handlers of auth.service.js and auth.routes.js    *)
(* that call it, and the cookie jars of the user's browsers.  Both         *)
(* front ends and all tabs of a browser share one cookie.  All requests    *)
(* are the user's own: Members has a switch-org whose cookie is another's. *)
(*                                                                         *)
(* Redis executes one command at a time; a handler is a slot that issues   *)
(* its commands one by one, and commands of other handlers come in         *)
(* between.  Every SET is unconditional, whatever was read before.         *)
(*                                                                         *)
(* What a handler is (op) is known after its first command: a refresh that *)
(* found a live key is a "rotate", one that found a tombstone is a "wipe", *)
(* like a logout; register and login are "login".  Requests that find no   *)
(* key are answered and change nothing but the cookie.                     *)
(*                                                                         *)
(* Ghost variables: held, the tokens a browser has ever held; successors,  *)
(* the tokens each token was rotated to; wanted, the context the last      *)
(* switch-org of a session chose, by its current token; overlapped, the    *)
(* sets {op1, op2} of what has run at the same time; raced, the tokens on  *)
(* which two refreshes, or a refresh and a switch-org, have run at the     *)
(* same time; interrupted, that a handler stopped before its answer        *)
(* reached the browser.                                                    *)
(***************************************************************************)
EXTENDS Naturals, FiniteSets

CONSTANTS Tokens,     \* strings generateToken can return (bounds rotations)
          Devices,    \* browsers, each with one refresh cookie
          Contexts,   \* (activeOrgId, orgRole) pairs
          Requests,   \* slots for concurrently running handlers
          Faults,     \* what may happen: "crash", "delay", "expiry"
          NoToken,    \* an empty cookie jar
          NoContext,  \* the org context of a key that is not live
          NoHandler   \* the local variables of an idle slot

ASSUME SessionsAssumption ==
    /\ NoToken \notin Tokens
    /\ NoContext \notin Contexts
    /\ Faults \subseteq {"crash", "delay", "expiry"}

VARIABLES key,         \* refresh:<token>: "none", "live" or "tombstone"
          context,     \* the org context stored in a live key
          members,     \* session:<userId>, the set of live tokens
          issued,      \* the tokens generated so far
          jar,         \* each browser's refresh cookie
          pc,          \* where each handler is
          local,       \* its local variables
          held,        \* ghost
          successors,  \* ghost
          wanted,      \* ghost
          overlapped,  \* ghost
          raced,       \* ghost
          interrupted  \* ghost

redis == <<key, context, members>>
ghosts == <<held, successors, wanted, overlapped, raced, interrupted>>
vars == <<redis, issued, jar, pc, local, ghosts>>

Ops == {"login", "rotate", "switch", "wipe", "invalid"}

Handlers == [op : Ops,
             device : Devices,
             token : Tokens \cup {NoToken},        \* the cookie it came with
             context : Contexts \cup {NoContext},  \* what createSession will store
             new : Tokens \cup {NoToken},          \* the token createSession returns
             found : SUBSET Tokens,                \* what sMembers returned
             delayed : BOOLEAN]                    \* not the browser's current cookie

Labels == {"idle", "tombstone", "sRem", "set", "sAdd", "setContext",
           "sMembers", "delTokens", "delSet", "setCookie", "clearCookie", "answer"}

Busy(r) == pc[r] # "idle"

LiveTokens == {t \in Tokens : key[t] = "live"}

-----------------------------------------------------------------------------
Init ==
    /\ key = [t \in Tokens |-> "none"]
    /\ context = [t \in Tokens |-> NoContext]
    /\ members = {}
    /\ issued = {}
    /\ jar = [d \in Devices |-> NoToken]
    /\ pc = [r \in Requests |-> "idle"]
    /\ local = [r \in Requests |-> NoHandler]
    /\ held = {}
    /\ successors = [t \in Tokens |-> {}]
    /\ wanted = [t \in Tokens |-> NoContext]
    /\ overlapped = {}
    /\ raced = {}
    /\ interrupted = FALSE

Handler(op, d, t, c, new, delayed) ==
    [op |-> op, device |-> d, token |-> t, context |-> c, new |-> new,
     found |-> {}, delayed |-> delayed]

(* Two handlers on one token, of which one at least exchanges it. *)
Rivals(l, k) == l.token = k.token /\ {l.op, k.op} \in {{"rotate"}, {"rotate", "switch"}}

(* A handler of kind l.op starts beside the running ones. *)
Start(r, label, l) ==
    /\ pc[r] = "idle"
    /\ pc' = [pc EXCEPT ![r] = label]
    /\ local' = [local EXCEPT ![r] = l]
    /\ overlapped' = overlapped \cup
                        {{l.op, local[q].op} : q \in {q \in Requests : Busy(q)}}
    /\ raced' = raced \cup
                   {local[q].token : q \in {q \in Requests : Busy(q) /\ Rivals(l, local[q])}}
    /\ UNCHANGED <<redis, jar, held, successors, wanted, interrupted>>

Goto(r, label) ==
    /\ pc' = [pc EXCEPT ![r] = label]
    /\ local' = [local EXCEPT ![r] = IF label = "idle" THEN NoHandler ELSE @]

-----------------------------------------------------------------------------
(* register and login, up to createSession: the context is that of the new *)
(* organization, or of the first membership (none for a user without).     *)
login(r, d, c, t) ==
    /\ t \in Tokens \ issued
    /\ issued' = issued \cup {t}
    /\ Start(r, "set", Handler("login", d, NoToken, c, t, FALSE))

(* The cookie a request comes with: the browser's current one, or with     *)
(* "delay" one that a browser held before, in a request that arrives late. *)
Presented(d, t, delayed) ==
    IF delayed THEN "delay" \in Faults /\ t \in held \ {jar[b] : b \in Devices}
               ELSE t = jar[d] /\ t # NoToken

(* Mutant: createSession is not passed the organization on. *)
refreshLosesContext(r, d, t, delayed, new) ==
    /\ Presented(d, t, delayed)
    /\ key[t] = "live"
    /\ new \in Tokens \ issued
    /\ issued' = issued \cup {new}
    /\ Start(r, "tombstone", Handler("rotate", d, t, NoContext, new, delayed))

(* refresh, up to and with the GET of rotateSession. *)
refreshLive(r, d, t, delayed, new) ==
    /\ Presented(d, t, delayed)
    /\ key[t] = "live"
    /\ new \in Tokens \ issued
    /\ issued' = issued \cup {new}
    /\ Start(r, "tombstone", Handler("rotate", d, t, context[t], new, delayed))

refreshReused(r, d, t, delayed) ==
    /\ Presented(d, t, delayed)
    /\ key[t] = "tombstone"
    /\ Start(r, "sMembers", Handler("wipe", d, t, NoContext, NoToken, delayed))
    /\ UNCHANGED issued

refreshInvalid(r, d, t, delayed) ==
    /\ Presented(d, t, delayed)
    /\ key[t] = "none"
    /\ Start(r, "clearCookie", Handler("invalid", d, t, NoContext, NoToken, delayed))
    /\ UNCHANGED issued

(* Mutant: updateSessionContext does not look whether the key is live. *)
switchOrgUnchecked(r, d, c) ==
    /\ jar[d] # NoToken
    /\ Start(r, "setContext", Handler("switch", d, jar[d], c, NoToken, FALSE))
    /\ UNCHANGED issued

(* switchOrg into a context of the user's memberships, up to and with the  *)
(* GET of updateSessionContext, which does nothing for a key that is not   *)
(* live.                                                                   *)
switchOrg(r, d, c) ==
    /\ jar[d] # NoToken
    /\ key[jar[d]] = "live"
    /\ Start(r, "setContext", Handler("switch", d, jar[d], c, NoToken, FALSE))
    /\ UNCHANGED issued

(* DELETE /auth/session, authorized by an access token: the cookie is not  *)
(* looked at.                                                              *)
logoutEverywhere(r, d) ==
    /\ Start(r, "sMembers", Handler("wipe", d, NoToken, NoContext, NoToken, FALSE))
    /\ UNCHANGED issued

-----------------------------------------------------------------------------
(* Mutant: the old token is not tombstoned. *)
TombstoneForgotten(r) ==
    /\ pc[r] = "tombstone"
    /\ Goto(r, "sRem")
    /\ UNCHANGED <<redis, issued, jar, ghosts>>

(* rotateSession: SET of the tombstone, SREM, then createSession. *)
Tombstone(r) ==
    /\ pc[r] = "tombstone"
    /\ key' = [key EXCEPT ![local[r].token] = "tombstone"]
    /\ context' = [context EXCEPT ![local[r].token] = NoContext]
    /\ Goto(r, "sRem")
    /\ UNCHANGED <<members, issued, jar, ghosts>>

SRem(r) ==
    /\ pc[r] = "sRem"
    /\ members' = members \ {local[r].token}
    /\ Goto(r, "set")
    /\ UNCHANGED <<key, context, issued, jar, ghosts>>

(* createSession: SET of the new key, SADD (and EXPIRE) of the set, which  *)
(* so outlives every key it names.                                         *)
SetKey(r) ==
    LET l == local[r]
    IN  /\ pc[r] = "set"
        /\ key' = [key EXCEPT ![l.new] = "live"]
        /\ context' = [context EXCEPT ![l.new] = l.context]
        /\ successors' = IF l.op = "rotate"
                         THEN [successors EXCEPT ![l.token] = @ \cup {l.new}]
                         ELSE successors
        /\ wanted' = [wanted EXCEPT ![l.new] =
                        IF l.op = "rotate" THEN wanted[l.token] ELSE l.context]
        /\ Goto(r, "sAdd")
        /\ UNCHANGED <<members, issued, jar, held, overlapped, raced, interrupted>>

(* Mutant: only a login adds its token to the set. *)
SAddOnLogin(r) ==
    /\ pc[r] = "sAdd"
    /\ members' = IF local[r].op = "login" THEN members \cup {local[r].new} ELSE members
    /\ Goto(r, "setCookie")
    /\ UNCHANGED <<key, context, issued, jar, ghosts>>

(* Mutant: the token the request came with is added. *)
SAddOld(r) ==
    /\ pc[r] = "sAdd"
    /\ members' = members \cup {local[r].token}
    /\ Goto(r, "setCookie")
    /\ UNCHANGED <<key, context, issued, jar, ghosts>>

SAdd(r) ==
    /\ pc[r] = "sAdd"
    /\ members' = members \cup {local[r].new}
    /\ Goto(r, "setCookie")
    /\ UNCHANGED <<key, context, issued, jar, ghosts>>

(* updateSessionContext: SET of the key as live, whatever it is by now. *)
SetContext(r) ==
    /\ pc[r] = "setContext"
    /\ key' = [key EXCEPT ![local[r].token] = "live"]
    /\ context' = [context EXCEPT ![local[r].token] = local[r].context]
    /\ wanted' = [wanted EXCEPT ![local[r].token] = local[r].context]
    /\ Goto(r, "answer")
    /\ UNCHANGED <<members, issued, jar, held, successors, overlapped, raced, interrupted>>

(* wipeAllSessions: SMEMBERS, DEL of those keys, DEL of the set. *)
SMembers(r) ==
    /\ pc[r] = "sMembers"
    /\ pc' = [pc EXCEPT ![r] = IF members = {} THEN "delSet" ELSE "delTokens"]
    /\ local' = [local EXCEPT ![r].found = members]
    /\ UNCHANGED <<redis, issued, jar, ghosts>>

DelTokens(r) ==
    /\ pc[r] = "delTokens"
    /\ key' = [t \in Tokens |-> IF t \in local[r].found THEN "none" ELSE key[t]]
    /\ context' = [t \in Tokens |-> IF t \in local[r].found THEN NoContext ELSE context[t]]
    /\ Goto(r, "delSet")
    /\ UNCHANGED <<members, issued, jar, ghosts>>

DelSet(r) ==
    /\ pc[r] = "delSet"
    /\ members' = {}
    /\ Goto(r, "clearCookie")
    /\ UNCHANGED <<key, context, issued, jar, ghosts>>

(* Mutant: only a login sets the cookie. *)
CookieOfLogin(l, label, old) ==
    IF label = "clearCookie" THEN NoToken
    ELSE IF label = "setCookie" /\ l.op = "login" THEN l.new ELSE old

(* The browser's cookie after the answer of a handler that ends at label. *)
Cookie(l, label, old) ==
    IF label = "clearCookie" THEN NoToken
    ELSE IF label = "setCookie" THEN l.new ELSE old

(* The answer reaches the browser, with the cookie it sets or clears; that *)
(* of a delayed request may come when nobody waits for it any more.        *)
Answer(r) ==
    LET l == local[r]
    IN  /\ pc[r] \in {"setCookie", "clearCookie", "answer"}
        /\ \/ jar' = [jar EXCEPT ![l.device] = Cookie(l, pc[r], @)]
           \/ l.delayed /\ jar' = jar
        /\ held' = held \cup ({jar'[d] : d \in Devices} \ {NoToken})
        /\ Goto(r, "idle")
        /\ UNCHANGED <<redis, issued, successors, wanted, overlapped, raced, interrupted>>

(* The process stops, Redis fails, or the answer is lost. *)
Crash(r) ==
    /\ "crash" \in Faults
    /\ Busy(r)
    /\ interrupted' = TRUE
    /\ Goto(r, "idle")
    /\ UNCHANGED <<redis, issued, jar, held, successors, wanted, overlapped, raced>>

(* A tombstone (60 s) or a live key (30 days) reaches the end of its TTL.  *)
Expire(t) ==
    /\ "expiry" \in Faults
    /\ key[t] # "none"
    /\ key' = [key EXCEPT ![t] = "none"]
    /\ context' = [context EXCEPT ![t] = NoContext]
    /\ overlapped' = overlapped \cup
                        {{"expiry", local[q].op} : q \in {q \in Requests : Busy(q)}}
    /\ UNCHANGED <<members, issued, jar, pc, local, held, successors, wanted, raced, interrupted>>

Begin(r) ==
    \E d \in Devices :
        \/ \E c \in Contexts \cup {NoContext}, t \in Tokens : login(r, d, c, t)
        \/ \E t \in Tokens, delayed \in BOOLEAN :
              \/ \E new \in Tokens : refreshLive(r, d, t, delayed, new)
              \/ refreshReused(r, d, t, delayed)
              \/ refreshInvalid(r, d, t, delayed)
        \/ \E c \in Contexts : switchOrg(r, d, c)
        \/ logoutEverywhere(r, d)

Advance(r) ==
    \/ Tombstone(r) \/ SRem(r) \/ SetKey(r) \/ SAdd(r)
    \/ SetContext(r)
    \/ SMembers(r) \/ DelTokens(r) \/ DelSet(r)
    \/ Answer(r)

Next == \/ \E r \in Requests : Begin(r) \/ Advance(r) \/ Crash(r)
        \/ \E t \in Tokens : Expire(t)

Spec == Init /\ [][Next]_vars

-----------------------------------------------------------------------------
TypeOK ==
    /\ key \in [Tokens -> {"none", "live", "tombstone"}]
    /\ context \in [Tokens -> Contexts \cup {NoContext}]
    /\ members \subseteq issued
    /\ issued \subseteq Tokens
    /\ jar \in [Devices -> issued \cup {NoToken}]
    /\ pc \in [Requests -> Labels]
    /\ local \in [Requests -> Handlers \cup {NoHandler}]
    /\ \A r \in Requests : local[r] \in IF Busy(r) THEN Handlers ELSE {NoHandler}
    /\ held \subseteq issued
    /\ successors \in [Tokens -> SUBSET issued]
    /\ wanted \in [Tokens -> Contexts \cup {NoContext}]
    /\ overlapped \subseteq {{a, b} : a, b \in Ops \cup {"expiry"}}
    /\ raced \subseteq issued
    /\ interrupted \in BOOLEAN

Overlapped(a, b) == {a, b} \in overlapped

(* rotateSession is single use: a refresh token is exchanged for at most   *)
(* one successor, however often and late it is sent and whatever happens   *)
(* to others, unless while it was being exchanged another refresh or a     *)
(* switch-org was at work on that very token.                              *)
SingleUse ==
    \A t \in Tokens \ raced : Cardinality(successors[t]) <= 1

(* A token that was rotated, wiped or has expired is never live again,     *)
(* unless a switch-org overlapped what ended it.                           *)
DeadStaysDead ==
    [][\/ \E b \in {"rotate", "wipe", "expiry"} : Overlapped("switch", b)
       \/ \A t \in held : key[t] # "live" => key'[t] # "live"]_vars

(* wipeAllSessions leaves no live refresh token when its handler answers,  *)
(* unless a token was being written meanwhile, an earlier handler stopped  *)
(* half-way, or a switch-org revived a token the set no longer names.      *)
LogoutIsComplete ==
    \/ interrupted
    \/ \E a \in {"login", "rotate", "switch"} : Overlapped("wipe", a)
    \/ Overlapped("rotate", "switch")
    \/ \A r \in Requests : pc[r] = "clearCookie" /\ local[r].op = "wipe" => LiveTokens = {}

(* No browser keeps a cookie that the server takes for reused, which would *)
(* log the user out everywhere: only an answer that was lost, or a refresh *)
(* still running for that very cookie, can leave one.                      *)
NoStaleCookie ==
    \/ interrupted
    \/ \A d \in Devices : jar[d] # NoToken /\ key[jar[d]] = "tombstone" =>
          \E r \in Requests : Busy(r) /\ local[r].op = "rotate" /\ local[r].token = jar[d]

(* A live session is in the context its last switch-org chose, through all *)
(* its rotations, unless a refresh and a switch-org overlapped.            *)
SwitchSticks ==
    \/ Overlapped("rotate", "switch")
    \/ \A t \in LiveTokens : context[t] = wanted[t]

=============================================================================
