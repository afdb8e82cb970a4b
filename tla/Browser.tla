------------------------------ MODULE Browser ------------------------------
(***************************************************************************)
(* One user's browser: AuthContext.jsx and apiClient.js in every tab of    *)
(* both front ends, the refresh cookie the tabs share, and the handlers of *)
(* identity-service they call.  A handler is one step here; Sessions has   *)
(* their interleaving, and Members two users of one browser.               *)
(*                                                                         *)
(* A call is one run of apiFetch, of login, of logout or of the mount      *)
(* effect.  It sends a request, waits, and on an answer goes on at once to *)
(* its next request: the refresh and the retry that apiRequest makes after *)
(* a 401.  The cookie leaves with the request and changes with the answer. *)
(*                                                                         *)
(* Ghost variables: loggedIn, the user has signed in and not asked to be   *)
(* logged out since; overlapped, the sets {kind1, kind2} of the requests   *)
(* that have been under way at the same time; behind, the tabs whose token *)
(* is older than a switch-org or login of another tab; lost, a refresh     *)
(* failed in the server, its token expired before the retry, or nobody     *)
(* received the answer of a refresh, login or switch-org.                  *)
(***************************************************************************)
EXTENDS Naturals, FiniteSets

CONSTANTS Tabs,       \* tabs of either front end
          Orgs,       \* the organizations the user is a member of
          Calls,      \* slots for running calls
          MaxTokens,  \* bound: refresh tokens issued
          Faults,     \* what may happen: "reload", "unreachable", "error"
          NoAccess,   \* no access token
          NoCall,     \* an unused slot
          NoAnswer,   \* a request that has not been answered
          Keep        \* an answer without a cookie

ASSUME BrowserAssumption ==
    /\ MaxTokens \in Nat
    /\ NoAccess \notin [org : Orgs, expired : BOOLEAN]
    /\ Faults \subseteq {"reload", "unreachable", "error"}

VARIABLES key,         \* refresh:<token>: "none", "live" or "tombstone"
          context,     \* the organization stored with a live key
          issued,      \* the number of refresh tokens generated
          jar,         \* the refresh cookie of the browser
          access,      \* each tab's accessToken (and tokenRef)
          user,        \* whether a tab has set user and memberships
          loading,     \* each tab's loading
          call,        \* the running calls
          loggedIn,    \* ghost
          overlapped,  \* ghost
          behind,      \* ghost
          lost         \* ghost

server == <<key, context, issued>>
state == <<access, user, loading>>
ghosts == <<loggedIn, overlapped, behind, lost>>
vars == <<server, jar, state, call, ghosts>>

NoToken == 0
Tokens == 1..MaxTokens

Access == [org : Orgs, expired : BOOLEAN]

(* What an answer brings: whether it is a success, the organization of the *)
(* access token in its body, and the cookie it leaves in the jar.          *)
Answers == [ok : BOOLEAN, org : Orgs \cup {NoAccess},
            jar : {Keep} \cup Tokens \cup {NoToken}]

(* "expelled" is a logout that apiRequest asks for (onSessionExpired).     *)
Ops == {"mount", "load", "switch", "login", "logout", "expelled"}

Running == [tab : Tabs, op : Ops,
            step : {"entry", "first", "refresh", "retry"},
            org : Orgs \cup {NoAccess},     \* ghost: activeOrgId when a load
                                             \* started, if the tab was not behind
            target : Orgs \cup {NoAccess},  \* of a switch-org
            bearer : Access \cup {NoAccess},
            cookie : Tokens \cup {NoToken},
            answer : Answers \cup {NoAnswer},
            orphan : BOOLEAN]               \* its page is gone

ASSUME NothingAssumption ==
    /\ NoCall \notin Running /\ NoAnswer \notin Answers
    /\ Keep \notin Nat /\ NoAccess \notin Orgs

Active(k) == call[k] # NoCall

Of(tab) == {k \in Calls : Active(k) /\ call[k].tab = tab /\ ~call[k].orphan}

(* The request a call is waiting for. *)
Kind(c) == IF c.step \in {"entry", "refresh"} THEN "refresh"
           ELSE IF c.op = "expelled" THEN "logout" ELSE c.op

-----------------------------------------------------------------------------
Init ==
    /\ key = [t \in Tokens |-> "none"]
    /\ context = [t \in Tokens |-> NoAccess]
    /\ issued = 0
    /\ jar = NoToken
    /\ access = [tab \in Tabs |-> NoAccess]
    /\ user = [tab \in Tabs |-> FALSE]
    /\ loading = [tab \in Tabs |-> "unmounted"]
    /\ call = [k \in Calls |-> NoCall]
    /\ loggedIn = FALSE
    /\ overlapped = {}
    /\ behind = {}
    /\ lost = FALSE

(* rawRequest: call k sends its next request, with the cookie now in the   *)
(* jar if the handler looks at it.                                         *)
rawRequest(k, c) ==
    /\ call' = [call EXCEPT ![k] =
                  [c EXCEPT !.cookie = IF Kind(c) \in {"refresh", "switch"} THEN jar' ELSE NoToken,
                            !.answer = NoAnswer]]
    /\ overlapped' = overlapped \cup
                        {{Kind(c), Kind(call[j])} : j \in {j \in Calls \ {k} : Active(j)}}

Start(k, tab, op, step, target) ==
    /\ ~Active(k)
    /\ jar' = jar
    /\ rawRequest(k, [tab |-> tab, op |-> op, step |-> step,
                      org |-> IF op = "load" /\ tab \notin behind THEN access[tab].org
                              ELSE NoAccess,
                      target |-> target, bearer |-> access[tab], cookie |-> NoToken,
                      answer |-> NoAnswer, orphan |-> FALSE])
    /\ UNCHANGED <<server, access, user, behind, lost>>

(* The effect of AuthProvider: a refresh as soon as the page is there. *)
Mount(k, tab) ==
    /\ loading[tab] = "unmounted"
    /\ loading' = [loading EXCEPT ![tab] = "loading"]
    /\ Start(k, tab, "mount", "entry", NoAccess)
    /\ UNCHANGED loggedIn

(* The dashboards are shown to an authenticated tab that is not loading,   *)
(* the sign-in form to one that is not authenticated.                      *)
Dashboard(tab) == loading[tab] = "loaded" /\ access[tab] # NoAccess

LoginPage(tab) == loading[tab] = "loaded" /\ access[tab] = NoAccess

(* login or register; the form is disabled while it is submitted. *)
login(k, tab) ==
    /\ LoginPage(tab)
    /\ \A j \in Of(tab) : call[j].op # "login"
    /\ Start(k, tab, "login", "first", NoAccess)
    /\ UNCHANGED <<loading, loggedIn>>

(* apiFetch of a page: any request that any service authenticates. *)
apiFetch(k, tab) ==
    /\ Dashboard(tab)
    /\ Start(k, tab, "load", "first", NoAccess)
    /\ UNCHANGED <<loading, loggedIn>>

(* switchOrg, through apiFetch, from the OrgSwitcher: to another           *)
(* organization, and not while it is switching.                            *)
switchOrg(k, tab, org) ==
    /\ Dashboard(tab)
    /\ org # access[tab].org
    /\ \A j \in Of(tab) : call[j].op # "switch"
    /\ Start(k, tab, "switch", "first", org)
    /\ UNCHANGED <<loading, loggedIn>>

(* The button of the AppShell: logout with the token the tab has. *)
logout(k, tab) ==
    /\ Dashboard(tab)
    /\ Start(k, tab, "logout", "first", NoAccess)
    /\ loggedIn' = FALSE
    /\ UNCHANGED loading

-----------------------------------------------------------------------------
(* The handlers of auth.routes.js. *)
Answer(k, ok, org, cookie) ==
    call' = [call EXCEPT ![k].answer = [ok |-> ok, org |-> org, jar |-> cookie]]

Pending(k, kind) ==
    Active(k) /\ call[k].answer = NoAnswer /\ Kind(call[k]) = kind

(* The GET of a refresh token. *)
Found(t) == IF t = NoToken THEN "none" ELSE key[t]

NewSession(org, old) ==
    LET t == issued + 1
    IN  /\ issued < MaxTokens
        /\ issued' = t
        /\ key' = [s \in Tokens |-> IF s = t THEN "live" ELSE IF s = old THEN "tombstone" ELSE key[s]]
        /\ context' = [s \in Tokens |-> IF s = t THEN org ELSE IF s = old THEN NoAccess ELSE context[s]]

WipeAll ==
    /\ key' = [t \in Tokens |-> IF key[t] = "live" THEN "none" ELSE key[t]]
    /\ context' = [t \in Tokens |-> NoAccess]
    /\ UNCHANGED issued

(* POST /auth/login and /auth/register: the organization is the one that   *)
(* was just registered or the first membership.                            *)
ServeLogin(k) ==
    /\ Pending(k, "login")
    /\ \E org \in Orgs : NewSession(org, NoToken) /\ Answer(k, TRUE, org, issued')
    /\ behind' = (behind \cup Tabs) \ {call[k].tab}
    /\ UNCHANGED <<jar, state, loggedIn, overlapped, lost>>

(* Mutant: the cookie is not replaced. *)
ServeRefreshNoCookie(k) ==
    LET t == call[k].cookie
    IN  /\ Pending(k, "refresh")
        /\ \/ /\ Found(t) = "live"
              /\ NewSession(context[t], t)
              /\ Answer(k, TRUE, context[t], Keep)
           \/ /\ Found(t) = "tombstone"
              /\ WipeAll
              /\ Answer(k, FALSE, NoAccess, NoToken)
           \/ /\ Found(t) = "none"
              /\ UNCHANGED server
              /\ Answer(k, FALSE, NoAccess, NoToken)
        /\ UNCHANGED <<jar, state, ghosts>>

(* Mutant: the new session starts in the user's first organization. *)
ServeRefreshFirstOrg(k) ==
    LET t == call[k].cookie
    IN  /\ Pending(k, "refresh")
        /\ \/ /\ Found(t) = "live"
              /\ \E org \in Orgs : NewSession(org, t) /\ Answer(k, TRUE, org, issued')
           \/ /\ Found(t) = "tombstone"
              /\ WipeAll
              /\ Answer(k, FALSE, NoAccess, NoToken)
           \/ /\ Found(t) = "none"
              /\ UNCHANGED server
              /\ Answer(k, FALSE, NoAccess, NoToken)
        /\ UNCHANGED <<jar, state, ghosts>>

(* POST /auth/refresh: rotate a live token; a reused one ends every        *)
(* session; an AppError clears the cookie.                                 *)
ServeRefresh(k) ==
    LET t == call[k].cookie
    IN  /\ Pending(k, "refresh")
        /\ \/ /\ Found(t) = "live"
              /\ NewSession(context[t], t)
              /\ Answer(k, TRUE, context[t], issued')
           \/ /\ Found(t) = "tombstone"
              /\ WipeAll
              /\ Answer(k, FALSE, NoAccess, NoToken)
           \/ /\ Found(t) = "none"
              /\ UNCHANGED server
              /\ Answer(k, FALSE, NoAccess, NoToken)
        /\ UNCHANGED <<jar, state, ghosts>>

(* authenticate: an expired access token is answered 401. *)
authenticate(k) == ~call[k].bearer.expired

(* Mutant: the answer has a token for the target, the session keeps its    *)
(* organization.                                                           *)
ServeSwitchTokenOnly(k) ==
    /\ Pending(k, "switch")
    /\ authenticate(k)
    /\ Answer(k, TRUE, call[k].target, Keep)
    /\ behind' = (behind \cup Tabs) \ {call[k].tab}
    /\ UNCHANGED <<server, jar, state, loggedIn, overlapped, lost>>

(* POST /auth/switch-org: the context of the session is changed if the     *)
(* cookie names a live one, and the answer has a token for the target.     *)
ServeSwitch(k) ==
    LET c == call[k]
    IN  /\ Pending(k, "switch")
        /\ authenticate(k)
        /\ context' = IF Found(c.cookie) = "live"
                      THEN [context EXCEPT ![c.cookie] = c.target] ELSE context
        /\ Answer(k, TRUE, c.target, Keep)
        /\ behind' = (behind \cup Tabs) \ {c.tab}
        /\ UNCHANGED <<key, issued, jar, state, loggedIn, overlapped, lost>>

(* DELETE /auth/session: every session of the user ends. *)
ServeLogout(k) ==
    /\ Pending(k, "logout")
    /\ authenticate(k)
    /\ WipeAll
    /\ Answer(k, TRUE, NoAccess, NoToken)
    /\ UNCHANGED <<jar, state, ghosts>>

(* Any other request, GET /auth/me of the mount effect among them. *)
ServeOther(k) ==
    /\ Pending(k, "load") \/ Pending(k, "mount")
    /\ authenticate(k)
    /\ Answer(k, TRUE, NoAccess, Keep)
    /\ UNCHANGED <<server, jar, state, ghosts>>

Refuse(k) ==
    /\ \E kind \in {"load", "mount", "switch", "logout"} : Pending(k, kind)
    /\ ~authenticate(k)
    /\ Answer(k, FALSE, NoAccess, Keep)
    /\ UNCHANGED <<server, jar, state, ghosts>>

(* /auth/refresh fails otherwise than by an AppError (Redis, Postgres): a  *)
(* 500 that leaves the cookie alone.                                       *)
ServerError(k) ==
    /\ "error" \in Faults
    /\ Pending(k, "refresh")
    /\ Answer(k, FALSE, NoAccess, Keep)
    /\ lost' = TRUE
    /\ UNCHANGED <<server, jar, state, loggedIn, overlapped, behind>>

Serve(k) ==
    \/ ServeLogin(k) \/ ServeRefresh(k) \/ ServeSwitch(k) \/ ServeLogout(k)
    \/ ServeOther(k) \/ Refuse(k) \/ ServerError(k)

-----------------------------------------------------------------------------
(* Mutant: whether the answer is a success is not looked at. *)
AnsweredAnyway(k, kind, ok) ==
    /\ Active(k) /\ ~call[k].orphan
    /\ call[k].answer # NoAnswer
    /\ Kind(call[k]) = kind
    /\ jar' = IF call[k].answer.jar = Keep THEN jar ELSE call[k].answer.jar
    /\ UNCHANGED <<server, lost>>

(* The answer of call k has come, with its cookie. *)
Answered(k, kind, ok) ==
    /\ Active(k) /\ ~call[k].orphan
    /\ call[k].answer # NoAnswer /\ call[k].answer.ok = ok
    /\ Kind(call[k]) = kind
    /\ jar' = IF call[k].answer.jar = Keep THEN jar ELSE call[k].answer.jar
    /\ UNCHANGED <<server, lost>>

End(k) ==
    /\ call' = [call EXCEPT ![k] = NoCall]
    /\ UNCHANGED overlapped

(* setAccessToken and tokenRef. *)
Token(k) == [org |-> call[k].answer.org, expired |-> FALSE]

SetAccess(k) ==
    /\ access' = [access EXCEPT ![call[k].tab] = Token(k)]
    /\ behind' = behind \ {call[k].tab}

ClearSession(tab) ==
    /\ access' = [access EXCEPT ![tab] = NoAccess]
    /\ user' = [user EXCEPT ![tab] = FALSE]

(* refresh returned a token: the mount effect asks for the user with it,   *)
(* apiRequest repeats the request.                                         *)
Refreshed(k) ==
    /\ Answered(k, "refresh", TRUE)
    /\ SetAccess(k)
    /\ rawRequest(k, [call[k] EXCEPT !.step = IF @ = "entry" THEN "first" ELSE "retry",
                                     !.bearer = Token(k)])
    /\ UNCHANGED <<user, loading, loggedIn>>

(* The mount effect got no token: nobody is signed in. *)
NotSignedIn(k) ==
    /\ Answered(k, "refresh", FALSE)
    /\ call[k].step = "entry"
    /\ loading' = [loading EXCEPT ![call[k].tab] = "loaded"]
    /\ End(k)
    /\ UNCHANGED <<access, user, loggedIn, behind>>

(* onSessionExpired is logout: it sends a DELETE with the token the tab    *)
(* has by now, or has none to send.  apiRequest throws; thrown out of the  *)
(* mount effect, that leaves the tab loading.                              *)
SessionExpired(k) ==
    LET tab == call[k].tab
    IN  /\ \/ Answered(k, "refresh", FALSE) /\ call[k].step = "refresh"
           \/ \E kind \in {"load", "mount", "switch"} :
                 Answered(k, kind, FALSE) /\ call[k].step = "retry"
        /\ IF access[tab] = NoAccess
           THEN ClearSession(tab) /\ End(k)
           ELSE /\ rawRequest(k, [call[k] EXCEPT !.op = "expelled", !.step = "first",
                                                 !.bearer = access[tab]])
                /\ UNCHANGED <<access, user>>
        /\ UNCHANGED <<loading, loggedIn, behind>>

(* A 401: apiRequest calls refresh once. *)
Unauthorized(k) ==
    /\ \E kind \in {"load", "mount", "switch"} : Answered(k, kind, FALSE)
    /\ call[k].step = "first"
    /\ rawRequest(k, [call[k] EXCEPT !.step = "refresh"])
    /\ UNCHANGED <<state, loggedIn, behind>>

(* The mount effect has the user and the memberships. *)
Mounted(k) ==
    /\ Answered(k, "mount", TRUE)
    /\ user' = [user EXCEPT ![call[k].tab] = TRUE]
    /\ loading' = [loading EXCEPT ![call[k].tab] = "loaded"]
    /\ End(k)
    /\ UNCHANGED <<access, loggedIn, behind>>

Loaded(k) ==
    /\ Answered(k, "load", TRUE)
    /\ End(k)
    /\ UNCHANGED <<state, loggedIn, behind>>

Switched(k) ==
    /\ Answered(k, "switch", TRUE)
    /\ SetAccess(k)
    /\ End(k)
    /\ UNCHANGED <<user, loading, loggedIn>>

SignedIn(k) ==
    /\ Answered(k, "login", TRUE)
    /\ SetAccess(k)
    /\ user' = [user EXCEPT ![call[k].tab] = TRUE]
    /\ loggedIn' = TRUE
    /\ End(k)
    /\ UNCHANGED loading

(* logout clears the tab whatever the server answered. *)
LoggedOut(k) ==
    /\ Answered(k, "logout", TRUE) \/ Answered(k, "logout", FALSE)
    /\ ClearSession(call[k].tab)
    /\ End(k)
    /\ UNCHANGED <<loading, loggedIn, behind>>

(* fetch rejects, before or after the server did its part.  Only logout    *)
(* catches that; everybody else lets it through and changes nothing.  (The *)
(* OrgSwitcher and the sign-in form then stay disabled until the page is   *)
(* reloaded; that they may be used here only adds behaviours.)             *)
Unreachable(k) ==
    /\ "unreachable" \in Faults
    /\ Active(k) /\ ~call[k].orphan
    /\ lost' = (lost \/ (Kind(call[k]) \in {"refresh", "login", "switch"} /\ call[k].answer # NoAnswer))
    /\ IF Kind(call[k]) = "logout" THEN ClearSession(call[k].tab) ELSE UNCHANGED <<access, user>>
    /\ End(k)
    /\ UNCHANGED <<server, jar, loading, loggedIn, behind>>

Receive(k) ==
    \/ Refreshed(k) \/ NotSignedIn(k) \/ SessionExpired(k) \/ Unauthorized(k)
    \/ Mounted(k) \/ Loaded(k) \/ Switched(k) \/ SignedIn(k) \/ LoggedOut(k)
    \/ Unreachable(k)

-----------------------------------------------------------------------------
(* The 15 minutes of a tab's access token are over, maybe those of a token *)
(* that is being used for a retry.                                         *)
Expire(tab) ==
    LET with == {k \in Calls : Active(k) /\ call[k].tab = tab /\ call[k].bearer = access[tab]}
    IN  /\ access[tab] # NoAccess /\ ~access[tab].expired
        /\ access' = [access EXCEPT ![tab].expired = TRUE]
        /\ call' = [k \in Calls |-> IF k \in with THEN [call[k] EXCEPT !.bearer.expired = TRUE]
                                     ELSE call[k]]
        /\ lost' = (lost \/ \E k \in with : call[k].step = "retry")
        /\ UNCHANGED <<server, jar, user, loading, loggedIn, overlapped, behind>>

(* The page is reloaded.  Its requests may still reach the server.  *)
Reload(tab) ==
    /\ "reload" \in Faults
    /\ loading[tab] # "unmounted"
    /\ ClearSession(tab)
    /\ loading' = [loading EXCEPT ![tab] = "unmounted"]
    /\ call' = [k \in Calls |-> IF k \in Of(tab) THEN [call[k] EXCEPT !.orphan = TRUE] ELSE call[k]]
    /\ behind' = behind \ {tab}
    /\ UNCHANGED <<server, jar, loggedIn, overlapped, lost>>

(* Nobody waits for the answer of an orphan. *)
Forget(k) ==
    /\ Active(k) /\ call[k].orphan
    /\ lost' = (lost \/ (Kind(call[k]) \in {"refresh", "login", "switch"} /\ call[k].answer # NoAnswer))
    /\ End(k)
    /\ UNCHANGED <<server, jar, state, loggedIn, behind>>

Begin(k) ==
    \E tab \in Tabs :
        \/ Mount(k, tab) \/ login(k, tab) \/ apiFetch(k, tab) \/ logout(k, tab)
        \/ \E org \in Orgs : switchOrg(k, tab, org)

Next == \/ \E k \in Calls : Begin(k) \/ Serve(k) \/ Receive(k) \/ Forget(k)
        \/ \E tab \in Tabs : Expire(tab) \/ Reload(tab)

Spec == Init /\ [][Next]_vars

-----------------------------------------------------------------------------
TypeOK ==
    /\ key \in [Tokens -> {"none", "live", "tombstone"}]
    /\ context \in [Tokens -> Orgs \cup {NoAccess}]
    /\ issued \in 0..MaxTokens
    /\ jar \in 0..issued
    /\ access \in [Tabs -> Access \cup {NoAccess}]
    /\ user \in [Tabs -> BOOLEAN]
    /\ loading \in [Tabs -> {"unmounted", "loading", "loaded"}]
    /\ \A k \in Calls : call[k] = NoCall \/ call[k] \in Running
    /\ loggedIn \in BOOLEAN
    /\ overlapped \subseteq {{a, b} : a, b \in Ops \cup {"refresh"}}
    /\ behind \subseteq Tabs
    /\ lost \in BOOLEAN

Overlapped(a, b) == {a, b} \in overlapped

(* A switch-org or a login overlapped one of them, a refresh or an op. *)
Crossed(op) ==
    \E a \in {"switch", "login"}, b \in {"switch", "login", "refresh", op} : Overlapped(a, b)

LiveCookie == Found(jar) = "live"

(* apiClient.js:60-63, "silent": as long as the user does not log out, the *)
(* cookie of the browser can be refreshed or a refresh that replaces it is *)
(* under way; so no tab is thrown out by tokens that expire, reloads or    *)
(* org switches.  What breaks it: two refreshes at once, a refresh that    *)
(* overlaps a login, or one whose answer is lost.                          *)
SessionSurvives ==
    loggedIn =>
        \/ lost
        \/ Overlapped("refresh", "refresh") \/ Overlapped("refresh", "login")
        \/ Overlapped("logout", "login")
        \/ LiveCookie
        \/ \E k \in Calls : Active(k) /\ Kind(call[k]) = "refresh" /\ call[k].cookie = jar

(* A tab that waits for nothing and shows a dashboard knows its user,      *)
(* unless a request was under way when it was logged out, whose silent     *)
(* refresh signs the tab in again; and it shows the organization its       *)
(* session is in, unless another tab switched, an answer was lost, or a    *)
(* switch-org or a login overlapped one of them or a refresh.              *)
SettledTab ==
    \A tab \in Tabs : Of(tab) = {} /\ Dashboard(tab) =>
        /\ \/ user[tab]
           \/ \E kind \in {"load", "switch", "refresh"} : Overlapped("logout", kind)
        /\ loggedIn /\ LiveCookie => \/ access[tab].org = context[jar]
                                     \/ tab \in behind \/ lost \/ Crossed("login")

(* A request that apiRequest repeats after a silent refresh is repeated in *)
(* the organization the page showed when it was made, unless another tab   *)
(* had switched before that, the request overlapped a switch-org or a      *)
(* login, or an answer was lost.                                           *)
CallsKeepTheirOrg ==
    [][\A k \in Calls :
          /\ Active(k) /\ call[k].op = "load" /\ call[k].step = "refresh" /\ Refreshed(k)
          /\ call[k].org # NoAccess
          => Token(k).org = call[k].org \/ lost \/ Crossed("load")]_vars

-----------------------------------------------------------------------------
(* README.md:38: "a single logout that invalidates the session across both *)
(* dashboards": when the calls are over after a logout, the cookie is      *)
(* worth nothing.                                                          *)
LogoutEndsSession ==
    ~loggedIn /\ (\A k \in Calls : ~Active(k)) => ~LiveCookie

=============================================================================
