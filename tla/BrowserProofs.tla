--------------------------- MODULE BrowserProofs ---------------------------
(***************************************************************************)
(* Proofs about Browser, for any number of tabs, calls, organizations and  *)
(* tokens, and with every fault.                                           *)
(*                                                                         *)
(* The argument has four layers, the last three next to each other.        *)
(*  - What a call can be at each step, and what its answer brings          *)
(*    (TypeInv); and that every two requests under way are in overlapped.  *)
(*  - SurviveInv: while the user is signed in and nothing named has        *)
(*    happened, the cookie is live until the refresh that sent it is       *)
(*    answered, no refresh fails, and so no tab asks for a logout.         *)
(*  - UserInv: a tab that shows something knows its user, since every      *)
(*    request that could sign it in again overlapped the logout.           *)
(*  - OrgInv: all tokens the browser can get to speak of are of one        *)
(*    organization (AllIn), and it is the one each tab shows that is not   *)
(*    behind.                                                              *)
(***************************************************************************)
EXTENDS Browser, TLAPS

Kinds == Ops \cup {"refresh"}

Pairs == {{a, b} : a, b \in Kinds}

Steps == {"entry", "first", "refresh", "retry"}

(* What a call can be, and what its answer brings. *)
Shape(c) ==
    /\ c.step = "entry" => c.op = "mount"
    /\ c.op \in {"login", "logout", "expelled"} => c.step = "first"
    /\ c.op = "switch" => c.target \in Orgs

AnswerFits(kind, target, a, n) ==
    a # NoAnswer =>
        /\ kind = "refresh" => IF a.ok THEN a.org \in Orgs /\ a.jar \in 1..n
                                       ELSE a.jar \in {Keep, NoToken}
        /\ kind = "login" => a.ok /\ a.org \in Orgs /\ a.jar \in 1..n
        /\ kind = "switch" => a.jar = Keep /\ (a.ok => a.org = target)
        /\ kind \in {"load", "mount"} => a.jar = Keep
        /\ kind = "logout" => a.jar \in {Keep, NoToken}

Fits(c, n) ==
    Shape(c) /\ c.cookie \in 0..n /\ AnswerFits(Kind(c), c.target, c.answer, n)

CallsTyped ==
    /\ call \in [Calls -> Running \cup {NoCall}]
    /\ \A k \in Calls : Active(k) => Fits(call[k], issued)

ServerTyped ==
    /\ key \in [Tokens -> {"none", "live", "tombstone"}]
    /\ context \in [Tokens -> Orgs \cup {NoAccess}]
    /\ issued \in 0..MaxTokens
    /\ \A t \in Tokens : key[t] = "live" => t \in 1..issued /\ context[t] \in Orgs

TabsTyped ==
    /\ access \in [Tabs -> Access \cup {NoAccess}]
    /\ user \in [Tabs -> BOOLEAN]
    /\ loading \in [Tabs -> {"unmounted", "loading", "loaded"}]
    /\ behind \subseteq Tabs

GhostsTyped ==
    /\ loggedIn \in BOOLEAN
    /\ overlapped \subseteq Pairs
    /\ lost \in BOOLEAN

(* Every two requests under way are in overlapped. *)
OverlapsKnown ==
    \A j, k \in Calls : j # k /\ Active(j) /\ Active(k) =>
        {Kind(call[j]), Kind(call[k])} \in overlapped

TypeInv ==
    ServerTyped /\ jar \in 0..issued /\ TabsTyped /\ CallsTyped /\ GhostsTyped /\ OverlapsKnown

-----------------------------------------------------------------------------
(* The token of a repeated request is as good as new. *)
Fresh(c) ==
    /\ c.bearer \in Access /\ ~c.bearer.expired
    /\ c.answer = NoAnswer \/ c.answer.ok

RetryFresh ==
    lost \/ \A k \in Calls : Active(k) /\ call[k].step = "retry" => Fresh(call[k])

Broken ==
    \/ lost
    \/ Overlapped("refresh", "refresh") \/ Overlapped("refresh", "login")
    \/ Overlapped("logout", "login")

(* What a login has been answered is live until it arrives. *)
LoginLive ==
    ~Broken => \A k \in Calls : Active(k) /\ Kind(call[k]) = "login" /\ call[k].answer # NoAnswer
                                   => key[call[k].answer.jar] = "live"

(* Nobody logs the user out, a refresh that is under way has the cookie,   *)
(* which works until it is answered, and its answer works.                 *)
NoLogout == \A k \in Calls : Active(k) => Kind(call[k]) # "logout"

RefreshCarries ==
    \A k \in Calls : Active(k) /\ Kind(call[k]) = "refresh" =>
        /\ call[k].cookie = jar
        /\ IF call[k].answer = NoAnswer THEN LiveCookie
           ELSE call[k].answer.ok /\ key[call[k].answer.jar] = "live"

Renewal == \E k \in Calls : Active(k) /\ Kind(call[k]) = "refresh" /\ call[k].answer # NoAnswer

SessionKept ==
    ~Broken /\ loggedIn => NoLogout /\ RefreshCarries /\ (LiveCookie \/ Renewal)

SurviveInv == RetryFresh /\ LoginLive /\ SessionKept

-----------------------------------------------------------------------------
LogoutOverlapped == \E kind \in {"load", "switch", "refresh"} : Overlapped("logout", kind)

(* The life of a tab, and what it knows of its user. *)
TabInv(tab) ==
    /\ access[tab] = NoAccess => ~user[tab]
    /\ loading[tab] = "unmounted" => Of(tab) = {} /\ access[tab] = NoAccess
    /\ loading[tab] = "loading" =>
          /\ \A k \in Of(tab) : call[k].op \in {"mount", "expelled"}
          /\ \A j, k \in Of(tab) : j = k
    /\ \A k \in Of(tab) : call[k].op = "mount" =>
          loading[tab] = "loading" /\ (call[k].step = "entry" <=> access[tab] = NoAccess)
    /\ loading[tab] = "loaded" =>
          \/ user[tab]
          \/ LogoutOverlapped
          \/ /\ access[tab] = NoAccess
             /\ \A k \in Of(tab) : Kind(call[k]) \in {"login", "logout"}

UserInv == \A tab \in Tabs : TabInv(tab)

-----------------------------------------------------------------------------
(* Call c brings, or may bring, token t with a refresh. *)
Reaches(c, t) ==
    Kind(c) = "refresh" /\ t = (IF c.answer = NoAnswer THEN c.cookie ELSE c.answer.jar)

(* The live tokens the browser has or will be brought by a refresh. *)
InReach ==
    {t \in Tokens : /\ key[t] = "live"
                    /\ t = jar \/ \E k \in Calls : Active(k) /\ Reaches(call[k], t)}

AllIn(org) == \A t \in InReach : context[t] = org

Brought(k, kind) ==
    Active(k) /\ Kind(call[k]) = kind /\ call[k].answer # NoAnswer /\ call[k].answer.ok

OneOrg == \E org \in Orgs \cup {NoAccess} : AllIn(org)

TabsAgree ==
    \A tab \in Tabs, org \in Orgs :
        /\ access[tab] # NoAccess /\ access[tab].org = org
        /\ tab \notin behind
        /\ \A k \in Calls : Brought(k, "switch") \/ Brought(k, "login") => call[k].tab # tab
        => AllIn(org)

RefreshTells ==
    \A k \in Calls, org \in Orgs :
        Brought(k, "refresh") /\ call[k].answer.org = org => AllIn(org)

SwitchTells ==
    \A k \in Calls : Active(k) /\ Kind(call[k]) = "switch" =>
        /\ call[k].cookie = jar \/ ~LiveCookie
        /\ \A org \in Orgs : Brought(k, "switch") /\ call[k].answer.org = org => AllIn(org)

LoginTells ==
    \A k \in Calls : Brought(k, "login") =>
        /\ key[call[k].answer.jar] = "live" => context[call[k].answer.jar] = call[k].answer.org
        /\ \A tab \in Tabs \ {call[k].tab} : tab \in behind \/ access[tab] = NoAccess

OrphansOut ==
    \A k \in Calls : Active(k) /\ call[k].orphan /\ Kind(call[k]) \in {"switch", "login"}
                        => access[call[k].tab] = NoAccess

Agreed == OneOrg /\ TabsAgree /\ RefreshTells /\ SwitchTells /\ LoginTells /\ OrphansOut

OrgInv == lost \/ Crossed("login") \/ Agreed

LoadsTell ==
    lost \/ Crossed("load") \/
        \A k \in Calls, org \in Orgs : Active(k) /\ call[k].op = "load" /\ call[k].org = org =>
            /\ AllIn(org)
            /\ Brought(k, "refresh") => call[k].answer.org = org

-----------------------------------------------------------------------------
(* The fields of a call one of whose fields has been set. *)
LEMMA StepSet ==
    ASSUME NEW c \in Running, NEW s \in Steps
    PROVE  LET d == [c EXCEPT !.step = s]
           IN  /\ d \in Running /\ d.step = s
               /\ d.tab = c.tab /\ d.op = c.op /\ d.org = c.org /\ d.target = c.target
               /\ d.bearer = c.bearer /\ d.cookie = c.cookie /\ d.answer = c.answer
               /\ d.orphan = c.orphan
BY SMT DEF Running, Steps

(* The same for the access token it is sent with. *)
LEMMA BearerSet ==
    ASSUME NEW c \in Running, NEW b \in Access \cup {NoAccess}
    PROVE  LET d == [c EXCEPT !.bearer = b]
           IN  /\ d \in Running /\ d.bearer = b
               /\ d.tab = c.tab /\ d.op = c.op /\ d.org = c.org /\ d.target = c.target
               /\ d.step = c.step /\ d.cookie = c.cookie /\ d.answer = c.answer
               /\ d.orphan = c.orphan
BY SMT DEF Running

(* The same for what it does. *)
LEMMA OpSet ==
    ASSUME NEW c \in Running, NEW o \in Ops
    PROVE  LET d == [c EXCEPT !.op = o]
           IN  /\ d \in Running /\ d.op = o
               /\ d.tab = c.tab /\ d.step = c.step /\ d.org = c.org /\ d.target = c.target
               /\ d.bearer = c.bearer /\ d.cookie = c.cookie /\ d.answer = c.answer
               /\ d.orphan = c.orphan
BY SMT DEF Running

(* The same for the cookie. *)
LEMMA CookieSet ==
    ASSUME NEW c \in Running, NEW t \in Tokens \cup {NoToken}
    PROVE  LET d == [c EXCEPT !.cookie = t]
           IN  /\ d \in Running /\ d.cookie = t
               /\ d.tab = c.tab /\ d.op = c.op /\ d.org = c.org /\ d.target = c.target
               /\ d.step = c.step /\ d.bearer = c.bearer /\ d.answer = c.answer
               /\ d.orphan = c.orphan
BY SMT DEF Running

(* The same for the answer. *)
LEMMA AnswerSet ==
    ASSUME NEW c \in Running, NEW a \in Answers \cup {NoAnswer}
    PROVE  LET d == [c EXCEPT !.answer = a]
           IN  /\ d \in Running /\ d.answer = a
               /\ d.tab = c.tab /\ d.op = c.op /\ d.org = c.org /\ d.target = c.target
               /\ d.step = c.step /\ d.bearer = c.bearer /\ d.cookie = c.cookie
               /\ d.orphan = c.orphan
BY SMT DEF Running

(* The same for whether its page is gone. *)
LEMMA OrphanSet ==
    ASSUME NEW c \in Running, NEW b \in BOOLEAN
    PROVE  LET d == [c EXCEPT !.orphan = b]
           IN  /\ d \in Running /\ d.orphan = b
               /\ d.tab = c.tab /\ d.op = c.op /\ d.org = c.org /\ d.target = c.target
               /\ d.step = c.step /\ d.bearer = c.bearer /\ d.cookie = c.cookie
               /\ d.answer = c.answer
BY SMT DEF Running

(* An access token that has expired. *)
LEMMA ExpiredSet ==
    ASSUME NEW a \in Access, NEW b \in BOOLEAN
    PROVE  LET d == [a EXCEPT !.expired = b]
           IN  d \in Access /\ d.org = a.org /\ d.expired = b
BY SMT DEF Access

(* The kinds of requests. *)
LEMMA KindTyped ==
    ASSUME NEW c \in Running
    PROVE  Kind(c) \in Kinds
BY SMT DEF Running, Kind, Kinds, Ops

-----------------------------------------------------------------------------
(* What rawRequest leaves: a call with these fields, the cookie, and no answer. *)
Sent(k, tab, op, step, org, target, bearer, orphan) ==
    /\ call' \in [Calls -> Running \cup {NoCall}]
    /\ call'[k] \in Running /\ call'[k] # NoCall
    /\ call'[k].tab = tab /\ call'[k].op = op /\ call'[k].step = step
    /\ call'[k].org = org /\ call'[k].target = target /\ call'[k].bearer = bearer
    /\ call'[k].orphan = orphan
    /\ call'[k].answer = NoAnswer
    /\ call'[k].cookie = IF Kind(call'[k]) \in {"refresh", "switch"} THEN jar' ELSE NoToken
    /\ \A j \in Calls \ {k} : call'[j] = call[j]
    /\ overlapped \subseteq overlapped'
    /\ \A j \in Calls \ {k} : Active(j) => {Kind(call'[k]), Kind(call[j])} \in overlapped'
    /\ \A o \in overlapped' \ overlapped :
          \E j \in Calls \ {k} : Active(j) /\ o = {Kind(call'[k]), Kind(call[j])}

(* rawRequest leaves that. *)
LEMMA Sending ==
    ASSUME NEW k \in Calls, NEW d \in Running, jar' \in Tokens \cup {NoToken},
           call \in [Calls -> Running \cup {NoCall}],
           rawRequest(k, d)
    PROVE  Sent(k, d.tab, d.op, d.step, d.org, d.target, d.bearer, d.orphan)
<1> DEFINE t == IF Kind(d) \in {"refresh", "switch"} THEN jar' ELSE NoToken
           e == [d EXCEPT !.cookie = t]
           f == [e EXCEPT !.answer = NoAnswer]
<1>1. t \in Tokens \cup {NoToken} OBVIOUS
<1>2. /\ e \in Running /\ e.cookie = t
      /\ e.tab = d.tab /\ e.op = d.op /\ e.org = d.org /\ e.target = d.target
      /\ e.step = d.step /\ e.bearer = d.bearer /\ e.orphan = d.orphan
  BY <1>1, CookieSet
<1> HIDE DEF e, t
<1>3. /\ f \in Running /\ f.cookie = t /\ f.answer = NoAnswer
      /\ f.tab = d.tab /\ f.op = d.op /\ f.org = d.org /\ f.target = d.target
      /\ f.step = d.step /\ f.bearer = d.bearer /\ f.orphan = d.orphan
  BY <1>2, AnswerSet
<1>4. call' = [call EXCEPT ![k] = f]
  BY DEF rawRequest, e, t
<1>5. overlapped' = overlapped \cup {{Kind(d), Kind(call[j])} : j \in {j \in Calls \ {k} : Active(j)}}
  BY DEF rawRequest
<1>6. Kind(f) = Kind(d) BY <1>3, SMT DEF Kind
<1>7. f # NoCall BY <1>3, NothingAssumption
<1> HIDE DEF f
<1>8. call'[k] = f /\ \A j \in Calls \ {k} : call'[j] = call[j] BY <1>4
<1>9. call' \in [Calls -> Running \cup {NoCall}] BY <1>3, <1>4
<1> QED BY <1>3, <1>5, <1>6, <1>7, <1>8, <1>9 DEF Sent, t

(* What an answer leaves. *)
Given(k, ok, org, cookie) ==
    /\ call' \in [Calls -> Running \cup {NoCall}]
    /\ call'[k] \in Running /\ call'[k] # NoCall
    /\ call'[k].tab = call[k].tab /\ call'[k].op = call[k].op /\ call'[k].step = call[k].step
    /\ call'[k].org = call[k].org /\ call'[k].target = call[k].target
    /\ call'[k].bearer = call[k].bearer /\ call'[k].orphan = call[k].orphan
    /\ call'[k].cookie = call[k].cookie
    /\ call'[k].answer # NoAnswer
    /\ call'[k].answer.ok = ok /\ call'[k].answer.org = org /\ call'[k].answer.jar = cookie
    /\ Kind(call'[k]) = Kind(call[k])
    /\ \A j \in Calls \ {k} : call'[j] = call[j]

(* An Answer leaves that. *)
LEMMA Answering ==
    ASSUME NEW k \in Calls, Active(k), NEW ok \in BOOLEAN, NEW org \in Orgs \cup {NoAccess},
           NEW cookie \in {Keep} \cup Tokens \cup {NoToken},
           call \in [Calls -> Running \cup {NoCall}],
           Answer(k, ok, org, cookie)
    PROVE  Given(k, ok, org, cookie)
<1> DEFINE a == [ok |-> ok, org |-> org, jar |-> cookie]
           f == [call[k] EXCEPT !.answer = a]
<1>1. a \in Answers /\ a # NoAnswer BY NothingAssumption DEF Answers
<1>2. a.ok = ok /\ a.org = org /\ a.jar = cookie OBVIOUS
<1> HIDE DEF a
<1>3. call[k] \in Running BY DEF Active
<1>4. /\ f \in Running /\ f.answer = a /\ f.cookie = call[k].cookie
      /\ f.tab = call[k].tab /\ f.op = call[k].op /\ f.org = call[k].org
      /\ f.target = call[k].target /\ f.step = call[k].step /\ f.bearer = call[k].bearer
      /\ f.orphan = call[k].orphan
  BY <1>1, <1>3, AnswerSet
<1>5. call' = [call EXCEPT ![k] = f]
  BY DEF Answer, a
<1>6. Kind(f) = Kind(call[k]) BY <1>4, SMT DEF Kind
<1>7. f # NoCall BY <1>4, NothingAssumption
<1> HIDE DEF f
<1>8. call'[k] = f /\ \A j \in Calls \ {k} : call'[j] = call[j] BY <1>5
<1>9. call' \in [Calls -> Running \cup {NoCall}] BY <1>4, <1>5
<1> QED BY <1>1, <1>2, <1>4, <1>6, <1>7, <1>8, <1>9 DEF Given

(* What the end of a call leaves. *)
Ended(k) ==
    /\ call' \in [Calls -> Running \cup {NoCall}]
    /\ call'[k] = NoCall
    /\ \A j \in Calls \ {k} : call'[j] = call[j]
    /\ overlapped' = overlapped

(* End leaves that. *)
LEMMA Ending ==
    ASSUME NEW k \in Calls, call \in [Calls -> Running \cup {NoCall}], End(k)
    PROVE  Ended(k)
BY DEF End, Ended

-----------------------------------------------------------------------------
(* More tokens issued make no answer less fitting. *)
LEMMA FitsMore ==
    ASSUME NEW c, NEW m \in Nat, NEW n \in Nat, m <= n, Fits(c, m)
    PROVE  Fits(c, n)
BY SMT DEF Fits, AnswerFits

(* The typing that a new request keeps. *)
LEMMA SentTyped ==
    ASSUME CallsTyped, OverlapsKnown, overlapped \subseteq Pairs, issued \in Nat,
           NEW k \in Calls, NEW tab, NEW op, NEW step, NEW org, NEW target, NEW bearer,
           NEW orphan, Sent(k, tab, op, step, org, target, bearer, orphan),
           Shape(call'[k]), jar' \in 0..issued, issued' = issued
    PROVE  CallsTyped' /\ OverlapsKnown' /\ overlapped' \subseteq Pairs
<1>2. call'[k].cookie \in 0..issued' BY DEF Sent, NoToken
<1>3. AnswerFits(Kind(call'[k]), call'[k].target, call'[k].answer, issued')
  BY DEF Sent, AnswerFits
<1>4. Fits(call'[k], issued') BY <1>2, <1>3 DEF Fits
<1>5. ASSUME NEW j \in Calls \ {k}, call'[j] # NoCall PROVE Fits(call'[j], issued')
  BY <1>5 DEF CallsTyped, Sent, Active
<1>6. CallsTyped' BY <1>4, <1>5 DEF CallsTyped, Sent, Active
<1>7. ASSUME NEW i \in Calls, NEW j \in Calls, i # j, call'[i] # NoCall, call'[j] # NoCall
      PROVE  {Kind(call'[i]), Kind(call'[j])} \in overlapped'
  <2>1. CASE i = k BY <1>7, <2>1 DEF Sent, Active
  <2>2. CASE j = k
    <3>1. {Kind(call'[i]), Kind(call'[j])} = {Kind(call'[j]), Kind(call'[i])} OBVIOUS
    <3> QED BY <1>7, <2>2, <3>1 DEF Sent, Active
  <2>3. CASE i # k /\ j # k BY <1>7, <2>3 DEF Sent, Active, OverlapsKnown
  <2> QED BY <2>1, <2>2, <2>3
<1>8. OverlapsKnown' BY <1>7 DEF OverlapsKnown, Active
<1>9. ASSUME NEW o \in overlapped' PROVE o \in Pairs
  <2>1. CASE o \in overlapped BY <2>1
  <2>2. CASE o \notin overlapped
    <3>1. PICK j \in Calls \ {k} : Active(j) /\ o = {Kind(call'[k]), Kind(call[j])}
      BY <1>9, <2>2 DEF Sent
    <3>2. Kind(call'[k]) \in Kinds /\ Kind(call[j]) \in Kinds
      BY <3>1, KindTyped DEF CallsTyped, Active, Sent
    <3> QED BY <3>1, <3>2 DEF Pairs
  <2> QED BY <2>1, <2>2
<1> QED BY <1>6, <1>8, <1>9

(* The typing that an answer keeps. *)
LEMMA GivenTyped ==
    ASSUME CallsTyped, OverlapsKnown, issued \in Nat, issued' \in Nat, issued <= issued',
           NEW k \in Calls, Active(k), NEW ok, NEW org, NEW cookie, Given(k, ok, org, cookie),
           AnswerFits(Kind(call'[k]), call'[k].target, call'[k].answer, issued'),
           overlapped' = overlapped
    PROVE  CallsTyped' /\ OverlapsKnown'
<1>1. Shape(call'[k]) BY DEF Given, Shape, CallsTyped, Fits
<1>2. call'[k].cookie \in 0..issued' BY SMT DEF Given, CallsTyped, Fits
<1>4. Fits(call'[k], issued') BY <1>1, <1>2 DEF Fits
<1>5. ASSUME NEW j \in Calls \ {k}, call'[j] # NoCall PROVE Fits(call'[j], issued')
  <2>1. Fits(call[j], issued) BY <1>5 DEF CallsTyped, Given, Active
  <2>2. call'[j] = call[j] BY <1>5 DEF Given
  <2> QED BY <2>1, <2>2, FitsMore
<1>6. CallsTyped' BY <1>4, <1>5 DEF CallsTyped, Given, Active
<1>7. ASSUME NEW j \in Calls
      PROVE  (call'[j] # NoCall <=> Active(j)) /\ (Active(j) => Kind(call'[j]) = Kind(call[j]))
  BY DEF Given, Active
<1>8. OverlapsKnown' BY <1>7 DEF OverlapsKnown, Active
<1> QED BY <1>6, <1>8

(* The typing that the end of a call keeps. *)
LEMMA EndedTyped ==
    ASSUME CallsTyped, OverlapsKnown, NEW k \in Calls, Ended(k), issued' = issued
    PROVE  CallsTyped' /\ OverlapsKnown'
<1>1. CallsTyped' BY DEF CallsTyped, Ended, Active
<1>2. OverlapsKnown' BY DEF OverlapsKnown, Ended, Active
<1> QED BY <1>1, <1>2

(* Calls of which only the token or the page has changed. *)
Alike ==
    /\ call' \in [Calls -> Running \cup {NoCall}]
    /\ \A k \in Calls : Active(k) <=> call'[k] # NoCall
    /\ \A k \in Calls : Active(k) =>
          /\ call'[k].tab = call[k].tab /\ call'[k].op = call[k].op
          /\ call'[k].step = call[k].step /\ call'[k].org = call[k].org
          /\ call'[k].target = call[k].target /\ call'[k].cookie = call[k].cookie
          /\ call'[k].answer = call[k].answer
          /\ Kind(call'[k]) = Kind(call[k])
    /\ overlapped' = overlapped

(* The typing that expiry and reloads keep. *)
LEMMA AlikeTyped ==
    ASSUME CallsTyped, OverlapsKnown, Alike, issued' = issued
    PROVE  CallsTyped' /\ OverlapsKnown'
<1>1. ASSUME NEW k \in Calls, call'[k] # NoCall PROVE Fits(call'[k], issued')
  BY <1>1 DEF CallsTyped, Alike, Fits, Shape
<1>2. CallsTyped' BY <1>1 DEF CallsTyped, Alike, Active
<1>3. OverlapsKnown' BY DEF OverlapsKnown, Alike, Active
<1> QED BY <1>2, <1>3

-----------------------------------------------------------------------------
(* What a new session leaves: one more live token, the old one dead, the   *)
(* others as they were.                                                    *)
Renewed(org, old) ==
    /\ issued' = issued + 1 /\ issued' \in Tokens
    /\ key'[issued'] = "live" /\ context'[issued'] = org
    /\ old \in Tokens => key'[old] = "tombstone"
    /\ \A t \in Tokens : t # issued' /\ t # old => key'[t] = key[t] /\ context'[t] = context[t]

(* NewSession leaves that. *)
LEMMA Renewing ==
    ASSUME ServerTyped, NEW org \in Orgs, NEW old \in 0..issued, NewSession(org, old)
    PROVE  ServerTyped' /\ Renewed(org, old)
<1>1. /\ issued \in 0..MaxTokens /\ MaxTokens \in Nat /\ issued < MaxTokens
      /\ issued' = issued + 1
  BY BrowserAssumption DEF ServerTyped, NewSession
<1>2. issued' \in Tokens /\ issued' \in 0..MaxTokens /\ old # issued'
  BY <1>1, SMT DEF Tokens
<1>3. key' = [s \in Tokens |-> IF s = issued' THEN "live"
                               ELSE IF s = old THEN "tombstone" ELSE key[s]]
  BY <1>1 DEF NewSession
<1>4. context' = [s \in Tokens |-> IF s = issued' THEN org
                                   ELSE IF s = old THEN NoAccess ELSE context[s]]
  BY <1>1 DEF NewSession
<1>5. Renewed(org, old)
  BY <1>1, <1>2, <1>3, <1>4 DEF Renewed
<1>6. /\ key' \in [Tokens -> {"none", "live", "tombstone"}]
      /\ context' \in [Tokens -> Orgs \cup {NoAccess}]
  BY <1>3, <1>4 DEF ServerTyped
<1>7. ASSUME NEW t \in Tokens, key'[t] = "live" PROVE t \in 1..issued' /\ context'[t] \in Orgs
  <2>1. CASE t = issued' BY <1>1, <1>4, <1>7, <2>1, SMT
  <2>2. CASE t # issued'
    <3>1. t # old BY <1>3, <1>7, <2>2
    <3>2. key[t] = "live" /\ context'[t] = context[t] BY <1>3, <1>4, <1>7, <2>2, <3>1
    <3>3. t \in 1..issued /\ context[t] \in Orgs BY <3>2 DEF ServerTyped
    <3> QED BY <1>1, <3>2, <3>3, SMT
  <2> QED BY <2>1, <2>2
<1> QED BY <1>2, <1>5, <1>6, <1>7 DEF ServerTyped

(* What the end of all sessions leaves. *)
LEMMA Wiping ==
    ASSUME ServerTyped, WipeAll
    PROVE  ServerTyped' /\ issued' = issued /\ \A t \in Tokens : key'[t] # "live"
<1>1. /\ key' = [t \in Tokens |-> IF key[t] = "live" THEN "none" ELSE key[t]]
      /\ context' = [t \in Tokens |-> NoAccess] /\ issued' = issued
  BY DEF WipeAll
<1>2. \A t \in Tokens : key'[t] # "live" BY <1>1
<1> QED BY <1>1, <1>2 DEF ServerTyped

-----------------------------------------------------------------------------
(* What each kind of step does to the calls, and that the types hold after *)
(* it.                                                                     *)
LEMMA Starting ==
    ASSUME TypeInv, NEW k \in Calls, NEW tab \in Tabs, NEW op \in Ops,
           NEW step \in {"entry", "first"}, NEW target \in Orgs \cup {NoAccess},
           op = "switch" => target \in Orgs,
           step = "entry" => op = "mount",
           op = "load" => access[tab] # NoAccess,
           Start(k, tab, op, step, target)
    PROVE  /\ Sent(k, tab, op, step,
                   IF op = "load" /\ tab \notin behind THEN access[tab].org ELSE NoAccess,
                   target, access[tab], FALSE)
           /\ ~Active(k)
           /\ UNCHANGED <<server, jar, access, user, behind, lost>>
           /\ CallsTyped' /\ OverlapsKnown' /\ overlapped' \subseteq Pairs
<1> DEFINE org == IF op = "load" /\ tab \notin behind THEN access[tab].org ELSE NoAccess
           d == [tab |-> tab, op |-> op, step |-> step, org |-> org, target |-> target,
                 bearer |-> access[tab], cookie |-> NoToken, answer |-> NoAnswer,
                 orphan |-> FALSE]
<1>1. access[tab] \in Access \cup {NoAccess} BY DEF TypeInv, TabsTyped
<1>2. org \in Orgs \cup {NoAccess} BY <1>1 DEF Access
<1> HIDE DEF org
<1>3. d \in Running BY <1>1, <1>2 DEF Running
<1>4. /\ d.tab = tab /\ d.op = op /\ d.step = step /\ d.org = org /\ d.target = target
      /\ d.bearer = access[tab] /\ d.orphan = FALSE
  OBVIOUS
<1>5. rawRequest(k, d) /\ ~Active(k) /\ jar' = jar
      /\ UNCHANGED <<server, access, user, behind, lost>>
  BY DEF Start, d, org
<1> HIDE DEF d
<1>6. jar \in 0..issued /\ issued \in Nat /\ jar' \in Tokens \cup {NoToken}
  BY <1>5, BrowserAssumption, SMT DEF TypeInv, ServerTyped, Tokens, NoToken
<1>7. Sent(k, tab, op, step, org, target, access[tab], FALSE)
  BY <1>3, <1>4, <1>5, <1>6, Sending DEF TypeInv, CallsTyped
<1>8. Shape(call'[k]) BY <1>7 DEF Sent, Shape
<1>9. issued' = issued BY <1>5 DEF server
<1>10. CallsTyped' /\ OverlapsKnown' /\ overlapped' \subseteq Pairs
  BY <1>5, <1>6, <1>7, <1>8, <1>9, SentTyped DEF TypeInv, GhostsTyped
<1> QED BY <1>5, <1>7, <1>10 DEF org

(* A call that goes on with its next request. *)
LEMMA Resending ==
    ASSUME TypeInv, NEW k \in Calls, Active(k), NEW d \in Running, Shape(d), rawRequest(k, d),
           d.tab = call[k].tab, d.org = call[k].org, d.target = call[k].target,
           d.orphan = call[k].orphan, jar' \in 0..issued, issued' = issued
    PROVE  /\ Sent(k, call[k].tab, d.op, d.step, call[k].org, call[k].target, d.bearer,
                   call[k].orphan)
           /\ CallsTyped' /\ OverlapsKnown' /\ overlapped' \subseteq Pairs
<1>1. issued \in Nat /\ jar' \in Tokens \cup {NoToken}
  BY BrowserAssumption, SMT DEF TypeInv, ServerTyped, Tokens, NoToken
<1>2. Sent(k, call[k].tab, d.op, d.step, call[k].org, call[k].target, d.bearer,
           call[k].orphan)
  BY <1>1, Sending DEF TypeInv, CallsTyped
<1>3. Shape(call'[k]) BY <1>2 DEF Sent, Shape
<1>4. CallsTyped' /\ OverlapsKnown' /\ overlapped' \subseteq Pairs
  BY <1>1, <1>2, <1>3, SentTyped DEF TypeInv, GhostsTyped
<1> QED BY <1>2, <1>4

(* The answer that has come, and the cookie it leaves. *)
LEMMA Arriving ==
    ASSUME TypeInv, NEW k \in Calls, NEW kind, NEW ok, Answered(k, kind, ok)
    PROVE  /\ Active(k) /\ ~call[k].orphan /\ call[k] \in Running /\ Shape(call[k])
           /\ call[k].answer # NoAnswer /\ call[k].answer.ok = ok /\ Kind(call[k]) = kind
           /\ UNCHANGED <<key, context, issued, lost>>
           /\ jar' \in 0..issued
           /\ kind = "refresh" =>
                IF ok THEN jar' = call[k].answer.jar /\ jar' \in 1..issued
                           /\ call[k].answer.org \in Orgs
                      ELSE jar' \in {jar, NoToken}
           /\ kind = "login" => /\ ok /\ jar' = call[k].answer.jar /\ jar' \in 1..issued
                                /\ call[k].answer.org \in Orgs
           /\ kind \in {"load", "mount", "switch"} => jar' = jar
           /\ kind = "switch" /\ ok => call[k].answer.org = call[k].target
                                       /\ call[k].target \in Orgs
           /\ kind = "logout" => jar' \in {jar, NoToken}
<1>1. /\ Active(k) /\ ~call[k].orphan /\ call[k].answer # NoAnswer /\ call[k].answer.ok = ok
      /\ Kind(call[k]) = kind
      /\ jar' = (IF call[k].answer.jar = Keep THEN jar ELSE call[k].answer.jar)
      /\ UNCHANGED <<key, context, issued, lost>>
  BY DEF Answered, server
<1>2. call[k] \in Running /\ Fits(call[k], issued) BY <1>1 DEF TypeInv, CallsTyped, Active
<1>3. Shape(call[k]) /\ AnswerFits(kind, call[k].target, call[k].answer, issued)
  BY <1>1, <1>2 DEF Fits
<1>4. issued \in Nat /\ jar \in 0..issued BY BrowserAssumption DEF TypeInv, ServerTyped
<1>5. Keep \notin 1..issued /\ Keep \notin Nat BY NothingAssumption
<1>6. kind = "refresh" =>
         IF ok THEN jar' = call[k].answer.jar /\ jar' \in 1..issued /\ call[k].answer.org \in Orgs
               ELSE jar' \in {jar, NoToken}
  BY <1>1, <1>3, <1>5 DEF AnswerFits
<1>7. kind = "login" => ok /\ jar' = call[k].answer.jar /\ jar' \in 1..issued
                        /\ call[k].answer.org \in Orgs
  BY <1>1, <1>3, <1>5 DEF AnswerFits
<1>8. kind \in {"load", "mount", "switch"} => jar' = jar
  BY <1>1, <1>3 DEF AnswerFits
<1>9. kind = "logout" => jar' \in {jar, NoToken}
  BY <1>1, <1>3 DEF AnswerFits
<1>10. kind = "switch" /\ ok => call[k].answer.org = call[k].target /\ call[k].target \in Orgs
  BY <1>1, <1>2, <1>3, SMT DEF AnswerFits, Shape, Kind
<1>11. kind \in {"refresh", "login", "load", "mount", "switch", "logout"}
  BY <1>1, <1>2, KindTyped DEF Kinds, Ops, Kind
<1>12. jar' \in 0..issued
  <2>1. CASE kind = "refresh" /\ ok BY <1>6, <2>1
  <2>2. CASE kind = "refresh" /\ ~ok BY <1>4, <1>6, <2>2 DEF NoToken
  <2>3. CASE kind = "login" BY <1>7, <2>3
  <2>4. CASE kind \in {"load", "mount", "switch"} BY <1>4, <1>8, <2>4
  <2>5. CASE kind = "logout" BY <1>4, <1>9, <2>5 DEF NoToken
  <2> QED BY <1>11, <2>1, <2>2, <2>3, <2>4, <2>5
<1> QED BY <1>1, <1>2, <1>3, <1>6, <1>7, <1>8, <1>9, <1>10, <1>12

(* The token of an answer. *)
LEMMA TokenTyped ==
    ASSUME NEW k \in Calls, call[k].answer.org \in Orgs
    PROVE  /\ Token(k) \in Access /\ Token(k) # NoAccess
           /\ Token(k).org = call[k].answer.org /\ Token(k).expired = FALSE
<1>1. Token(k) \in [org : Orgs, expired : BOOLEAN] BY DEF Token
<1>2. Token(k).org = call[k].answer.org /\ Token(k).expired = FALSE BY DEF Token
<1> QED BY <1>1, <1>2, BrowserAssumption DEF Access

(* Refreshed: the tab gets the new token, the request leaves with it. *)
LEMMA Refreshing ==
    ASSUME TypeInv, NEW k \in Calls, Refreshed(k)
    PROVE  /\ Sent(k, call[k].tab, call[k].op, IF call[k].step = "entry" THEN "first" ELSE "retry",
                   call[k].org, call[k].target, Token(k), FALSE)
           /\ Token(k) \in Access /\ Token(k).org = call[k].answer.org /\ Token(k).org \in Orgs
           /\ Token(k) # NoAccess /\ Token(k).expired = FALSE
           /\ call[k].op \in {"mount", "load", "switch"} /\ call[k].step \in {"entry", "refresh"}
           /\ access' = [access EXCEPT ![call[k].tab] = Token(k)]
           /\ behind' = behind \ {call[k].tab}
           /\ UNCHANGED <<key, context, issued, lost, user, loading, loggedIn>>
           /\ CallsTyped' /\ OverlapsKnown' /\ overlapped' \subseteq Pairs
<1> DEFINE step == IF call[k].step = "entry" THEN "first" ELSE "retry"
           c == [call[k] EXCEPT !.step = step]
           d == [c EXCEPT !.bearer = Token(k)]
<1>1. Answered(k, "refresh", TRUE) BY DEF Refreshed
<1>2. /\ Active(k) /\ ~call[k].orphan /\ call[k] \in Running /\ Shape(call[k])
      /\ Kind(call[k]) = "refresh" /\ call[k].answer.org \in Orgs
      /\ UNCHANGED <<key, context, issued, lost>> /\ jar' \in 0..issued
  BY <1>1, Arriving
<1>3. /\ Token(k) \in Access /\ Token(k).org = call[k].answer.org /\ Token(k) # NoAccess
      /\ Token(k).expired = FALSE
  BY <1>2, TokenTyped
<1>4. call[k].step \in {"entry", "refresh"} /\ call[k].op \in {"mount", "load", "switch"}
  BY <1>2, SMT DEF Running, Kind, Shape, Ops
<1>5. /\ c \in Running /\ c.step = step
      /\ c.tab = call[k].tab /\ c.op = call[k].op /\ c.org = call[k].org
      /\ c.target = call[k].target /\ c.orphan = call[k].orphan
  <2>1. step \in Steps BY DEF Steps
  <2> HIDE DEF step
  <2> QED BY <1>2, <2>1, StepSet
<1>6. rawRequest(k, d)
  BY DEF Refreshed
<1> HIDE DEF c
<1>7. /\ d \in Running /\ d.step = step /\ d.bearer = Token(k)
      /\ d.tab = call[k].tab /\ d.op = call[k].op /\ d.org = call[k].org
      /\ d.target = call[k].target /\ d.orphan = call[k].orphan
  BY <1>3, <1>5, BearerSet
<1> HIDE DEF d
<1>8. Shape(d) BY <1>2, <1>4, <1>7, SMT DEF Shape
<1>9. /\ Sent(k, call[k].tab, call[k].op, step, call[k].org, call[k].target, Token(k),
              call[k].orphan)
      /\ CallsTyped' /\ OverlapsKnown' /\ overlapped' \subseteq Pairs
  BY <1>2, <1>6, <1>7, <1>8, Resending
<1>10. call[k].orphan = FALSE BY <1>2, SMT DEF Running
<1>11. /\ access' = [access EXCEPT ![call[k].tab] = Token(k)]
       /\ behind' = behind \ {call[k].tab} /\ UNCHANGED <<user, loading, loggedIn>>
  BY DEF Refreshed, SetAccess
<1> QED BY <1>2, <1>3, <1>4, <1>9, <1>10, <1>11

(* Unauthorized: the same request, next a refresh. *)
LEMMA Retrying ==
    ASSUME TypeInv, NEW k \in Calls, Unauthorized(k)
    PROVE  /\ Sent(k, call[k].tab, call[k].op, "refresh", call[k].org, call[k].target,
                   call[k].bearer, FALSE)
           /\ call[k].op \in {"mount", "load", "switch"} /\ call[k].step = "first"
           /\ Kind(call[k]) = call[k].op /\ ~call[k].answer.ok
           /\ UNCHANGED <<key, context, issued, jar, lost, access, user, loading, loggedIn, behind>>
           /\ CallsTyped' /\ OverlapsKnown' /\ overlapped' \subseteq Pairs
<1> DEFINE d == [call[k] EXCEPT !.step = "refresh"]
<1>1. PICK kind \in {"load", "mount", "switch"} : Answered(k, kind, FALSE) BY DEF Unauthorized
<1>2. /\ Active(k) /\ ~call[k].orphan /\ call[k] \in Running /\ Shape(call[k])
      /\ Kind(call[k]) = kind /\ ~call[k].answer.ok /\ jar' = jar
      /\ UNCHANGED <<key, context, issued, lost>> /\ jar' \in 0..issued
  BY <1>1, Arriving
<1>3. rawRequest(k, d) /\ call[k].step = "first" /\ UNCHANGED <<state, loggedIn, behind>>
  BY DEF Unauthorized
<1>4. /\ d \in Running /\ d.step = "refresh" /\ d.bearer = call[k].bearer
      /\ d.tab = call[k].tab /\ d.op = call[k].op /\ d.org = call[k].org
      /\ d.target = call[k].target /\ d.orphan = call[k].orphan
  BY <1>2, StepSet DEF Steps
<1> HIDE DEF d
<1>5. Kind(call[k]) = call[k].op BY <1>2, <1>3, SMT DEF Kind
<1>6. Shape(d) BY <1>2, <1>4, <1>5, SMT DEF Shape
<1>7. /\ Sent(k, call[k].tab, call[k].op, "refresh", call[k].org, call[k].target,
              call[k].bearer, call[k].orphan)
      /\ CallsTyped' /\ OverlapsKnown' /\ overlapped' \subseteq Pairs
  BY <1>2, <1>3, <1>4, <1>6, Resending
<1>8. call[k].orphan = FALSE BY <1>2, SMT DEF Running
<1> QED BY <1>2, <1>3, <1>5, <1>7, <1>8 DEF state

(* SessionExpired: nothing is left to do, or a logout. *)
LEMMA Expelling ==
    ASSUME TypeInv, NEW k \in Calls, SessionExpired(k)
    PROVE  /\ Active(k) /\ ~call[k].orphan /\ call[k] \in Running
           /\ call[k].answer # NoAnswer /\ ~call[k].answer.ok
           /\ \/ Kind(call[k]) = "refresh" /\ call[k].step = "refresh"
              \/ Kind(call[k]) \in {"load", "mount", "switch"} /\ call[k].step = "retry"
           /\ jar' \in {jar, NoToken}
           /\ UNCHANGED <<key, context, issued, lost, loading, loggedIn, behind>>
           /\ \/ access[call[k].tab] = NoAccess /\ ClearSession(call[k].tab) /\ Ended(k)
              \/ /\ access[call[k].tab] # NoAccess /\ UNCHANGED <<access, user>>
                 /\ Sent(k, call[k].tab, "expelled", "first", call[k].org, call[k].target,
                         access[call[k].tab], FALSE)
           /\ CallsTyped' /\ OverlapsKnown' /\ overlapped' \subseteq Pairs
<1> DEFINE o == [call[k] EXCEPT !.op = "expelled"]
           c == [o EXCEPT !.step = "first"]
           d == [c EXCEPT !.bearer = access[call[k].tab]]
<1>1. PICK kind \in {"refresh", "load", "mount", "switch"} :
         /\ Answered(k, kind, FALSE)
         /\ call[k].step = IF kind = "refresh" THEN "refresh" ELSE "retry"
  BY DEF SessionExpired
<1>2. /\ Active(k) /\ ~call[k].orphan /\ call[k] \in Running /\ call[k].answer # NoAnswer
      /\ Kind(call[k]) = kind /\ ~call[k].answer.ok /\ jar' \in {jar, NoToken}
      /\ UNCHANGED <<key, context, issued, lost>> /\ jar' \in 0..issued
  BY <1>1, Arriving
<1>3. UNCHANGED <<loading, loggedIn, behind>> BY DEF SessionExpired
<1>4. CASE access[call[k].tab] = NoAccess
  <2>1. ClearSession(call[k].tab) /\ End(k) BY <1>4 DEF SessionExpired
  <2>2. Ended(k) BY <2>1, Ending DEF TypeInv, CallsTyped
  <2>3. CallsTyped' /\ OverlapsKnown' BY <1>2, <2>2, EndedTyped DEF TypeInv
  <2>4. overlapped' \subseteq Pairs BY <2>2 DEF Ended, TypeInv, GhostsTyped
  <2> QED BY <1>1, <1>2, <1>3, <1>4, <2>1, <2>2, <2>3, <2>4
<1>5. CASE access[call[k].tab] # NoAccess
  <2>1. rawRequest(k, d) /\ UNCHANGED <<access, user>> BY <1>5 DEF SessionExpired
  <2>2. /\ o \in Running /\ o.op = "expelled"
        /\ o.tab = call[k].tab /\ o.org = call[k].org
        /\ o.target = call[k].target /\ o.orphan = call[k].orphan
    BY <1>2, OpSet DEF Ops
  <2> HIDE DEF o
  <2>3. /\ c \in Running /\ c.op = "expelled" /\ c.step = "first"
        /\ c.tab = call[k].tab /\ c.org = call[k].org
        /\ c.target = call[k].target /\ c.orphan = call[k].orphan
    BY <2>2, StepSet DEF Steps
  <2> HIDE DEF c
  <2>4. access[call[k].tab] \in Access \cup {NoAccess}
    BY <1>2, SMT DEF TypeInv, TabsTyped, Running
  <2>5. /\ d \in Running /\ d.op = "expelled" /\ d.step = "first"
        /\ d.bearer = access[call[k].tab]
        /\ d.tab = call[k].tab /\ d.org = call[k].org
        /\ d.target = call[k].target /\ d.orphan = call[k].orphan
    BY <2>3, <2>4, BearerSet
  <2> HIDE DEF d
  <2>6. Shape(d) BY <2>5, SMT DEF Shape
  <2>7. /\ Sent(k, call[k].tab, d.op, d.step, call[k].org, call[k].target,
                d.bearer, call[k].orphan)
        /\ CallsTyped' /\ OverlapsKnown' /\ overlapped' \subseteq Pairs
    BY <1>2, <2>1, <2>5, <2>6, Resending
  <2>8. call[k].orphan = FALSE BY <1>2, SMT DEF Running
  <2> QED BY <1>1, <1>2, <1>3, <1>5, <2>1, <2>5, <2>7, <2>8
<1> QED BY <1>4, <1>5

-----------------------------------------------------------------------------
(* What each handler does, and that the types hold after it. *)
Waiting(k, kind) ==
    /\ Active(k) /\ call[k] \in Running /\ Shape(call[k])
    /\ call[k].answer = NoAnswer /\ Kind(call[k]) = kind

(* A request that waits for its answer. *)
LEMMA PendingWaits ==
    ASSUME TypeInv, NEW k \in Calls, NEW kind, Pending(k, kind)
    PROVE  Waiting(k, kind) /\ call[k].cookie \in 0..issued
BY DEF TypeInv, CallsTyped, Pending, Active, Waiting, Fits

(* An answer that fits. *)
LEMMA GivenKept ==
    ASSUME TypeInv, NEW k \in Calls, NEW kind, Waiting(k, kind),
           NEW ok \in BOOLEAN, NEW org \in Orgs \cup {NoAccess},
           NEW cookie \in {Keep} \cup Tokens \cup {NoToken}, Answer(k, ok, org, cookie),
           AnswerFits(kind, call[k].target, [ok |-> ok, org |-> org, jar |-> cookie], issued'),
           ServerTyped', issued <= issued', overlapped' = overlapped
    PROVE  Given(k, ok, org, cookie) /\ CallsTyped' /\ OverlapsKnown'
<1>1. Given(k, ok, org, cookie) BY Answering DEF Waiting, TypeInv, CallsTyped
<1>2. issued \in Nat /\ issued' \in Nat BY BrowserAssumption, SMT DEF TypeInv, ServerTyped
<1>3. AnswerFits(Kind(call'[k]), call'[k].target, call'[k].answer, issued')
  BY <1>1, NothingAssumption DEF Given, AnswerFits, Waiting, Answers
<1>4. CallsTyped' /\ OverlapsKnown'
  BY <1>1, <1>2, <1>3, GivenTyped DEF TypeInv, Waiting
<1> QED BY <1>1, <1>4

(* POST /auth/login: a new session of some organization, the others behind. *)
LEMMA ServingLogin ==
    ASSUME TypeInv, NEW k \in Calls, ServeLogin(k)
    PROVE  /\ Waiting(k, "login")
           /\ \E org \in Orgs : Renewed(org, NoToken) /\ Given(k, TRUE, org, issued')
           /\ behind' = (behind \cup Tabs) \ {call[k].tab}
           /\ UNCHANGED <<jar, access, user, loading, loggedIn, overlapped, lost>>
           /\ ServerTyped' /\ CallsTyped' /\ OverlapsKnown'
<1>1. Waiting(k, "login") BY PendingWaits DEF ServeLogin
<1>2. /\ behind' = (behind \cup Tabs) \ {call[k].tab}
      /\ UNCHANGED <<jar, access, user, loading, loggedIn, overlapped, lost>>
  BY DEF ServeLogin, state
<1>3. PICK org \in Orgs : NewSession(org, NoToken) /\ Answer(k, TRUE, org, issued')
  BY DEF ServeLogin
<1>4. ServerTyped' /\ Renewed(org, NoToken)
  BY <1>3, Renewing, BrowserAssumption, SMT DEF TypeInv, ServerTyped, NoToken
<1>5. issued' \in Tokens /\ issued' \in 1..issued' /\ issued <= issued'
  BY <1>4, BrowserAssumption, SMT DEF Renewed, TypeInv, ServerTyped, Tokens
<1>6. AnswerFits("login", call[k].target, [ok |-> TRUE, org |-> org, jar |-> issued'], issued')
  BY <1>5 DEF AnswerFits
<1>7. Given(k, TRUE, org, issued') /\ CallsTyped' /\ OverlapsKnown'
  BY <1>1, <1>2, <1>3, <1>4, <1>5, <1>6, GivenKept
<1> QED BY <1>1, <1>2, <1>4, <1>7

(* POST /auth/refresh: the session goes on under a new token, or is refused. *)
LEMMA ServingRefresh ==
    ASSUME TypeInv, NEW k \in Calls, ServeRefresh(k)
    PROVE  /\ Waiting(k, "refresh")
           /\ \/ /\ call[k].cookie \in 1..issued /\ call[k].cookie \in Tokens
                 /\ key[call[k].cookie] = "live" /\ context[call[k].cookie] \in Orgs
                 /\ Renewed(context[call[k].cookie], call[k].cookie)
                 /\ Given(k, TRUE, context[call[k].cookie], issued')
              \/ /\ Found(call[k].cookie) # "live"
                 /\ issued' = issued /\ Given(k, FALSE, NoAccess, NoToken)
                 /\ \/ \A t \in Tokens : key'[t] # "live"
                    \/ key' = key /\ context' = context
           /\ UNCHANGED <<jar, access, user, loading, loggedIn, overlapped, behind, lost>>
           /\ ServerTyped' /\ CallsTyped' /\ OverlapsKnown'
<1> DEFINE t == call[k].cookie
<1>1. Waiting(k, "refresh") /\ t \in 0..issued BY PendingWaits DEF ServeRefresh
<1>2. UNCHANGED <<jar, access, user, loading, loggedIn, overlapped, behind, lost>>
  BY DEF ServeRefresh, state, ghosts
<1>3. issued \in 0..MaxTokens /\ MaxTokens \in Nat
  BY BrowserAssumption DEF TypeInv, ServerTyped
<1>4. CASE Found(t) = "live" /\ NewSession(context[t], t) /\ Answer(k, TRUE, context[t], issued')
  <2>1. t \in 1..issued /\ t \in Tokens /\ key[t] = "live"
    BY <1>1, <1>3, <1>4, SMT DEF Found, NoToken, Tokens
  <2>2. context[t] \in Orgs BY <2>1 DEF TypeInv, ServerTyped
  <2>3. ServerTyped' /\ Renewed(context[t], t)
    BY <1>1, <1>4, <2>2, Renewing DEF TypeInv
  <2>4. issued' \in Tokens /\ issued' \in 1..issued' /\ issued <= issued'
    BY <1>3, <2>3, SMT DEF Renewed, Tokens
  <2>5. AnswerFits("refresh", call[k].target,
                   [ok |-> TRUE, org |-> context[t], jar |-> issued'], issued')
    BY <2>2, <2>4 DEF AnswerFits
  <2>6. Given(k, TRUE, context[t], issued') /\ CallsTyped' /\ OverlapsKnown'
    BY <1>1, <1>2, <1>4, <2>2, <2>3, <2>4, <2>5, GivenKept
  <2> QED BY <1>1, <1>2, <2>1, <2>2, <2>3, <2>6
<1>5. CASE Found(t) # "live" /\ (WipeAll \/ UNCHANGED server) /\ Answer(k, FALSE, NoAccess, NoToken)
  <2>1. /\ ServerTyped' /\ issued' = issued
        /\ \/ \A s \in Tokens : key'[s] # "live"
           \/ key' = key /\ context' = context
    <3>1. CASE WipeAll BY <3>1, Wiping DEF TypeInv
    <3>2. CASE UNCHANGED server BY <3>2 DEF TypeInv, ServerTyped, server
    <3> QED BY <1>5, <3>1, <3>2
  <2>2. AnswerFits("refresh", call[k].target,
                   [ok |-> FALSE, org |-> NoAccess, jar |-> NoToken], issued')
    BY DEF AnswerFits
  <2>3. issued <= issued' BY <1>3, <2>1
  <2>4. Given(k, FALSE, NoAccess, NoToken) /\ CallsTyped' /\ OverlapsKnown'
    BY <1>1, <1>2, <1>5, <2>1, <2>2, <2>3, GivenKept
  <2> QED BY <1>1, <1>2, <1>5, <2>1, <2>4
<1> QED BY <1>4, <1>5 DEF ServeRefresh

(* POST /auth/switch-org: the context of the cookie, the others behind. *)
LEMMA ServingSwitch ==
    ASSUME TypeInv, NEW k \in Calls, ServeSwitch(k)
    PROVE  /\ Waiting(k, "switch") /\ authenticate(k) /\ call[k].target \in Orgs
           /\ Given(k, TRUE, call[k].target, Keep)
           /\ context' = IF Found(call[k].cookie) = "live"
                         THEN [context EXCEPT ![call[k].cookie] = call[k].target] ELSE context
           /\ behind' = (behind \cup Tabs) \ {call[k].tab}
           /\ UNCHANGED <<key, issued, jar, access, user, loading, loggedIn, overlapped, lost>>
           /\ ServerTyped' /\ CallsTyped' /\ OverlapsKnown'
<1>1. Waiting(k, "switch") BY PendingWaits DEF ServeSwitch
<1>2. /\ authenticate(k) /\ Answer(k, TRUE, call[k].target, Keep)
      /\ context' = IF Found(call[k].cookie) = "live"
                    THEN [context EXCEPT ![call[k].cookie] = call[k].target] ELSE context
      /\ behind' = (behind \cup Tabs) \ {call[k].tab}
      /\ UNCHANGED <<key, issued, jar, access, user, loading, loggedIn, overlapped, lost>>
  BY DEF ServeSwitch, state
<1>3. call[k].target \in Orgs BY <1>1, SMT DEF Waiting, Shape, Kind, Running
<1>4. ServerTyped' BY <1>2, <1>3 DEF TypeInv, ServerTyped
<1>5. issued <= issued' BY <1>2, BrowserAssumption, SMT DEF TypeInv, ServerTyped
<1>6. AnswerFits("switch", call[k].target,
                 [ok |-> TRUE, org |-> call[k].target, jar |-> Keep], issued')
  BY DEF AnswerFits
<1>7. Given(k, TRUE, call[k].target, Keep) /\ CallsTyped' /\ OverlapsKnown'
  BY <1>1, <1>2, <1>3, <1>4, <1>5, <1>6, GivenKept
<1> QED BY <1>1, <1>2, <1>3, <1>4, <1>7

(* DELETE /auth/session: no token is left alive. *)
LEMMA ServingLogout ==
    ASSUME TypeInv, NEW k \in Calls, ServeLogout(k)
    PROVE  /\ Waiting(k, "logout") /\ Given(k, TRUE, NoAccess, NoToken)
           /\ issued' = issued /\ \A t \in Tokens : key'[t] # "live"
           /\ UNCHANGED <<jar, access, user, loading, loggedIn, overlapped, behind, lost>>
           /\ ServerTyped' /\ CallsTyped' /\ OverlapsKnown'
<1>1. Waiting(k, "logout") BY PendingWaits DEF ServeLogout
<1>2. /\ WipeAll /\ Answer(k, TRUE, NoAccess, NoToken)
      /\ UNCHANGED <<jar, access, user, loading, loggedIn, overlapped, behind, lost>>
  BY DEF ServeLogout, state, ghosts
<1>3. ServerTyped' /\ issued' = issued /\ \A t \in Tokens : key'[t] # "live"
  BY <1>2, Wiping DEF TypeInv
<1>4. issued <= issued' BY <1>3, BrowserAssumption, SMT DEF TypeInv, ServerTyped
<1>5. AnswerFits("logout", call[k].target,
                 [ok |-> TRUE, org |-> NoAccess, jar |-> NoToken], issued')
  BY DEF AnswerFits
<1>6. Given(k, TRUE, NoAccess, NoToken) /\ CallsTyped' /\ OverlapsKnown'
  BY <1>1, <1>2, <1>3, <1>4, <1>5, GivenKept
<1> QED BY <1>1, <1>2, <1>3, <1>6

(* ServeOther, Refuse, ServerError: an answer that changes nothing else. *)
LEMMA ServingRest ==
    ASSUME TypeInv, NEW k \in Calls, ServeOther(k) \/ Refuse(k) \/ ServerError(k)
    PROVE  /\ \E kind \in {"load", "mount", "switch", "logout", "refresh"}, ok \in BOOLEAN :
                 /\ Waiting(k, kind) /\ Given(k, ok, NoAccess, Keep)
                 /\ ok => kind \in {"load", "mount"}
                 /\ ~ok => IF kind = "refresh" THEN lost' ELSE ~authenticate(k)
           /\ lost => lost'
           /\ UNCHANGED <<server, jar, access, user, loading, loggedIn, overlapped, behind>>
           /\ ServerTyped' /\ lost' \in BOOLEAN /\ CallsTyped' /\ OverlapsKnown'
<1>1. PICK kind \in {"load", "mount", "switch", "logout", "refresh"}, ok \in BOOLEAN :
         /\ Pending(k, kind) /\ Answer(k, ok, NoAccess, Keep)
         /\ ok => kind \in {"load", "mount"}
         /\ ~ok => IF kind = "refresh" THEN lost' ELSE ~authenticate(k)
  BY DEF ServeOther, Refuse, ServerError
<1>2. /\ UNCHANGED <<server, jar, access, user, loading, loggedIn, overlapped, behind>>
      /\ lost' = lost \/ lost' = TRUE
  BY DEF ServeOther, Refuse, ServerError, state, ghosts
<1>3. Waiting(k, kind) BY <1>1, PendingWaits
<1>4. ServerTyped' BY <1>2 DEF TypeInv, ServerTyped, server
<1>5. issued <= issued' BY <1>2, BrowserAssumption, SMT DEF TypeInv, ServerTyped, server
<1>6. Given(k, ok, NoAccess, Keep) /\ CallsTyped' /\ OverlapsKnown'
  <2>1. AnswerFits(kind, call[k].target, [ok |-> ok, org |-> NoAccess, jar |-> Keep], issued')
    BY <1>1 DEF AnswerFits
  <2>2. Keep \in {Keep, NoToken} /\ NoAccess \in Orgs \cup {NoAccess} OBVIOUS
  <2> QED BY <1>1, <1>2, <1>3, <1>4, <1>5, <2>1, <2>2, GivenKept
<1> QED BY <1>1, <1>2, <1>3, <1>4, <1>6 DEF TypeInv, GhostsTyped

-----------------------------------------------------------------------------
(* The end of a call. *)
LEMMA EndingTyped ==
    ASSUME TypeInv, NEW k \in Calls, End(k), issued' = issued
    PROVE  Ended(k) /\ CallsTyped' /\ OverlapsKnown' /\ overlapped' \subseteq Pairs
<1>1. Ended(k) BY Ending DEF TypeInv, CallsTyped
<1>2. CallsTyped' /\ OverlapsKnown' BY <1>1, EndedTyped DEF TypeInv
<1>3. overlapped' \subseteq Pairs BY <1>1 DEF Ended, TypeInv, GhostsTyped
<1> QED BY <1>1, <1>2, <1>3

(* Expire: the token of a tab and of the requests sent with it. *)
LEMMA Expiring ==
    ASSUME TypeInv, NEW tab \in Tabs, Expire(tab)
    PROVE  /\ Alike
           /\ access[tab] \in Access /\ ~access[tab].expired
           /\ access' \in [Tabs -> Access \cup {NoAccess}]
           /\ \A u \in Tabs : /\ access'[u] = NoAccess <=> access[u] = NoAccess
                              /\ access[u] # NoAccess => access'[u].org = access[u].org
           /\ \A k \in Calls : Active(k) =>
                 /\ call'[k].orphan = call[k].orphan
                 /\ call'[k].bearer = call[k].bearer \/ (call[k].step = "retry" => lost')
           /\ (lost => lost') /\ lost' \in BOOLEAN
           /\ UNCHANGED <<server, jar, user, loading, loggedIn, behind>>
           /\ CallsTyped' /\ OverlapsKnown'
<1> DEFINE with == {k \in Calls : Active(k) /\ call[k].tab = tab /\ call[k].bearer = access[tab]}
           old == [access[tab] EXCEPT !.expired = TRUE]
<1>1. /\ access[tab] # NoAccess /\ ~access[tab].expired
      /\ access' = [access EXCEPT ![tab] = old]
      /\ call' = [k \in Calls |-> IF k \in with THEN [call[k] EXCEPT !.bearer =
                                                         [call[k].bearer EXCEPT !.expired = TRUE]]
                                  ELSE call[k]]
      /\ lost' = (lost \/ \E k \in with : call[k].step = "retry")
      /\ UNCHANGED <<server, jar, user, loading, loggedIn, overlapped, behind>>
  BY DEF Expire
<1>2. access[tab] \in Access BY <1>1 DEF TypeInv, TabsTyped
<1>3. old \in Access /\ old.org = access[tab].org /\ old # NoAccess
  <2>1. old \in Access /\ old.org = access[tab].org BY <1>2, ExpiredSet
  <2> HIDE DEF old
  <2> QED BY <2>1, BrowserAssumption DEF Access
<1> HIDE DEF old
<1>4. /\ access' \in [Tabs -> Access \cup {NoAccess}]
      /\ \A u \in Tabs : /\ access'[u] = NoAccess <=> access[u] = NoAccess
                         /\ access[u] # NoAccess => access'[u].org = access[u].org
  BY <1>1, <1>2, <1>3 DEF TypeInv, TabsTyped
<1>5. ASSUME NEW k \in with
      PROVE  /\ call'[k] \in Running /\ call'[k] # NoCall
             /\ call'[k].tab = call[k].tab /\ call'[k].op = call[k].op
             /\ call'[k].step = call[k].step /\ call'[k].org = call[k].org
             /\ call'[k].target = call[k].target /\ call'[k].cookie = call[k].cookie
             /\ call'[k].answer = call[k].answer /\ call'[k].orphan = call[k].orphan
             /\ Kind(call'[k]) = Kind(call[k])
  <2>1. call[k] \in Running /\ call[k].bearer = access[tab] BY DEF TypeInv, CallsTyped, Active
  <2>2. call'[k] = [call[k] EXCEPT !.bearer = old] BY <1>1, <2>1 DEF old
  <2>3. /\ call'[k] \in Running
        /\ call'[k].tab = call[k].tab /\ call'[k].op = call[k].op
        /\ call'[k].step = call[k].step /\ call'[k].org = call[k].org
        /\ call'[k].target = call[k].target /\ call'[k].cookie = call[k].cookie
        /\ call'[k].answer = call[k].answer /\ call'[k].orphan = call[k].orphan
    BY <1>3, <2>1, <2>2, BearerSet
  <2> QED BY <2>3, NothingAssumption, SMT DEF Kind
<1>6. ASSUME NEW k \in Calls, k \notin with PROVE call'[k] = call[k]
  BY <1>1, <1>6
<1>7. Alike
  <2>1. call' \in [Calls -> Running \cup {NoCall}]
    <3>1. \A k \in Calls : call'[k] \in Running \cup {NoCall}
      BY <1>5, <1>6 DEF TypeInv, CallsTyped
    <3> QED BY <1>1, <3>1
  <2>2. \A k \in Calls : Active(k) <=> call'[k] # NoCall
    BY <1>5, <1>6 DEF Active
  <2> QED BY <1>1, <1>5, <1>6, <2>1, <2>2 DEF Alike
<1>8. ASSUME NEW k \in Calls, Active(k)
      PROVE  /\ call'[k].orphan = call[k].orphan
             /\ call'[k].bearer = call[k].bearer \/ (call[k].step = "retry" => lost')
  BY <1>1, <1>5, <1>6
<1>9. issued' = issued BY <1>1 DEF server
<1>10. CallsTyped' /\ OverlapsKnown' BY <1>7, <1>9, AlikeTyped DEF TypeInv
<1>11. (lost => lost') /\ lost' \in BOOLEAN BY <1>1 DEF TypeInv, GhostsTyped
<1> QED BY <1>1, <1>2, <1>4, <1>7, <1>8, <1>10, <1>11

(* Reload: the calls of the tab are orphans. *)
LEMMA Reloading ==
    ASSUME TypeInv, NEW tab \in Tabs, Reload(tab)
    PROVE  /\ Alike
           /\ ClearSession(tab) /\ loading' = [loading EXCEPT ![tab] = "unmounted"]
           /\ behind' = behind \ {tab}
           /\ \A k \in Calls : Active(k) =>
                 /\ call'[k].bearer = call[k].bearer
                 /\ call'[k].orphan = (call[k].orphan \/ call[k].tab = tab)
           /\ UNCHANGED <<server, jar, loggedIn, lost>>
           /\ CallsTyped' /\ OverlapsKnown'
<1>1. /\ ClearSession(tab) /\ loading' = [loading EXCEPT ![tab] = "unmounted"]
      /\ call' = [k \in Calls |-> IF k \in Of(tab) THEN [call[k] EXCEPT !.orphan = TRUE] ELSE call[k]]
      /\ behind' = behind \ {tab}
      /\ UNCHANGED <<server, jar, loggedIn, overlapped, lost>>
  BY DEF Reload
<1>2. ASSUME NEW k \in Of(tab)
      PROVE  /\ call'[k] \in Running /\ call'[k] # NoCall
             /\ call'[k].tab = call[k].tab /\ call'[k].op = call[k].op
             /\ call'[k].step = call[k].step /\ call'[k].org = call[k].org
             /\ call'[k].target = call[k].target /\ call'[k].cookie = call[k].cookie
             /\ call'[k].answer = call[k].answer /\ call'[k].bearer = call[k].bearer
             /\ call'[k].orphan = TRUE
             /\ Kind(call'[k]) = Kind(call[k])
  <2>1. call[k] \in Running /\ k \in Calls BY DEF TypeInv, CallsTyped, Active, Of
  <2>2. call'[k] = [call[k] EXCEPT !.orphan = TRUE] BY <1>1, <2>1
  <2>3. /\ call'[k] \in Running
        /\ call'[k].tab = call[k].tab /\ call'[k].op = call[k].op
        /\ call'[k].step = call[k].step /\ call'[k].org = call[k].org
        /\ call'[k].target = call[k].target /\ call'[k].cookie = call[k].cookie
        /\ call'[k].answer = call[k].answer /\ call'[k].bearer = call[k].bearer
        /\ call'[k].orphan = TRUE
    <3> DEFINE d == [call[k] EXCEPT !.orphan = TRUE]
    <3>1. TRUE \in BOOLEAN OBVIOUS
    <3>2. /\ d \in Running /\ d.orphan = TRUE
          /\ d.tab = call[k].tab /\ d.op = call[k].op /\ d.org = call[k].org
          /\ d.target = call[k].target /\ d.step = call[k].step /\ d.bearer = call[k].bearer
          /\ d.cookie = call[k].cookie /\ d.answer = call[k].answer
      BY <2>1, <3>1, OrphanSet
    <3>3. call'[k] = d BY <2>2
    <3> HIDE DEF d
    <3> QED BY <3>2, <3>3
  <2> QED BY <2>3, NothingAssumption, SMT DEF Kind
<1>3. ASSUME NEW k \in Calls, k \notin Of(tab) PROVE call'[k] = call[k]
  BY <1>1, <1>3
<1>4. Alike
  <2>1. call' \in [Calls -> Running \cup {NoCall}]
    <3>1. \A k \in Calls : call'[k] \in Running \cup {NoCall}
      BY <1>2, <1>3 DEF TypeInv, CallsTyped
    <3> QED BY <1>1, <3>1
  <2>2. \A k \in Calls : Active(k) <=> call'[k] # NoCall
    BY <1>2, <1>3 DEF Active, Of
  <2> QED BY <1>1, <1>2, <1>3, <2>1, <2>2 DEF Alike
<1>5. ASSUME NEW k \in Calls, Active(k)
      PROVE  /\ call'[k].bearer = call[k].bearer
             /\ call'[k].orphan = (call[k].orphan \/ call[k].tab = tab)
  <2>1. call[k].orphan \in BOOLEAN BY <1>5, SMT DEF TypeInv, CallsTyped, Active, Running
  <2>2. CASE k \in Of(tab) BY <1>2, <2>2 DEF Of
  <2>3. CASE k \notin Of(tab) BY <1>3, <1>5, <2>1, <2>3 DEF Of
  <2> QED BY <2>2, <2>3
<1>6. issued' = issued BY <1>1 DEF server
<1>7. CallsTyped' /\ OverlapsKnown' BY <1>4, <1>6, AlikeTyped DEF TypeInv
<1> QED BY <1>1, <1>4, <1>5, <1>7

-----------------------------------------------------------------------------
(* The types hold initially. *)
LEMMA TypeInit == Init => TypeInv
<1> SUFFICES ASSUME Init PROVE TypeInv OBVIOUS
<1>1. ServerTyped
  BY BrowserAssumption, SMT DEF Init, ServerTyped, Tokens
<1>2. jar \in 0..issued BY DEF Init, NoToken
<1>3. TabsTyped BY DEF Init, TabsTyped
<1>4. CallsTyped BY DEF Init, CallsTyped, Active
<1>5. GhostsTyped BY DEF Init, GhostsTyped
<1>6. OverlapsKnown BY DEF Init, OverlapsKnown, Active
<1> QED BY <1>1, <1>2, <1>3, <1>4, <1>5, <1>6 DEF TypeInv

(* The types after a tab begins something. *)
LEMMA TypeBegin ==
    ASSUME TypeInv, NEW k \in Calls, Begin(k)
    PROVE  TypeInv'
<1>1. ServerTyped /\ jar \in 0..issued /\ TabsTyped /\ GhostsTyped BY DEF TypeInv
<1>2. PICK tab \in Tabs : Mount(k, tab) \/ login(k, tab) \/ apiFetch(k, tab) \/ logout(k, tab)
                          \/ \E org \in Orgs : switchOrg(k, tab, org)
  BY DEF Begin
<1>3. /\ UNCHANGED <<server, jar, access, user, behind, lost>>
      /\ CallsTyped' /\ OverlapsKnown' /\ overlapped' \subseteq Pairs
  <2>1. CASE Mount(k, tab) BY <2>1, Starting DEF Mount, Ops
  <2>2. CASE login(k, tab) BY <2>2, Starting DEF login, Ops
  <2>3. CASE apiFetch(k, tab) BY <2>3, Starting DEF apiFetch, Ops, Dashboard
  <2>4. CASE logout(k, tab) BY <2>4, Starting DEF logout, Ops
  <2>5. CASE \E org \in Orgs : switchOrg(k, tab, org)
    <3>1. PICK org \in Orgs : switchOrg(k, tab, org) BY <2>5
    <3> QED BY <3>1, Starting DEF switchOrg, Ops
  <2> QED BY <1>2, <2>1, <2>2, <2>3, <2>4, <2>5
<1>4. loading' \in [Tabs -> {"unmounted", "loading", "loaded"}] /\ loggedIn' \in BOOLEAN
  BY <1>1, <1>2 DEF Mount, login, apiFetch, logout, switchOrg, TabsTyped, GhostsTyped
<1> QED BY <1>1, <1>3, <1>4 DEF TypeInv, ServerTyped, TabsTyped, GhostsTyped, server

(* The types after a handler. *)
LEMMA TypeServe ==
    ASSUME TypeInv, NEW k \in Calls, Serve(k)
    PROVE  TypeInv'
<1>1. ServerTyped /\ jar \in 0..issued /\ issued \in Nat /\ TabsTyped /\ GhostsTyped
  BY BrowserAssumption DEF TypeInv, ServerTyped
<1> SUFFICES /\ ServerTyped' /\ CallsTyped' /\ OverlapsKnown'
             /\ issued' \in {issued, issued + 1} /\ behind' \subseteq Tabs /\ lost' \in BOOLEAN
             /\ UNCHANGED <<jar, access, user, loading, loggedIn, overlapped>>
  <2>1. jar' \in 0..issued' BY <1>1, SMT
  <2> QED BY <1>1, <2>1 DEF TypeInv, TabsTyped, GhostsTyped
<1>2. CASE ServeLogin(k)
  BY <1>1, <1>2, ServingLogin DEF Renewed, TabsTyped, GhostsTyped
<1>3. CASE ServeRefresh(k)
  BY <1>1, <1>3, ServingRefresh DEF Renewed, TabsTyped, GhostsTyped
<1>4. CASE ServeSwitch(k)
  BY <1>1, <1>4, ServingSwitch DEF TabsTyped, GhostsTyped
<1>5. CASE ServeLogout(k)
  BY <1>1, <1>5, ServingLogout DEF TabsTyped, GhostsTyped
<1>6. CASE ServeOther(k) \/ Refuse(k) \/ ServerError(k)
  BY <1>1, <1>6, ServingRest DEF TabsTyped, server
<1> QED BY <1>2, <1>3, <1>4, <1>5, <1>6 DEF Serve

(* A tab that is cleared. *)
LEMMA Cleared ==
    ASSUME TabsTyped, NEW tab \in Tabs, ClearSession(tab)
    PROVE  /\ access' \in [Tabs -> Access \cup {NoAccess}] /\ user' \in [Tabs -> BOOLEAN]
           /\ access'[tab] = NoAccess /\ ~user'[tab]
           /\ \A u \in Tabs \ {tab} : access'[u] = access[u] /\ user'[u] = user[u]
BY DEF ClearSession, TabsTyped

(* A tab that has got a token. *)
LEMMA TokenSet ==
    ASSUME TypeInv, NEW k \in Calls, Active(k), call[k].answer.org \in Orgs, SetAccess(k)
    PROVE  /\ access' \in [Tabs -> Access \cup {NoAccess}] /\ call[k].tab \in Tabs
           /\ access'[call[k].tab] # NoAccess /\ access'[call[k].tab].org = call[k].answer.org
           /\ \A u \in Tabs \ {call[k].tab} : access'[u] = access[u]
           /\ behind' = behind \ {call[k].tab}
<1>1. call[k].tab \in Tabs BY SMT DEF TypeInv, CallsTyped, Active, Running
<1>2. Token(k) \in Access /\ Token(k) # NoAccess /\ Token(k).org = call[k].answer.org
  BY TokenTyped
<1>3. access' = [access EXCEPT ![call[k].tab] = Token(k)] /\ behind' = behind \ {call[k].tab}
  BY DEF SetAccess
<1> QED BY <1>1, <1>2, <1>3 DEF TypeInv, TabsTyped

(* The types after a tab goes on. *)
LEMMA TypeReceive ==
    ASSUME TypeInv, NEW k \in Calls, Receive(k)
    PROVE  TypeInv'
<1>1. ServerTyped /\ jar \in 0..issued /\ issued \in Nat /\ TabsTyped /\ GhostsTyped
  BY BrowserAssumption DEF TypeInv, ServerTyped
<1> DEFINE Kept == /\ UNCHANGED <<key, context, issued>> /\ jar' \in 0..issued
                   /\ access' \in [Tabs -> Access \cup {NoAccess}] /\ user' \in [Tabs -> BOOLEAN]
                   /\ loading' \in [Tabs -> {"unmounted", "loading", "loaded"}]
                   /\ behind' \subseteq Tabs /\ loggedIn' \in BOOLEAN /\ lost' \in BOOLEAN
                   /\ CallsTyped' /\ OverlapsKnown' /\ overlapped' \subseteq Pairs
<1> SUFFICES Kept
  BY <1>1 DEF TypeInv, ServerTyped, TabsTyped, GhostsTyped
<1>2. Active(k) /\ call[k].tab \in Tabs
  <2>1. Active(k)
    BY DEF Receive, Refreshed, NotSignedIn, SessionExpired, Unauthorized, Mounted, Loaded,
           Switched, SignedIn, LoggedOut, Unreachable, Answered
  <2> QED BY <2>1, SMT DEF TypeInv, CallsTyped, Active, Running
<1>3. CASE Refreshed(k)
  <2>1. Answered(k, "refresh", TRUE) BY <1>3 DEF Refreshed
  <2>2. jar' \in 0..issued BY <2>1, Arriving
  <2> QED BY <1>1, <1>2, <1>3, <2>2, Refreshing DEF TabsTyped, GhostsTyped
<1>4. CASE SessionExpired(k)
  <2>1. access' \in [Tabs -> Access \cup {NoAccess}] /\ user' \in [Tabs -> BOOLEAN]
    BY <1>1, <1>2, <1>4, Expelling, Cleared DEF TabsTyped
  <2>2. jar' \in 0..issued
    <3>1. jar' \in {jar, NoToken} BY <1>4, Expelling
    <3> QED BY <1>1, <3>1 DEF NoToken
  <2> QED BY <1>1, <1>4, <2>1, <2>2, Expelling DEF TabsTyped, GhostsTyped
<1>5. CASE Unauthorized(k)
  BY <1>1, <1>5, Retrying DEF TabsTyped, GhostsTyped
<1>6. CASE NotSignedIn(k)
  <2>1. Answered(k, "refresh", FALSE) /\ End(k) BY <1>6 DEF NotSignedIn
  <2>2. jar' \in 0..issued /\ UNCHANGED <<key, context, issued, lost>> BY <2>1, Arriving
  <2>3. CallsTyped' /\ OverlapsKnown' /\ overlapped' \subseteq Pairs BY <2>1, <2>2, EndingTyped
  <2> QED BY <1>1, <1>2, <1>6, <2>2, <2>3 DEF NotSignedIn, TabsTyped, GhostsTyped
<1>7. CASE Mounted(k)
  <2>1. Answered(k, "mount", TRUE) /\ End(k) BY <1>7 DEF Mounted
  <2>2. jar' \in 0..issued /\ UNCHANGED <<key, context, issued, lost>> BY <2>1, Arriving
  <2>3. CallsTyped' /\ OverlapsKnown' /\ overlapped' \subseteq Pairs BY <2>1, <2>2, EndingTyped
  <2> QED BY <1>1, <1>2, <1>7, <2>2, <2>3 DEF Mounted, TabsTyped, GhostsTyped
<1>8. CASE Loaded(k)
  <2>1. Answered(k, "load", TRUE) /\ End(k) BY <1>8 DEF Loaded
  <2>2. jar' \in 0..issued /\ UNCHANGED <<key, context, issued, lost>> BY <2>1, Arriving
  <2>3. CallsTyped' /\ OverlapsKnown' /\ overlapped' \subseteq Pairs BY <2>1, <2>2, EndingTyped
  <2> QED BY <1>1, <1>2, <1>8, <2>2, <2>3 DEF Loaded, state, TabsTyped, GhostsTyped
<1>9. CASE Switched(k)
  <2>1. Answered(k, "switch", TRUE) /\ End(k) /\ SetAccess(k) BY <1>9 DEF Switched
  <2>2. /\ jar' \in 0..issued /\ UNCHANGED <<key, context, issued, lost>>
        /\ call[k].answer.org \in Orgs
    BY <2>1, Arriving
  <2>3. CallsTyped' /\ OverlapsKnown' /\ overlapped' \subseteq Pairs BY <2>1, <2>2, EndingTyped
  <2>4. access' \in [Tabs -> Access \cup {NoAccess}] /\ behind' = behind \ {call[k].tab}
    BY <1>2, <2>1, <2>2, TokenSet
  <2> QED BY <1>1, <1>9, <2>2, <2>3, <2>4 DEF Switched, TabsTyped, GhostsTyped
<1>10. CASE SignedIn(k)
  <2>1. Answered(k, "login", TRUE) /\ End(k) /\ SetAccess(k) BY <1>10 DEF SignedIn
  <2>2. /\ jar' \in 0..issued /\ UNCHANGED <<key, context, issued, lost>>
        /\ call[k].answer.org \in Orgs
    BY <2>1, Arriving
  <2>3. CallsTyped' /\ OverlapsKnown' /\ overlapped' \subseteq Pairs BY <2>1, <2>2, EndingTyped
  <2>4. access' \in [Tabs -> Access \cup {NoAccess}] /\ behind' = behind \ {call[k].tab}
    BY <1>2, <2>1, <2>2, TokenSet
  <2> QED BY <1>1, <1>2, <1>10, <2>2, <2>3, <2>4 DEF SignedIn, TabsTyped, GhostsTyped
<1>11. CASE LoggedOut(k)
  <2>1. PICK ok \in BOOLEAN : Answered(k, "logout", ok) BY <1>11 DEF LoggedOut
  <2>2. jar' \in 0..issued /\ UNCHANGED <<key, context, issued, lost>> BY <2>1, Arriving
  <2>3. End(k) /\ ClearSession(call[k].tab) /\ UNCHANGED <<loading, loggedIn, behind>>
    BY <1>11 DEF LoggedOut
  <2>4. CallsTyped' /\ OverlapsKnown' /\ overlapped' \subseteq Pairs BY <2>2, <2>3, EndingTyped
  <2>5. access' \in [Tabs -> Access \cup {NoAccess}] /\ user' \in [Tabs -> BOOLEAN]
    BY <1>1, <1>2, <2>3, Cleared
  <2> QED BY <1>1, <2>2, <2>3, <2>4, <2>5 DEF TabsTyped, GhostsTyped
<1>12. CASE Unreachable(k)
  <2>1. /\ End(k) /\ UNCHANGED <<key, context, issued, jar, loading, loggedIn, behind>>
        /\ ClearSession(call[k].tab) \/ UNCHANGED <<access, user>>
        /\ lost' \in BOOLEAN
    BY <1>1, <1>12 DEF Unreachable, server, GhostsTyped
  <2>2. CallsTyped' /\ OverlapsKnown' /\ overlapped' \subseteq Pairs BY <2>1, EndingTyped
  <2>3. access' \in [Tabs -> Access \cup {NoAccess}] /\ user' \in [Tabs -> BOOLEAN]
    BY <1>1, <1>2, <2>1, Cleared DEF TabsTyped
  <2> QED BY <1>1, <2>1, <2>2, <2>3 DEF TabsTyped, GhostsTyped
<1> QED BY <1>3, <1>4, <1>5, <1>6, <1>7, <1>8, <1>9, <1>10, <1>11, <1>12 DEF Receive

(* The types after any step. *)
LEMMA TypeNext == TypeInv /\ [Next]_vars => TypeInv'
<1> SUFFICES ASSUME TypeInv, [Next]_vars PROVE TypeInv' OBVIOUS
<1>1. ServerTyped /\ jar \in 0..issued /\ TabsTyped /\ GhostsTyped BY DEF TypeInv
<1>2. ASSUME NEW k \in Calls, Begin(k) PROVE TypeInv' BY <1>2, TypeBegin
<1>3. ASSUME NEW k \in Calls, Serve(k) PROVE TypeInv' BY <1>3, TypeServe
<1>4. ASSUME NEW k \in Calls, Receive(k) PROVE TypeInv' BY <1>4, TypeReceive
<1>5. ASSUME NEW k \in Calls, Forget(k) PROVE TypeInv'
  <2>1. /\ End(k) /\ UNCHANGED <<server, jar, state, loggedIn, behind>> /\ lost' \in BOOLEAN
    BY <1>1, <1>5 DEF Forget, GhostsTyped
  <2>2. issued' = issued BY <2>1 DEF server
  <2>3. CallsTyped' /\ OverlapsKnown' /\ overlapped' \subseteq Pairs
    BY <2>1, <2>2, EndingTyped
  <2> QED BY <1>1, <2>1, <2>3 DEF TypeInv, ServerTyped, TabsTyped, GhostsTyped, server, state
<1>6. ASSUME NEW tab \in Tabs, Expire(tab) PROVE TypeInv'
  <2>1. overlapped' = overlapped BY <1>6, Expiring DEF Alike
  <2>2. /\ access' \in [Tabs -> Access \cup {NoAccess}] /\ lost' \in BOOLEAN
        /\ UNCHANGED <<server, jar, user, loading, loggedIn, behind>>
        /\ CallsTyped' /\ OverlapsKnown'
    BY <1>6, Expiring
  <2> QED BY <1>1, <2>1, <2>2 DEF TypeInv, ServerTyped, TabsTyped, GhostsTyped, server
<1>7. ASSUME NEW tab \in Tabs, Reload(tab) PROVE TypeInv'
  <2>1. overlapped' = overlapped BY <1>7, Reloading DEF Alike
  <2>2. access' \in [Tabs -> Access \cup {NoAccess}] /\ user' \in [Tabs -> BOOLEAN]
    BY <1>1, <1>7, Reloading, Cleared
  <2> QED BY <1>1, <1>7, <2>1, <2>2, Reloading
          DEF TypeInv, ServerTyped, TabsTyped, GhostsTyped, server
<1>8. CASE UNCHANGED vars
  BY <1>1, <1>8 DEF TypeInv, ServerTyped, TabsTyped, GhostsTyped, CallsTyped, OverlapsKnown,
     Active, vars, server, state, ghosts
<1> QED BY <1>2, <1>3, <1>4, <1>5, <1>6, <1>7, <1>8 DEF Next

(* Every variable has its type: the type invariant of the browser, for any *)
(* number of tabs and calls.                                               *)
THEOREM TypeCorrect == Spec => []TypeOK
<1>1. TypeInv => TypeOK
  <2> SUFFICES ASSUME TypeInv PROVE TypeOK OBVIOUS
  <2>1. \A k \in Calls : call[k] = NoCall \/ call[k] \in Running
    BY DEF TypeInv, CallsTyped
  <2>2. overlapped \subseteq {{a, b} : a, b \in Ops \cup {"refresh"}}
    BY DEF TypeInv, GhostsTyped, Pairs, Kinds
  <2> QED BY <2>1, <2>2 DEF TypeInv, TypeOK, ServerTyped, TabsTyped, GhostsTyped
<1> QED BY <1>1, TypeInit, TypeNext, PTL DEF Spec

-----------------------------------------------------------------------------
(* What the beginning of a call leaves. *)
Begun(k, tab, op, step, target) ==
    /\ Sent(k, tab, op, step,
            IF op = "load" /\ tab \notin behind THEN access[tab].org ELSE NoAccess,
            target, access[tab], FALSE)
    /\ ~Active(k)
    /\ UNCHANGED <<key, context, issued, jar, access, user, behind, lost>>
    /\ op # "expelled"
    /\ step = "entry" <=> op = "mount"
    /\ IF op = "mount"
       THEN loading[tab] = "unmounted" /\ loading' = [loading EXCEPT ![tab] = "loading"]
       ELSE loading[tab] = "loaded" /\ loading' = loading
    /\ op = "login" <=> op # "mount" /\ access[tab] = NoAccess
    /\ loggedIn' = (loggedIn /\ op # "logout")

(* Mount, login, apiFetch, logout and switchOrg leave that. *)
LEMMA Beginning ==
    ASSUME TypeInv, NEW k \in Calls, Begin(k)
    PROVE  \E tab \in Tabs, op \in Ops, step \in {"entry", "first"},
              target \in Orgs \cup {NoAccess} : Begun(k, tab, op, step, target)
<1>1. loggedIn \in BOOLEAN BY DEF TypeInv, GhostsTyped
<1>2. ASSUME NEW tab \in Tabs, Mount(k, tab) PROVE Begun(k, tab, "mount", "entry", NoAccess)
  <2>1. Start(k, tab, "mount", "entry", NoAccess) BY <1>2 DEF Mount
  <2> QED BY <1>1, <1>2, <2>1, Starting DEF Begun, Mount, Ops, server
<1>3. ASSUME NEW tab \in Tabs, login(k, tab) PROVE Begun(k, tab, "login", "first", NoAccess)
  <2>1. Start(k, tab, "login", "first", NoAccess) BY <1>3 DEF login
  <2> QED BY <1>1, <1>3, <2>1, Starting DEF Begun, login, LoginPage, Ops, server
<1>4. ASSUME NEW tab \in Tabs, apiFetch(k, tab) PROVE Begun(k, tab, "load", "first", NoAccess)
  <2>1. Start(k, tab, "load", "first", NoAccess) BY <1>4 DEF apiFetch
  <2> QED BY <1>1, <1>4, <2>1, Starting DEF Begun, apiFetch, Dashboard, Ops, server
<1>5. ASSUME NEW tab \in Tabs, logout(k, tab) PROVE Begun(k, tab, "logout", "first", NoAccess)
  <2>1. Start(k, tab, "logout", "first", NoAccess) BY <1>5 DEF logout
  <2> QED BY <1>1, <1>5, <2>1, Starting DEF Begun, logout, Dashboard, Ops, server
<1>6. ASSUME NEW tab \in Tabs, NEW org \in Orgs, switchOrg(k, tab, org)
      PROVE  Begun(k, tab, "switch", "first", org)
  <2>1. Start(k, tab, "switch", "first", org) BY <1>6 DEF switchOrg
  <2> QED BY <1>1, <1>6, <2>1, Starting DEF Begun, switchOrg, Dashboard, Ops, server
<1>7. /\ {"mount", "login", "load", "logout", "switch"} \subseteq Ops
      /\ "entry" \in {"entry", "first"} /\ "first" \in {"entry", "first"}
  BY DEF Ops
<1>8. PICK tab \in Tabs : Mount(k, tab) \/ login(k, tab) \/ apiFetch(k, tab) \/ logout(k, tab)
                        \/ \E org \in Orgs : switchOrg(k, tab, org)
  BY DEF Begin
<1>9. CASE Mount(k, tab) BY <1>2, <1>7, <1>9
<1>10. CASE login(k, tab) BY <1>3, <1>7, <1>10
<1>11. CASE apiFetch(k, tab) BY <1>4, <1>7, <1>11
<1>12. CASE logout(k, tab) BY <1>5, <1>7, <1>12
<1>13. CASE \E org \in Orgs : switchOrg(k, tab, org) BY <1>6, <1>7, <1>13
<1> QED BY <1>8, <1>9, <1>10, <1>11, <1>12, <1>13

(* A call that ends. *)
LEMMA Leaving ==
    ASSUME NEW k \in Calls,
           NotSignedIn(k) \/ Mounted(k) \/ Loaded(k) \/ Switched(k) \/ SignedIn(k)
           \/ LoggedOut(k) \/ Unreachable(k)
    PROVE  End(k) /\ (lost => lost')
<1>1. CASE NotSignedIn(k) BY <1>1 DEF NotSignedIn, Answered
<1>2. CASE Mounted(k) BY <1>2 DEF Mounted, Answered
<1>3. CASE Loaded(k) BY <1>3 DEF Loaded, Answered
<1>4. CASE Switched(k) BY <1>4 DEF Switched, Answered
<1>5. CASE SignedIn(k) BY <1>5 DEF SignedIn, Answered
<1>6. CASE LoggedOut(k) BY <1>6 DEF LoggedOut, Answered
<1>7. CASE Unreachable(k) BY <1>7 DEF Unreachable
<1> QED BY <1>1, <1>2, <1>3, <1>4, <1>5, <1>6, <1>7

-----------------------------------------------------------------------------
(* A request is repeated with a token just obtained, and is not refused. *)
LEMMA RetryStep ==
    ASSUME TypeInv, RetryFresh, [Next]_vars
    PROVE  RetryFresh'
<1> USE DEF RetryFresh
<1>1. ASSUME NEW k \in Calls, Begin(k) PROVE RetryFresh'
  <2>1. /\ call'[k].step \in {"entry", "first"} /\ lost' = lost
        /\ \A j \in Calls \ {k} : call'[j] = call[j]
    <3>1. PICK tab \in Tabs, op \in Ops, step \in {"entry", "first"},
               target \in Orgs \cup {NoAccess} : Begun(k, tab, op, step, target)
      BY <1>1, Beginning
    <3> QED BY <3>1 DEF Begun, Sent
  <2> QED BY <2>1 DEF Active
<1>2. ASSUME NEW k \in Calls, NEW ok \in BOOLEAN, NEW org, NEW cookie, Given(k, ok, org, cookie),
             lost => lost', call[k].step = "retry" => ok, Active(k)
      PROVE  RetryFresh'
  <2>1. /\ call'[k].step = call[k].step /\ call'[k].bearer = call[k].bearer
        /\ call'[k].answer.ok = ok
        /\ \A j \in Calls \ {k} : call'[j] = call[j]
    BY <1>2 DEF Given
  <2>2. call[k].step = "retry" /\ Fresh(call[k]) => Fresh(call'[k]) BY <1>2, <2>1 DEF Fresh
  <2> QED BY <1>2, <2>1, <2>2 DEF Active
<1>3. ASSUME NEW k \in Calls, Serve(k) PROVE RetryFresh'
  <2>1. CASE ServeLogin(k)
    <3>1. PICK org \in Orgs : Given(k, TRUE, org, issued') BY <2>1, ServingLogin
    <3>2. Active(k) /\ lost' = lost BY <2>1, ServingLogin DEF Waiting
    <3> QED BY <1>2, <3>1, <3>2
  <2>2. CASE ServeRefresh(k)
    <3>1. Waiting(k, "refresh") BY <2>2, ServingRefresh
    <3>4. call[k].step # "retry" /\ Active(k) BY <3>1, SMT DEF Waiting, Kind, Running, Ops
    <3>2. lost' = lost BY <2>2, ServingRefresh
    <3>3. \/ Given(k, TRUE, context[call[k].cookie], issued')
          \/ Given(k, FALSE, NoAccess, NoToken)
      BY <2>2, ServingRefresh
    <3> QED BY <1>2, <3>2, <3>3, <3>4
  <2>3. CASE ServeSwitch(k)
    <3>1. Given(k, TRUE, call[k].target, Keep) /\ Active(k) /\ lost' = lost
      BY <2>3, ServingSwitch DEF Waiting
    <3> QED BY <1>2, <3>1
  <2>4. CASE ServeLogout(k)
    <3>1. Given(k, TRUE, NoAccess, NoToken) /\ Active(k) /\ lost' = lost
      BY <2>4, ServingLogout DEF Waiting
    <3> QED BY <1>2, <3>1
  <2>5. CASE ServeOther(k) \/ Refuse(k) \/ ServerError(k)
    <3>1. PICK kind \in {"load", "mount", "switch", "logout", "refresh"}, ok \in BOOLEAN :
             /\ Waiting(k, kind) /\ Given(k, ok, NoAccess, Keep)
             /\ ~ok => IF kind = "refresh" THEN lost' ELSE ~authenticate(k)
      BY <2>5, ServingRest
    <3>2. lost => lost' BY <2>5, ServingRest
    <3>3. CASE lost' BY <3>3
    <3>4. CASE ~lost' /\ call[k].step = "retry"
      <4>1. Active(k) BY <3>1 DEF Waiting
      <4>2. ~call[k].bearer.expired BY <3>2, <3>4, <4>1 DEF Fresh
      <4>3. kind # "refresh" BY <3>1, <3>4, SMT DEF Waiting, Kind, Running, Ops
      <4>4. ok BY <3>1, <4>2, <4>3 DEF authenticate
      <4> QED BY <1>2, <3>1, <3>2, <4>1, <4>4
    <3>5. CASE call[k].step # "retry" BY <1>2, <3>1, <3>2, <3>5 DEF Waiting
    <3> QED BY <3>3, <3>4, <3>5
  <2> QED BY <1>3, <2>1, <2>2, <2>3, <2>4, <2>5 DEF Serve
<1>4. ASSUME NEW k \in Calls, Ended(k), lost => lost' PROVE RetryFresh'
  BY <1>4 DEF Ended, Active
<1>5. ASSUME NEW k \in Calls, Receive(k) PROVE RetryFresh'
  <2>1. CASE Refreshed(k)
    <3>1. Fresh(call'[k])
      <4>1. call'[k].bearer = Token(k) /\ call'[k].answer = NoAnswer
        BY <2>1, Refreshing DEF Sent
      <4>2. Token(k) \in Access /\ ~Token(k).expired BY <2>1, Refreshing
      <4> QED BY <4>1, <4>2 DEF Fresh
    <3>2. \A j \in Calls \ {k} : call'[j] = call[j] BY <2>1, Refreshing DEF Sent
    <3>3. lost' = lost BY <2>1, Refreshing
    <3> QED BY <3>1, <3>2, <3>3 DEF Active
  <2>2. CASE Unauthorized(k)
    <3>1. call'[k].step = "refresh" /\ \A j \in Calls \ {k} : call'[j] = call[j]
      BY <2>2, Retrying DEF Sent
    <3>2. lost' = lost BY <2>2, Retrying
    <3> QED BY <3>1, <3>2 DEF Active
  <2>3. CASE SessionExpired(k)
    <3>1. lost' = lost BY <2>3, Expelling
    <3>2. CASE Ended(k) BY <1>4, <3>1, <3>2
    <3>3. CASE ~Ended(k)
      <4>1. call'[k].step = "first" /\ \A j \in Calls \ {k} : call'[j] = call[j]
        BY <2>3, <3>3, Expelling DEF Sent
      <4> QED BY <3>1, <4>1 DEF Active
    <3> QED BY <3>2, <3>3
  <2>4. CASE End(k) /\ (lost => lost') BY <1>4, <2>4, Ending DEF TypeInv, CallsTyped
  <2> QED BY <1>5, <2>1, <2>2, <2>3, <2>4, Leaving DEF Receive
<1>6. ASSUME NEW k \in Calls, Forget(k) PROVE RetryFresh'
  BY <1>4, <1>6, Ending DEF Forget, TypeInv, CallsTyped
<1>7. ASSUME NEW tab \in Tabs, Expire(tab) PROVE RetryFresh'
  BY <1>7, Expiring DEF Alike, Active, Fresh
<1>8. ASSUME NEW tab \in Tabs, Reload(tab) PROVE RetryFresh'
  BY <1>8, Reloading DEF Alike, Active, Fresh
<1>9. CASE UNCHANGED vars BY <1>9 DEF vars, ghosts, Active
<1> QED BY <1>1, <1>3, <1>5, <1>6, <1>7, <1>8, <1>9 DEF Next

-----------------------------------------------------------------------------
(* A call as it was, but for its token and its page. *)
Same(k) ==
    /\ Active(k) /\ call[k] \in Running /\ Kind(call'[k]) = Kind(call[k])
    /\ call'[k].tab = call[k].tab /\ call'[k].op = call[k].op /\ call'[k].step = call[k].step
    /\ call'[k].org = call[k].org /\ call'[k].target = call[k].target
    /\ call'[k].cookie = call[k].cookie /\ call'[k].answer = call[k].answer

(* A call that has just sent a request. *)
Resent(k) ==
    /\ Begin(k) \/ Receive(k)
    /\ call'[k].answer = NoAnswer /\ call'[k].orphan = FALSE
    /\ Kind(call'[k]) \in {"refresh", "switch"} => call'[k].cookie = jar'

(* The steps of the browser change no session, and every call is as it     *)
(* was, or has sent a request.                                             *)
LEMMA ClientStep ==
    ASSUME TypeInv,
           \/ \E k \in Calls : Begin(k) \/ Receive(k) \/ Forget(k)
           \/ \E tab \in Tabs : Expire(tab) \/ Reload(tab)
    PROVE  /\ UNCHANGED <<key, context, issued>>
           /\ overlapped \subseteq overlapped' /\ (lost => lost')
           /\ \A k \in Calls : call'[k] # NoCall => Same(k) \/ Resent(k)
<1>1. ASSUME NEW j \in Calls, call'[j] # NoCall, call'[j] = call[j]
      PROVE  Same(j)
  BY <1>1 DEF Same, Active, TypeInv, CallsTyped
<1>2. ASSUME NEW k \in Calls, Begin(k)
      PROVE  /\ UNCHANGED <<key, context, issued, lost>> /\ overlapped \subseteq overlapped'
             /\ Resent(k)
             /\ \A j \in Calls \ {k} : call'[j] = call[j]
  <2>1. PICK tab \in Tabs, op \in Ops, step \in {"entry", "first"},
             target \in Orgs \cup {NoAccess} : Begun(k, tab, op, step, target)
    BY <1>2, Beginning
  <2> QED BY <1>2, <2>1 DEF Begun, Sent, Resent
<1>3. ASSUME NEW k \in Calls, End(k)
      PROVE  /\ overlapped \subseteq overlapped'
             /\ call'[k] = NoCall
             /\ \A j \in Calls \ {k} : call'[j] = call[j]
  BY <1>3, Ending DEF Ended, TypeInv, CallsTyped
<1>4. ASSUME NEW k \in Calls, Receive(k)
      PROVE  /\ UNCHANGED <<key, context, issued>> /\ overlapped \subseteq overlapped'
             /\ lost => lost'
             /\ call'[k] # NoCall => Resent(k)
             /\ \A j \in Calls \ {k} : call'[j] = call[j]
  <2>1. CASE Refreshed(k)
    <3>1. Answered(k, "refresh", TRUE) BY <2>1 DEF Refreshed
    <3>2. UNCHANGED <<key, context, issued, lost>> BY <3>1, Arriving
    <3> QED BY <1>4, <2>1, <3>2, Refreshing DEF Sent, Resent
  <2>2. CASE Unauthorized(k) BY <1>4, <2>2, Retrying DEF Sent, Resent
  <2>3. CASE SessionExpired(k)
    <3>1. UNCHANGED <<key, context, issued, lost>> BY <2>3, Expelling
    <3>2. CASE Ended(k) BY <3>1, <3>2 DEF Ended
    <3>3. CASE ~Ended(k) BY <1>4, <2>3, <3>1, <3>3, Expelling DEF Sent, Resent
    <3> QED BY <3>2, <3>3
  <2>4. ASSUME NotSignedIn(k) \/ Mounted(k) \/ Loaded(k) \/ Switched(k) \/ SignedIn(k)
               \/ LoggedOut(k) \/ Unreachable(k)
        PROVE  End(k) /\ (lost => lost') /\ UNCHANGED server
    <3>1. End(k) /\ (lost => lost') BY <2>4, Leaving
    <3>2. UNCHANGED server
      BY <2>4 DEF NotSignedIn, Mounted, Loaded, Switched, SignedIn, LoggedOut, Unreachable, Answered
    <3> QED BY <3>1, <3>2
  <2> QED BY <1>3, <1>4, <2>1, <2>2, <2>3, <2>4 DEF Receive, server
<1>5. ASSUME NEW k \in Calls, Forget(k)
      PROVE  /\ UNCHANGED <<key, context, issued>> /\ overlapped \subseteq overlapped'
             /\ lost => lost'
             /\ call'[k] = NoCall
             /\ \A j \in Calls \ {k} : call'[j] = call[j]
  BY <1>3, <1>5 DEF Forget, server
<1>6. ASSUME NEW tab \in Tabs, Expire(tab) \/ Reload(tab)
      PROVE  /\ UNCHANGED <<key, context, issued>> /\ overlapped \subseteq overlapped'
             /\ lost => lost'
             /\ Alike
  BY <1>6, Expiring, Reloading DEF Alike, server
<1>7. ASSUME NEW j \in Calls, call'[j] # NoCall, Alike PROVE Same(j)
  BY <1>7 DEF Alike, Same, Active, TypeInv, CallsTyped
<1>8. CASE \E k \in Calls : Begin(k) BY <1>1, <1>2, <1>8
<1>9. CASE \E k \in Calls : Receive(k) BY <1>1, <1>4, <1>9
<1>10. CASE \E k \in Calls : Forget(k) BY <1>1, <1>5, <1>10
<1>11. CASE \E tab \in Tabs : Expire(tab) \/ Reload(tab) BY <1>6, <1>7, <1>11
<1> QED BY <1>8, <1>9, <1>10, <1>11

(* The steps of the server change no tab, no cookie and no call but the    *)
(* one they answer.                                                        *)
LEMMA ServerStep ==
    ASSUME TypeInv, NEW k \in Calls, Serve(k)
    PROVE  /\ UNCHANGED <<jar, access, user, loading, loggedIn, overlapped>>
           /\ lost => lost'
           /\ Active(k) /\ call[k].answer = NoAnswer /\ call[k] \in Running
           /\ call'[k] # NoCall /\ call'[k].answer # NoAnswer
           /\ Kind(call'[k]) = Kind(call[k]) /\ call'[k].cookie = call[k].cookie
           /\ call'[k].tab = call[k].tab /\ call'[k].op = call[k].op
           /\ call'[k].step = call[k].step /\ call'[k].org = call[k].org
           /\ call'[k].target = call[k].target /\ call'[k].orphan = call[k].orphan
           /\ \A j \in Calls \ {k} : call'[j] = call[j]
<1> DEFINE P == \E ok, org, cookie : Given(k, ok, org, cookie)
           U == UNCHANGED <<jar, access, user, loading, loggedIn, overlapped>>
           W == Active(k) /\ call[k].answer = NoAnswer /\ call[k] \in Running
<1>1. P /\ U /\ W /\ (lost => lost')
  <2>1. CASE ServeLogin(k) BY <2>1, ServingLogin DEF Waiting
  <2>2. CASE ServeRefresh(k)
    <3>1. \/ Given(k, TRUE, context[call[k].cookie], issued')
          \/ Given(k, FALSE, NoAccess, NoToken)
      BY <2>2, ServingRefresh
    <3>2. Waiting(k, "refresh") /\ U /\ lost' = lost BY <2>2, ServingRefresh
    <3> QED BY <3>1, <3>2 DEF Waiting
  <2>3. CASE ServeSwitch(k)
    <3>1. Given(k, TRUE, call[k].target, Keep) BY <2>3, ServingSwitch
    <3>2. Waiting(k, "switch") /\ U /\ lost' = lost BY <2>3, ServingSwitch
    <3> QED BY <3>1, <3>2 DEF Waiting
  <2>4. CASE ServeLogout(k)
    <3>1. Given(k, TRUE, NoAccess, NoToken) BY <2>4, ServingLogout
    <3>2. Waiting(k, "logout") /\ U /\ lost' = lost BY <2>4, ServingLogout
    <3> QED BY <3>1, <3>2 DEF Waiting
  <2>5. CASE ServeOther(k) \/ Refuse(k) \/ ServerError(k) BY <2>5, ServingRest DEF Waiting
  <2> QED BY <2>1, <2>2, <2>3, <2>4, <2>5 DEF Serve
<1>2. PICK ok, org, cookie : Given(k, ok, org, cookie) BY <1>1
<1> QED BY <1>1, <1>2 DEF Given

(* What has gone wrong stays so, and so do the overlaps. *)
LEMMA GhostsGrow ==
    ASSUME TypeInv, [Next]_vars
    PROVE  overlapped \subseteq overlapped' /\ (lost => lost')
<1>1. CASE \/ \E k \in Calls : Begin(k) \/ Receive(k) \/ Forget(k)
           \/ \E tab \in Tabs : Expire(tab) \/ Reload(tab)
  BY <1>1, ClientStep
<1>2. ASSUME NEW k \in Calls, Serve(k) PROVE overlapped' = overlapped /\ (lost => lost')
  BY <1>2, ServerStep
<1>3. CASE UNCHANGED vars BY <1>3 DEF vars, ghosts
<1> QED BY <1>1, <1>2, <1>3 DEF Next

(* While nothing is broken, a refresh overlaps neither a refresh nor a     *)
(* login, and a login no logout.                                           *)
Alone ==
    \A j, k \in Calls : j # k /\ Active(j) /\ Active(k) =>
        /\ Kind(call[j]) = "refresh" => Kind(call[k]) \notin {"refresh", "login"}
        /\ Kind(call[j]) = "login" => Kind(call[k]) # "logout"

(* Every two requests under way are in overlapped. *)
LEMMA UnbrokenAlone ==
    /\ TypeInv /\ ~Broken => Alone
    /\ TypeInv' /\ ~Broken' => Alone'
<1>1. {"login", "logout"} = {"logout", "login"} OBVIOUS
<1> QED BY <1>1 DEF TypeInv, OverlapsKnown, Broken, Overlapped, Alone

(* The token a login has been answered lives until it arrives: only a      *)
(* logout, or a refresh with a token reused, ends it.                      *)
LEMMA LoginStep ==
    ASSUME TypeInv, TypeInv', LoginLive, [Next]_vars
    PROVE  LoginLive'
<1>1. CASE UNCHANGED vars
  BY <1>1 DEF vars, ghosts, server, LoginLive, Broken, Overlapped, Active
<1> SUFFICES ASSUME Next, ~Broken', NEW k \in Calls, call'[k] # NoCall,
                    Kind(call'[k]) = "login", call'[k].answer # NoAnswer
             PROVE  key'[call'[k].answer.jar] = "live"
  BY <1>1 DEF LoginLive, Active
<1>2. ~Broken BY GhostsGrow DEF Broken, Overlapped
<1>3. Alone BY <1>2, UnbrokenAlone
<1> DEFINE t == call[k].answer.jar
<1>4. ASSUME Same(k) PROVE key[t] = "live" /\ t \in Tokens /\ t <= issued /\ t # NoToken
  <2>1. Active(k) /\ Kind(call[k]) = "login" /\ call[k].answer # NoAnswer
    BY <1>4 DEF Same
  <2>2. key[t] = "live" BY <1>2, <2>1 DEF LoginLive
  <2>3. t \in 1..issued BY <2>1 DEF TypeInv, CallsTyped, Fits, AnswerFits
  <2> QED BY <2>2, <2>3, BrowserAssumption, SMT DEF TypeInv, ServerTyped, Tokens, NoToken
<1>5. CASE \/ \E j \in Calls : Begin(j) \/ Receive(j) \/ Forget(j)
           \/ \E tab \in Tabs : Expire(tab) \/ Reload(tab)
  BY <1>4, <1>5, ClientStep DEF Same, Resent
<1>6. ASSUME NEW j \in Calls, Serve(j) PROVE key'[call'[k].answer.jar] = "live"
  <2>1. CASE j = k
    <3>1. Kind(call[k]) = "login" BY <1>6, <2>1, ServerStep
    <3>2. ServeLogin(k)
      BY <1>6, <2>1, <3>1, ServingRefresh, ServingSwitch, ServingLogout, ServingRest
         DEF Serve, Waiting
    <3>3. PICK org \in Orgs : Renewed(org, NoToken) /\ Given(k, TRUE, org, issued')
      BY <3>2, ServingLogin
    <3> QED BY <3>3 DEF Renewed, Given
  <2>2. CASE j # k
    <3>1. call'[k] = call[k] BY <1>6, <2>2, ServerStep
    <3>2. Same(k) BY <3>1 DEF Same, Active, TypeInv, CallsTyped
    <3>3. Active(j) /\ Active(k) /\ Kind(call[k]) = "login" BY <1>6, <3>1, ServerStep DEF Active
    <3>4. Kind(call[j]) \notin {"refresh", "logout"} BY <1>3, <2>2, <3>3 DEF Alone
    <3>5. key[t] = "live" /\ t \in Tokens /\ t <= issued /\ t # NoToken BY <1>4, <3>2
    <3>6. CASE ServeLogin(j)
      <4>1. PICK org \in Orgs : Renewed(org, NoToken) BY <3>6, ServingLogin
      <4>2. t # issued' BY <3>5, <4>1, BrowserAssumption, SMT DEF Renewed, Tokens, TypeInv, ServerTyped
      <4> QED BY <3>1, <3>5, <4>1, <4>2 DEF Renewed
    <3>7. CASE ServeSwitch(j) BY <3>1, <3>5, <3>7, ServingSwitch
    <3>8. CASE ServeOther(j) \/ Refuse(j) \/ ServerError(j)
      BY <3>1, <3>5, <3>8, ServingRest DEF server
    <3>9. ~ServeRefresh(j) /\ ~ServeLogout(j)
      BY <3>4, ServingRefresh, ServingLogout DEF Waiting
    <3> QED BY <1>6, <3>6, <3>7, <3>8, <3>9 DEF Serve
  <2> QED BY <2>1, <2>2
<1> QED BY <1>5, <1>6 DEF Next

(* What SessionKept promises. *)
Kept == NoLogout /\ RefreshCarries /\ (LiveCookie \/ Renewal)

(* A request that is not one of those Kept speaks of changes nothing of it *)
(* when the cookie and the sessions stay.                                  *)
LEMMA KeptSame ==
    ASSUME TypeInv, Kept, jar' = jar, key' = key,
           \A k \in Calls : call'[k] # NoCall =>
              \/ Same(k)
              \/ Kind(call'[k]) \notin {"logout", "refresh"}
              \/ /\ Kind(call'[k]) = "refresh" /\ call'[k].answer = NoAnswer
                 /\ call'[k].cookie = jar /\ LiveCookie,
           \A k \in Calls : Active(k) /\ Kind(call[k]) = "refresh" /\ call[k].answer # NoAnswer
              => LiveCookie \/ (call'[k] # NoCall /\ Same(k))
    PROVE  Kept'
<1>1. LiveCookie' <=> LiveCookie BY DEF LiveCookie, Found
<1>2. NoLogout' BY DEF NoLogout, Kept, Active, Same
<1>3. ASSUME NEW k \in Calls, call'[k] # NoCall, Kind(call'[k]) = "refresh"
      PROVE  /\ call'[k].cookie = jar'
             /\ IF call'[k].answer = NoAnswer THEN LiveCookie'
                ELSE call'[k].answer.ok /\ key'[call'[k].answer.jar] = "live"
  <2>1. CASE Same(k)
    <3>1. Active(k) /\ Kind(call[k]) = "refresh" /\ call'[k].cookie = call[k].cookie
          /\ call'[k].answer = call[k].answer
      BY <1>3, <2>1 DEF Same
    <3>2. /\ call[k].cookie = jar
          /\ IF call[k].answer = NoAnswer THEN LiveCookie
             ELSE call[k].answer.ok /\ key[call[k].answer.jar] = "live"
      BY <3>1 DEF Kept, RefreshCarries
    <3> QED BY <1>1, <3>1, <3>2
  <2>2. CASE call'[k].answer = NoAnswer /\ call'[k].cookie = jar /\ LiveCookie
    BY <1>1, <2>2
  <2> QED BY <1>3, <2>1, <2>2
<1>4. RefreshCarries' BY <1>3 DEF RefreshCarries, Active
<1>5. LiveCookie' \/ Renewal'
  <2>1. CASE LiveCookie BY <1>1, <2>1
  <2>2. CASE ~LiveCookie
    <3>1. PICK k \in Calls : Active(k) /\ Kind(call[k]) = "refresh" /\ call[k].answer # NoAnswer
      BY <2>2 DEF Kept, Renewal
    <3>2. call'[k] # NoCall /\ Same(k) BY <2>2, <3>1
    <3> QED BY <3>1, <3>2 DEF Renewal, Active, Same
  <2> QED BY <2>1, <2>2
<1> QED BY <1>2, <1>4, <1>5 DEF Kept

(* When the cookie works and no refresh or logout is under way. *)
LEMMA KeptAnew ==
    ASSUME LiveCookie', \A k \in Calls : call'[k] # NoCall =>
                            Kind(call'[k]) \notin {"logout", "refresh"}
    PROVE  Kept'
BY DEF Kept, NoLogout, RefreshCarries, Active

(* The cookie works after a step. *)
LEMMA LiveNext == LiveCookie' <=> jar' # NoToken /\ key'[jar'] = "live"
BY DEF LiveCookie, Found

(* A step of the server. *)
LEMMA KeptServe ==
    ASSUME TypeInv, Kept, Alone, ~lost', NEW k \in Calls, Serve(k)
    PROVE  Kept'
<1> DEFINE Rest == \A j \in Calls \ {k} : call'[j] = call[j]
<1>1. /\ jar' = jar /\ Active(k) /\ call[k].answer = NoAnswer /\ call'[k] # NoCall
      /\ Kind(call'[k]) = Kind(call[k]) /\ call'[k].cookie = call[k].cookie /\ Rest
  BY ServerStep
<1>2. \A j \in Calls : call'[j] # NoCall => Active(j) /\ Kind(call'[j]) = Kind(call[j])
  BY <1>1 DEF Active
<1>3. ASSUME NEW j \in Calls \ {k}, call'[j] # NoCall PROVE Same(j)
  BY <1>1, <1>3 DEF Same, Active, TypeInv, CallsTyped
<1>4. NoLogout BY DEF Kept
<1>5. ASSUME key' = key, Kind(call[k]) \notin {"refresh", "logout"} PROVE Kept'
  <2>1. \A j \in Calls : call'[j] # NoCall =>
           Same(j) \/ Kind(call'[j]) \notin {"logout", "refresh"}
    BY <1>1, <1>3, <1>5
  <2>2. \A j \in Calls : Active(j) /\ Kind(call[j]) = "refresh" => call'[j] # NoCall /\ Same(j)
    BY <1>1, <1>3, <1>5 DEF Active
  <2> QED BY <1>1, <1>5, <2>1, <2>2, KeptSame
<1>6. CASE ServeLogin(k)
  <2>1. Kind(call[k]) = "login" BY <1>6, ServingLogin DEF Waiting
  <2>2. \A j \in Calls : Active(j) => Kind(call[j]) # "refresh"
    BY <1>1, <2>1 DEF Alone
  <2>3. LiveCookie BY <2>2 DEF Kept, Renewal
  <2>4. jar \in Tokens /\ jar <= issued /\ jar # NoToken /\ key[jar] = "live"
    BY <2>3, BrowserAssumption, SMT
       DEF LiveCookie, Found, TypeInv, ServerTyped, Tokens, NoToken
  <2>5. PICK org \in Orgs : Renewed(org, NoToken) BY <1>6, ServingLogin
  <2>6. jar # issued' BY <2>4, <2>5, BrowserAssumption, SMT DEF Renewed, TypeInv, ServerTyped
  <2>7. LiveCookie' BY <1>1, <2>4, <2>5, <2>6, LiveNext DEF Renewed
  <2> QED BY <1>2, <1>4, <2>2, <2>7, KeptAnew DEF NoLogout
<1>7. CASE ServeRefresh(k)
  <2>1. Kind(call[k]) = "refresh" BY <1>7, ServingRefresh DEF Waiting
  <2>2. call[k].cookie = jar /\ LiveCookie BY <1>1, <2>1 DEF Kept, RefreshCarries
  <2>3. Found(call[k].cookie) = "live" BY <2>2 DEF LiveCookie
  <2>4. /\ Renewed(context[call[k].cookie], call[k].cookie)
        /\ Given(k, TRUE, context[call[k].cookie], issued')
    BY <1>7, <2>3, ServingRefresh
  <2>5. /\ call'[k].answer # NoAnswer /\ call'[k].answer.ok /\ call'[k].answer.jar = issued'
        /\ key'[issued'] = "live"
    BY <2>4 DEF Given, Renewed
  <2>6. NoLogout' BY <1>2, <1>4 DEF NoLogout, Active
  <2>7. \A j \in Calls : Active(j) /\ Kind(call[j]) = "refresh" => j = k
    BY <1>1, <2>1 DEF Alone
  <2>8. RefreshCarries' BY <1>1, <1>2, <2>2, <2>5, <2>7 DEF RefreshCarries, Active
  <2>9. Renewal' BY <1>1, <2>1, <2>5 DEF Renewal, Active
  <2> QED BY <2>6, <2>8, <2>9 DEF Kept
<1>8. CASE ServeSwitch(k)
  <2>1. Kind(call[k]) = "switch" /\ key' = key BY <1>8, ServingSwitch DEF Waiting
  <2> QED BY <1>5, <2>1
<1>9. CASE ServeLogout(k)
  BY <1>1, <1>4, <1>9, ServingLogout DEF NoLogout, Waiting
<1>10. CASE ServeOther(k) \/ Refuse(k) \/ ServerError(k)
  <2>1. PICK kind \in {"load", "mount", "switch", "logout", "refresh"}, ok \in BOOLEAN :
           /\ Waiting(k, kind)
           /\ ok => kind \in {"load", "mount"}
           /\ ~ok => IF kind = "refresh" THEN lost' ELSE ~authenticate(k)
    BY <1>10, ServingRest
  <2>2. key' = key BY <1>10, ServingRest DEF server
  <2>3. Kind(call[k]) = kind BY <2>1 DEF Waiting
  <2>4. kind \notin {"refresh", "logout"} BY <1>1, <1>4, <2>1, <2>3 DEF NoLogout
  <2> QED BY <1>5, <2>2, <2>3, <2>4
<1> QED BY <1>6, <1>7, <1>8, <1>9, <1>10 DEF Serve

(* A tab that goes on, other than after a login. *)
LEMMA KeptReceive ==
    ASSUME TypeInv, Kept, Alone, Alone', ~lost', ~lost, RetryFresh,
           NEW k \in Calls, Receive(k), ~SignedIn(k)
    PROVE  Kept'
<1> DEFINE Rest == \A j \in Calls \ {k} : call'[j] = call[j]
<1>1. ASSUME Rest, NEW j \in Calls \ {k}, call'[j] # NoCall PROVE Same(j)
  BY <1>1 DEF Same, Active, TypeInv, CallsTyped
<1>2. NoLogout BY DEF Kept
<1>3. ASSUME Ended(k), jar' = jar, key' = key,
             Kind(call[k]) = "refresh" => call[k].answer = NoAnswer
      PROVE  Kept'
  <2>1. call'[k] = NoCall /\ Rest BY <1>3 DEF Ended
  <2>2. \A j \in Calls : Active(j) /\ Kind(call[j]) = "refresh" /\ call[j].answer # NoAnswer
           => call'[j] # NoCall /\ Same(j)
    BY <1>1, <1>3, <2>1 DEF Active
  <2>3. \A j \in Calls : call'[j] # NoCall => Same(j) BY <1>1, <2>1
  <2> QED BY <1>3, <2>2, <2>3, KeptSame
<1>4. CASE Refreshed(k)
  <2>1. Answered(k, "refresh", TRUE) BY <1>4 DEF Refreshed
  <2>2. /\ Active(k) /\ Kind(call[k]) = "refresh" /\ call[k].answer # NoAnswer
        /\ jar' = call[k].answer.jar /\ jar' \in 1..issued /\ key' = key
    BY <2>1, Arriving
  <2>3. key'[jar'] = "live" BY <2>2 DEF Kept, RefreshCarries
  <2>4. jar' # NoToken BY <2>2, BrowserAssumption DEF NoToken, TypeInv, ServerTyped
  <2>5. LiveCookie' BY <2>3, <2>4, LiveNext
  <2>6. /\ call'[k].op \in {"mount", "load", "switch"} /\ call'[k].step \in {"first", "retry"}
        /\ Rest
    BY <1>4, Refreshing DEF Sent
  <2>7. Kind(call'[k]) \notin {"logout", "refresh"} BY <2>6 DEF Kind
  <2>8. \A j \in Calls \ {k} : call'[j] # NoCall => Kind(call'[j]) \notin {"logout", "refresh"}
    BY <1>2, <2>2, <2>6 DEF Active, Alone, NoLogout
  <2> QED BY <2>5, <2>7, <2>8, KeptAnew
<1>5. CASE NotSignedIn(k)
  <2>1. Answered(k, "refresh", FALSE) BY <1>5 DEF NotSignedIn
  <2> QED BY <2>1, Arriving DEF Kept, RefreshCarries
<1>6. CASE SessionExpired(k)
  <2>1. /\ Active(k) /\ call[k].answer # NoAnswer /\ ~call[k].answer.ok
        /\ Kind(call[k]) = "refresh" \/ call[k].step = "retry"
    BY <1>6, Expelling
  <2>2. CASE Kind(call[k]) = "refresh" BY <2>1, <2>2 DEF Kept, RefreshCarries
  <2>3. CASE call[k].step = "retry" BY <2>1, <2>3 DEF RetryFresh, Fresh
  <2> QED BY <2>1, <2>2, <2>3
<1>7. CASE Unauthorized(k)
  <2>1. /\ Kind(call[k]) \in {"mount", "load", "switch"} /\ jar' = jar /\ key' = key
        /\ call'[k].step = "refresh" /\ call'[k] # NoCall /\ call'[k].answer = NoAnswer
        /\ call'[k].cookie = (IF Kind(call'[k]) \in {"refresh", "switch"} THEN jar' ELSE NoToken)
        /\ Rest
    BY <1>7, Retrying DEF Sent
  <2>2. Kind(call'[k]) = "refresh" /\ call'[k].cookie = jar BY <2>1 DEF Kind
  <2>3. ASSUME NEW j \in Calls, Active(j), Kind(call[j]) = "refresh" PROVE FALSE
    <3>1. j # k BY <2>1, <2>3
    <3>2. call'[j] # NoCall /\ Kind(call'[j]) = "refresh" BY <2>1, <2>3, <3>1 DEF Active
    <3> QED BY <2>1, <2>2, <3>1, <3>2 DEF Alone, Active
  <2>4. LiveCookie BY <2>3 DEF Kept, Renewal
  <2> QED BY <1>1, <2>1, <2>2, <2>4, KeptSame
<1>8. CASE Mounted(k) \/ Loaded(k) \/ Switched(k)
  <2>1. PICK kind \in {"mount", "load", "switch"}, ok \in BOOLEAN : Answered(k, kind, ok)
    BY <1>8 DEF Mounted, Loaded, Switched
  <2>2. Kind(call[k]) = kind /\ jar' = jar /\ key' = key BY <2>1, Arriving
  <2>3. End(k) BY <1>8 DEF Mounted, Loaded, Switched
  <2>4. Ended(k) BY <2>3, Ending DEF TypeInv, CallsTyped
  <2> QED BY <1>3, <2>2, <2>4
<1>9. CASE LoggedOut(k)
  <2>1. Active(k) /\ Kind(call[k]) = "logout" BY <1>9 DEF LoggedOut, Answered
  <2> QED BY <1>2, <2>1 DEF NoLogout
<1>10. CASE Unreachable(k)
  <2>1. /\ End(k) /\ jar' = jar /\ key' = key
        /\ Kind(call[k]) = "refresh" => call[k].answer = NoAnswer
    BY <1>10 DEF Unreachable, server
  <2> QED BY <1>3, <2>1, Ending DEF TypeInv, CallsTyped
<1> QED BY <1>4, <1>5, <1>6, <1>7, <1>8, <1>9, <1>10 DEF Receive

(* The session survives every step, unless something named happens. *)
LEMMA KeptStep ==
    ASSUME TypeInv, TypeInv', SurviveInv, [Next]_vars
    PROVE  SessionKept'
<1>1. CASE UNCHANGED vars
  BY <1>1 DEF vars, ghosts, server, SurviveInv, SessionKept, Broken, Overlapped, Active,
     NoLogout, RefreshCarries, Renewal, LiveCookie, Found
<1> SUFFICES ASSUME Next, ~Broken', loggedIn' PROVE Kept'
  BY <1>1 DEF SessionKept, Kept
<1>2. ~Broken /\ ~lost /\ ~lost' BY GhostsGrow DEF Broken, Overlapped
<1>3. Alone /\ Alone' BY <1>2, UnbrokenAlone
<1>4. loggedIn => Kept BY <1>2 DEF SurviveInv, SessionKept, Kept
<1>5. ASSUME NEW j \in Calls, call'[j] # NoCall, call'[j] = call[j] PROVE Same(j)
  BY <1>5 DEF Same, Active, TypeInv, CallsTyped
<1>6. ASSUME NEW k \in Calls, Begin(k) PROVE Kept'
  <2>1. PICK tab \in Tabs, op \in Ops, step \in {"entry", "first"},
             target \in Orgs \cup {NoAccess} : Begun(k, tab, op, step, target)
    BY <1>6, Beginning
  <2>2. /\ loggedIn /\ op \notin {"logout", "expelled"} /\ jar' = jar /\ key' = key /\ ~Active(k)
        /\ call'[k].op = op /\ call'[k].step = step /\ call'[k] # NoCall
        /\ call'[k].answer = NoAnswer
        /\ call'[k].cookie = (IF Kind(call'[k]) \in {"refresh", "switch"} THEN jar' ELSE NoToken)
        /\ \A j \in Calls \ {k} : call'[j] = call[j]
    BY <2>1 DEF Begun, Sent
  <2>3. Kept BY <1>4, <2>2
  <2>4. Kind(call'[k]) # "logout" BY <2>2 DEF Kind
  <2>5. ASSUME Kind(call'[k]) = "refresh", NEW j \in Calls, Active(j), Kind(call[j]) = "refresh"
        PROVE  FALSE
    <3>1. j # k /\ call'[j] # NoCall /\ Kind(call'[j]) = "refresh" BY <2>2, <2>5 DEF Active
    <3> QED BY <1>3, <2>2, <2>5, <3>1 DEF Alone, Active
  <2>6. Kind(call'[k]) = "refresh" => LiveCookie BY <2>3, <2>5 DEF Kept, Renewal
  <2>7. \A j \in Calls : Active(j) => call'[j] # NoCall /\ Same(j)
    BY <1>5, <2>2 DEF Active
  <2>8. \A j \in Calls \ {k} : call'[j] # NoCall => Same(j) BY <1>5, <2>2
  <2> QED BY <2>2, <2>3, <2>4, <2>6, <2>7, <2>8, KeptSame
<1>7. ASSUME NEW k \in Calls, Serve(k) PROVE Kept'
  <2>1. Kept BY <1>4, <1>7, ServerStep
  <2> QED BY <1>2, <1>3, <1>7, <2>1, KeptServe
<1>8. ASSUME NEW k \in Calls, SignedIn(k) PROVE Kept'
  <2>1. Answered(k, "login", TRUE) /\ End(k) BY <1>8 DEF SignedIn
  <2>2. /\ Active(k) /\ Kind(call[k]) = "login" /\ call[k].answer # NoAnswer
        /\ jar' = call[k].answer.jar /\ jar' \in 1..issued /\ key' = key
    BY <2>1, Arriving
  <2>3. key'[jar'] = "live" BY <1>2, <2>2 DEF SurviveInv, LoginLive
  <2>4. jar' # NoToken BY <2>2, BrowserAssumption DEF NoToken, TypeInv, ServerTyped
  <2>5. LiveCookie' BY <2>3, <2>4, LiveNext
  <2>6. call'[k] = NoCall /\ \A j \in Calls \ {k} : call'[j] = call[j]
    BY <2>1, Ending DEF Ended, TypeInv, CallsTyped
  <2>7. \A j \in Calls : call'[j] # NoCall => Kind(call'[j]) \notin {"logout", "refresh"}
    BY <1>3, <2>2, <2>6 DEF Active, Alone
  <2> QED BY <2>5, <2>7, KeptAnew
<1>9. ASSUME NEW k \in Calls, Receive(k), ~SignedIn(k) PROVE Kept'
  <2>1. loggedIn' = loggedIn
    BY <1>9 DEF Receive, Refreshed, NotSignedIn, SessionExpired, Unauthorized, Mounted, Loaded,
       Switched, LoggedOut, Unreachable
  <2>2. Kept BY <1>4, <2>1
  <2> QED BY <1>2, <1>3, <1>9, <2>2, KeptReceive DEF SurviveInv
<1>10. ASSUME NEW k \in Calls, Forget(k) PROVE Kept'
  <2>1. /\ loggedIn' = loggedIn /\ End(k) /\ jar' = jar /\ key' = key
        /\ Kind(call[k]) = "refresh" => call[k].answer = NoAnswer
    BY <1>2, <1>10 DEF Forget, server
  <2>2. Kept BY <1>4, <2>1
  <2>3. call'[k] = NoCall /\ \A j \in Calls \ {k} : call'[j] = call[j]
    BY <2>1, Ending DEF Ended, TypeInv, CallsTyped
  <2>4. \A j \in Calls : call'[j] # NoCall => Same(j) BY <1>5, <2>3
  <2>5. \A j \in Calls : Active(j) /\ Kind(call[j]) = "refresh" /\ call[j].answer # NoAnswer
           => call'[j] # NoCall /\ Same(j)
    BY <1>5, <2>1, <2>3 DEF Active
  <2> QED BY <2>1, <2>2, <2>4, <2>5, KeptSame
<1>11. ASSUME NEW tab \in Tabs, Expire(tab) \/ Reload(tab) PROVE Kept'
  <2>1. Alike /\ jar' = jar /\ key' = key /\ loggedIn' = loggedIn
    BY <1>11, Expiring, Reloading DEF server
  <2>2. \A j \in Calls : (Active(j) <=> call'[j] # NoCall) /\ (Active(j) => Same(j))
    BY <2>1 DEF Alike, Same, TypeInv, CallsTyped, Active
  <2>3. Kept BY <1>4, <2>1
  <2> QED BY <2>1, <2>2, <2>3, KeptSame
<1> QED BY <1>6, <1>7, <1>8, <1>9, <1>10, <1>11 DEF Next

(* As long as the user does not log out, the cookie can be refreshed or a  *)
(* refresh that replaces it is under way, unless one of the overlaps named *)
(* has happened or an answer was lost: no tab is thrown out by tokens that *)
(* expire, reloads and org switches, however many tabs there are.          *)
THEOREM SessionSurvival == Spec => []SessionSurvives
<1>1. Init => SurviveInv
  BY DEF Init, SurviveInv, RetryFresh, LoginLive, SessionKept, Active
<1>2. TypeInv /\ TypeInv' /\ SurviveInv /\ [Next]_vars => SurviveInv'
  BY RetryStep, LoginStep, KeptStep DEF SurviveInv
<1>3. TypeInv /\ SurviveInv => SessionSurvives
  <2> SUFFICES ASSUME SurviveInv PROVE SessionSurvives OBVIOUS
  <2> QED BY DEF SurviveInv, SessionKept, SessionSurvives, Broken, RefreshCarries, Renewal
<1> QED BY <1>1, <1>2, <1>3, TypeInit, TypeNext, PTL DEF Spec

-----------------------------------------------------------------------------
(* A tab that a step does not concern. *)
LEMMA OtherTab ==
    ASSUME NEW tab \in Tabs, TabInv(tab),
           user'[tab] = user[tab], loading'[tab] = loading[tab],
           access'[tab] = NoAccess <=> access[tab] = NoAccess,
           overlapped \subseteq overlapped',
           \A k \in Calls : call'[k] # NoCall /\ call'[k].tab = tab /\ ~call'[k].orphan =>
              /\ Active(k) /\ call[k].tab = tab /\ ~call[k].orphan
              /\ call'[k].op = call[k].op /\ call'[k].step = call[k].step
    PROVE  TabInv(tab)'
<1>1. \A k \in Of(tab)' : /\ k \in Of(tab) /\ call'[k].op = call[k].op
                          /\ call'[k].step = call[k].step
                          /\ Kind(call'[k]) = Kind(call[k])
  BY DEF Of, Active, Kind
<1>2. LogoutOverlapped => LogoutOverlapped' BY DEF LogoutOverlapped, Overlapped
<1>3. loading'[tab] = "unmounted" => Of(tab)' = {} BY <1>1 DEF TabInv
<1> QED BY <1>1, <1>2, <1>3 DEF TabInv

(* A logout that arrives finds its tab with no call that could sign it in  *)
(* again, or it overlapped that call.                                      *)
LEMMA TabLogout ==
    ASSUME TypeInv, NEW k \in Calls, Active(k), ~call[k].orphan, Kind(call[k]) = "logout",
           NEW tab \in Tabs, tab = call[k].tab, TabInv(tab), Ended(k), ClearSession(tab),
           loading' = loading
    PROVE  TabInv(tab)'
<1>1. /\ access'[tab] = NoAccess /\ ~user'[tab] BY Cleared DEF TypeInv
<1>2. k \in Of(tab) BY DEF Of
<1>3. \A j \in Of(tab)' : j \in Of(tab) /\ j # k /\ call'[j] = call[j]
  BY DEF Ended, Of, Active
<1>4. loading[tab] # "unmounted" BY <1>2 DEF TabInv
<1>5. \A j \in Of(tab)' : call'[j].op # "mount" BY <1>2, <1>3 DEF TabInv
<1>6. ASSUME NEW j \in Of(tab)', ~LogoutOverlapped' PROVE Kind(call'[j]) \in {"login", "logout"}
  <2>1. /\ j \in Calls /\ Active(j) /\ j # k /\ call'[j] = call[j] /\ call[j] \in Running
        /\ call[j].op # "mount"
    BY <1>3, <1>5 DEF Of, Active, TypeInv, CallsTyped
  <2>2. {Kind(call[k]), Kind(call[j])} \in overlapped BY <2>1 DEF TypeInv, OverlapsKnown
  <2>3. ~LogoutOverlapped BY <1>6 DEF LogoutOverlapped, Overlapped, Ended
  <2>4. Kind(call[j]) \notin {"load", "switch", "refresh"}
    BY <2>2, <2>3 DEF LogoutOverlapped, Overlapped
  <2>5. Kind(call[j]) \in {"refresh", "logout", "mount", "load", "switch", "login"}
    BY <2>1, SMT DEF Kind, Running, Ops
  <2>6. Kind(call[j]) # "mount" BY <2>1, SMT DEF Kind
  <2> QED BY <2>1, <2>4, <2>5, <2>6
<1>7. loading'[tab] = "loading" =>
         /\ \A j \in Of(tab)' : call'[j].op \in {"mount", "expelled"}
         /\ \A i, j \in Of(tab)' : i = j
  BY <1>3 DEF TabInv
<1> QED BY <1>1, <1>4, <1>5, <1>6, <1>7 DEF TabInv

(* A call begins: of the tabs only its own has another. *)
LEMMA UserBegin ==
    ASSUME TypeInv, UserInv, NEW k \in Calls, Begin(k)
    PROVE  UserInv'
<1>1. PICK tab \in Tabs, op \in Ops, step \in {"entry", "first"},
           target \in Orgs \cup {NoAccess} : Begun(k, tab, op, step, target)
  BY Beginning
<1>2. /\ access' = access /\ user' = user /\ overlapped \subseteq overlapped' /\ ~Active(k)
      /\ \A j \in Calls \ {k} : call'[j] = call[j]
      /\ call'[k] # NoCall /\ call'[k].tab = tab /\ call'[k].op = op /\ call'[k].step = step
      /\ op # "expelled" /\ (step = "entry" <=> op = "mount")
      /\ IF op = "mount" THEN loading[tab] = "unmounted"
                              /\ loading' = [loading EXCEPT ![tab] = "loading"]
                         ELSE loading[tab] = "loaded" /\ loading' = loading
      /\ op = "login" <=> op # "mount" /\ access[tab] = NoAccess
  BY <1>1 DEF Begun, Sent
<1>3. \A u \in Tabs \ {tab} : loading'[u] = loading[u] BY <1>2 DEF TypeInv, TabsTyped
<1>4. ASSUME NEW u \in Tabs, u # tab PROVE TabInv(u)'
  <2>1. \A j \in Calls : call'[j] # NoCall /\ call'[j].tab = u /\ ~call'[j].orphan =>
              /\ Active(j) /\ call[j].tab = u /\ ~call[j].orphan
              /\ call'[j].op = call[j].op /\ call'[j].step = call[j].step
    BY <1>2, <1>4 DEF Active
  <2>2. TabInv(u) /\ user'[u] = user[u] /\ loading'[u] = loading[u] /\ access'[u] = access[u]
    BY <1>2, <1>3, <1>4 DEF UserInv
  <2> QED BY <1>2, <2>1, <2>2, OtherTab
<1>5. TabInv(tab) BY DEF UserInv
<1>6. \A j \in Of(tab)' : j = k \/ (j \in Of(tab) /\ call'[j] = call[j])
  BY <1>2 DEF Of, Active
<1>7. CASE op = "mount"
  <2>1. loading'[tab] = "loading" BY <1>2, <1>7 DEF TypeInv, TabsTyped
  <2>2. Of(tab) = {} /\ access[tab] = NoAccess /\ ~user[tab] BY <1>2, <1>5, <1>7 DEF TabInv
  <2>3. \A j \in Of(tab)' : j = k BY <1>6, <2>2
  <2> QED BY <1>2, <1>4, <1>7, <2>1, <2>2, <2>3 DEF TabInv, UserInv
<1>8. CASE op # "mount"
  <2>1. loading'[tab] = "loaded" /\ loading[tab] = "loaded" BY <1>2, <1>8
  <2>2. \A j \in Of(tab)' : call'[j].op # "mount" BY <1>2, <1>5, <1>6, <1>8, <2>1 DEF TabInv
  <2>3. LogoutOverlapped => LogoutOverlapped' BY <1>2 DEF LogoutOverlapped, Overlapped
  <2>4. access[tab] = NoAccess => Kind(call'[k]) = "login" BY <1>2, <1>8 DEF Kind
  <2>5. TabInv(tab)' BY <1>2, <1>5, <1>6, <2>1, <2>2, <2>3, <2>4 DEF TabInv
  <2> QED BY <1>4, <2>5 DEF UserInv
<1> QED BY <1>7, <1>8

(* A handler changes no tab. *)
LEMMA UserServe ==
    ASSUME TypeInv, UserInv, NEW k \in Calls, Serve(k)
    PROVE  UserInv'
<1>1. /\ UNCHANGED <<access, user, loading, overlapped>> /\ Active(k)
      /\ call'[k].tab = call[k].tab /\ call'[k].op = call[k].op
      /\ call'[k].step = call[k].step /\ call'[k].orphan = call[k].orphan
      /\ \A j \in Calls \ {k} : call'[j] = call[j]
  BY ServerStep
<1>2. ASSUME NEW tab \in Tabs PROVE TabInv(tab)'
  <2>1. \A j \in Calls : call'[j] # NoCall /\ call'[j].tab = tab /\ ~call'[j].orphan =>
              /\ Active(j) /\ call[j].tab = tab /\ ~call[j].orphan
              /\ call'[j].op = call[j].op /\ call'[j].step = call[j].step
    BY <1>1 DEF Active
  <2> QED BY <1>1, <2>1, OtherTab DEF UserInv
<1> QED BY <1>2 DEF UserInv

(* A tab that goes on: the other tabs, and the calls of its own. *)
LEMMA UserReceive ==
    ASSUME TypeInv, UserInv, NEW k \in Calls, Receive(k)
    PROVE  UserInv'
<1> DEFINE Rest == \A j \in Calls \ {k} : call'[j] = call[j]
<1>1. Active(k) /\ ~call[k].orphan /\ call[k] \in Running /\ Shape(call[k])
  <2>1. Active(k) /\ ~call[k].orphan
    BY DEF Receive, Refreshed, NotSignedIn, SessionExpired, Unauthorized, Mounted, Loaded,
           Switched, SignedIn, LoggedOut, Unreachable, Answered
  <2> QED BY <2>1 DEF TypeInv, CallsTyped, Active, Fits
<1>2. PICK tab \in Tabs : tab = call[k].tab BY <1>1, SMT DEF Running
<1>3. k \in Of(tab) /\ TabInv(tab) BY <1>1, <1>2 DEF Of, UserInv
<1>4. tab = call[k].tab BY <1>2
<1>5. loading[tab] # "unmounted" BY <1>3 DEF TabInv
<1>6. LogoutOverlapped /\ overlapped \subseteq overlapped' => LogoutOverlapped'
  BY DEF LogoutOverlapped, Overlapped
<1>7. ASSUME NEW u \in Tabs, u # tab, Rest,
             user'[u] = user[u], loading'[u] = loading[u], access'[u] = access[u],
             overlapped \subseteq overlapped', call'[k] # NoCall => call'[k].tab = tab
      PROVE  TabInv(u)'
  <2>1. \A j \in Calls : call'[j] # NoCall /\ call'[j].tab = u /\ ~call'[j].orphan =>
              /\ Active(j) /\ call[j].tab = u /\ ~call[j].orphan
              /\ call'[j].op = call[j].op /\ call'[j].step = call[j].step
    BY <1>7 DEF Active
  <2> QED BY <1>7, <2>1, OtherTab DEF UserInv
<1>8. ASSUME Rest PROVE \A j \in Of(tab)' : j = k \/ (j \in Of(tab) /\ call'[j] = call[j])
  BY <1>8 DEF Of, Active
<1>9. ASSUME Ended(k) PROVE \A j \in Of(tab)' : j # k /\ j \in Of(tab) /\ call'[j] = call[j]
  BY <1>9 DEF Of, Active, Ended
<1>10. \A j \in Of(tab) : call[j].op = "mount" => j = k BY <1>3 DEF TabInv
<1>11. CASE Refreshed(k)
  <2>1. /\ Kind(call[k]) = "refresh" /\ call[k].answer.org \in Orgs
    <3>1. Answered(k, "refresh", TRUE) BY <1>11 DEF Refreshed
    <3> QED BY <3>1, Arriving
  <2>2. /\ SetAccess(k) /\ UNCHANGED <<user, loading>> BY <1>11 DEF Refreshed
  <2>3. /\ access'[tab] # NoAccess /\ \A u \in Tabs \ {tab} : access'[u] = access[u]
    BY <1>1, <1>4, <2>1, <2>2, TokenSet
  <2>4. /\ Rest /\ overlapped \subseteq overlapped' /\ call'[k] # NoCall /\ call'[k].tab = tab
        /\ call'[k].op = call[k].op /\ call'[k].step # "entry"
    BY <1>4, <1>11, Refreshing DEF Sent
  <2>5. \A j \in Of(tab)' : j \in Of(tab) /\ call'[j].op = call[j].op
    BY <1>3, <1>8, <2>4
  <2>6. \A j \in Of(tab)' : call'[j].op = "mount" =>
           loading'[tab] = "loading" /\ (call'[j].step = "entry" <=> access'[tab] = NoAccess)
    BY <1>3, <1>10, <2>2, <2>3, <2>4, <2>5 DEF TabInv
  <2>7. loading[tab] = "loaded" => user[tab] \/ LogoutOverlapped BY <1>3, <2>1 DEF TabInv
  <2>8. TabInv(tab)' BY <1>3, <1>5, <1>6, <2>2, <2>3, <2>4, <2>5, <2>6, <2>7 DEF TabInv
  <2> QED BY <1>7, <2>2, <2>3, <2>4, <2>8 DEF UserInv
<1>12. CASE NotSignedIn(k)
  <2>1. /\ call[k].step = "entry" /\ loading' = [loading EXCEPT ![tab] = "loaded"]
        /\ End(k) /\ UNCHANGED <<access, user>>
    BY <1>4, <1>12 DEF NotSignedIn
  <2>2. Ended(k) BY <2>1, Ending DEF TypeInv, CallsTyped
  <2>3. loading'[tab] = "loaded" /\ \A u \in Tabs \ {tab} : loading'[u] = loading[u]
    BY <1>2, <2>1 DEF TypeInv, TabsTyped
  <2>4. call[k].op = "mount" BY <1>1, <2>1 DEF Shape
  <2>5. access[tab] = NoAccess /\ loading[tab] = "loading" BY <1>3, <2>1, <2>4 DEF TabInv
  <2>6. Of(tab)' = {} BY <1>3, <1>9, <2>2, <2>5 DEF TabInv
  <2>7. TabInv(tab)' BY <1>3, <2>1, <2>3, <2>5, <2>6 DEF TabInv
  <2> QED BY <1>7, <2>1, <2>2, <2>3, <2>7 DEF UserInv, Ended
<1>13. CASE SessionExpired(k)
  <2>1. /\ loading' = loading /\ Kind(call[k]) \in {"refresh", "load", "mount", "switch"}
    BY <1>13, Expelling
  <2>2. CASE access[tab] = NoAccess /\ ClearSession(tab) /\ Ended(k)
    <3>1. /\ access'[tab] = NoAccess /\ ~user'[tab]
          /\ \A u \in Tabs \ {tab} : access'[u] = access[u] /\ user'[u] = user[u]
      BY <1>2, <2>2, Cleared DEF TypeInv
    <3>2. /\ Rest /\ overlapped' = overlapped /\ call'[k] = NoCall BY <2>2 DEF Ended
    <3>3. \A j \in Of(tab)' : j \in Of(tab) /\ call'[j] = call[j] BY <1>9, <2>2
    <3>4. ~user[tab] BY <1>3, <2>2 DEF TabInv
    <3>5. TabInv(tab)' BY <1>3, <1>5, <1>6, <2>1, <2>2, <3>1, <3>2, <3>3, <3>4 DEF TabInv
    <3> QED BY <1>7, <2>1, <3>1, <3>2, <3>5 DEF UserInv
  <2>3. CASE /\ access[tab] # NoAccess /\ UNCHANGED <<access, user>>
             /\ Sent(k, tab, "expelled", "first", call[k].org, call[k].target,
                     access[tab], FALSE)
    <3>1. /\ Rest /\ overlapped \subseteq overlapped' /\ call'[k] # NoCall /\ call'[k].tab = tab
          /\ call'[k].op = "expelled" /\ call'[k].step = "first"
      BY <2>3 DEF Sent
    <3>2. \A j \in Of(tab)' : j \in Of(tab) /\ (j # k => call'[j] = call[j])
      BY <1>3, <1>8, <3>1
    <3>3. \A j \in Of(tab)' : call'[j].op # "mount" BY <1>10, <3>1, <3>2
    <3>4. loading[tab] = "loading" =>
             /\ \A j \in Of(tab)' : call'[j].op \in {"mount", "expelled"}
             /\ \A i, j \in Of(tab)' : i = j
      BY <1>3, <3>1, <3>2 DEF TabInv
    <3>5. loading[tab] = "loaded" => user[tab] \/ LogoutOverlapped BY <1>3, <2>3 DEF TabInv
    <3>6. TabInv(tab)' BY <1>3, <1>5, <1>6, <2>1, <2>3, <3>1, <3>3, <3>4, <3>5 DEF TabInv
    <3> QED BY <1>7, <2>1, <2>3, <3>1, <3>6 DEF UserInv
  <2> QED BY <1>4, <1>13, <2>2, <2>3, Expelling
<1>14. CASE Unauthorized(k)
  <2>1. /\ UNCHANGED <<access, user, loading>> /\ call[k].step = "first"
        /\ Kind(call[k]) = call[k].op /\ call[k].op \in {"mount", "load", "switch"}
        /\ Rest /\ overlapped \subseteq overlapped' /\ call'[k] # NoCall /\ call'[k].tab = tab
        /\ call'[k].op = call[k].op /\ call'[k].step = "refresh"
    BY <1>4, <1>14, Retrying DEF Sent
  <2>2. \A j \in Of(tab)' : j \in Of(tab) /\ call'[j].op = call[j].op
                            /\ (call'[j].step = "entry" <=> call[j].step = "entry")
    BY <1>3, <1>8, <2>1
  <2>3. loading[tab] = "loaded" => user[tab] \/ LogoutOverlapped BY <1>3, <2>1 DEF TabInv
  <2>4. TabInv(tab)' BY <1>3, <1>5, <1>6, <2>1, <2>2, <2>3 DEF TabInv
  <2> QED BY <1>7, <2>1, <2>4 DEF UserInv
<1>15. CASE Mounted(k)
  <2>1. /\ user' = [user EXCEPT ![tab] = TRUE] /\ loading' = [loading EXCEPT ![tab] = "loaded"]
        /\ End(k) /\ access' = access /\ Answered(k, "mount", TRUE)
    BY <1>4, <1>15 DEF Mounted
  <2>2. Ended(k) BY <2>1, Ending DEF TypeInv, CallsTyped
  <2>3. /\ loading'[tab] = "loaded" /\ user'[tab]
        /\ \A u \in Tabs \ {tab} : loading'[u] = loading[u] /\ user'[u] = user[u]
    BY <1>2, <2>1 DEF TypeInv, TabsTyped
  <2>4. call[k].op = "mount" /\ call[k].step # "entry"
    BY <1>1, <2>1, SMT DEF Answered, Kind, Running, Ops
  <2>5. access[tab] # NoAccess /\ loading[tab] = "loading" BY <1>3, <2>4 DEF TabInv
  <2>6. Of(tab)' = {} BY <1>3, <1>9, <2>2, <2>5 DEF TabInv
  <2>7. TabInv(tab)' BY <2>1, <2>3, <2>5, <2>6 DEF TabInv
  <2> QED BY <1>7, <2>1, <2>2, <2>3, <2>7 DEF UserInv, Ended
<1>16. CASE Switched(k) \/ SignedIn(k)
  <2>1. PICK kind \in {"switch", "login"} :
           /\ Answered(k, kind, TRUE)
           /\ IF kind = "login" THEN user' = [user EXCEPT ![tab] = TRUE] ELSE user' = user
    BY <1>4, <1>16 DEF Switched, SignedIn
  <2>2. SetAccess(k) /\ End(k) /\ loading' = loading BY <1>16 DEF Switched, SignedIn
  <2>3. Ended(k) BY <2>2, Ending DEF TypeInv, CallsTyped
  <2>4. Kind(call[k]) = kind /\ call[k].answer.org \in Orgs BY <2>1, Arriving
  <2>5. /\ access'[tab] # NoAccess /\ \A u \in Tabs \ {tab} : access'[u] = access[u]
    BY <1>1, <1>4, <2>2, <2>4, TokenSet
  <2>6. call[k].op \in {"switch", "login"} BY <1>1, <2>4, SMT DEF Kind, Running, Ops
  <2>7. loading[tab] = "loaded" /\ loading'[tab] = "loaded"
    BY <1>2, <1>3, <1>5, <2>2, <2>6 DEF TabInv, TypeInv, TabsTyped
  <2>8. \A j \in Of(tab)' : j \in Of(tab) /\ call'[j] = call[j] BY <1>9, <2>3
  <2>9. \A j \in Of(tab)' : call'[j].op # "mount" BY <1>3, <2>7, <2>8 DEF TabInv
  <2>10. user'[tab] \/ LogoutOverlapped
    <3>1. CASE kind = "login" BY <1>2, <2>1, <3>1 DEF TypeInv, TabsTyped
    <3>2. CASE kind = "switch" BY <1>3, <2>1, <2>4, <2>7, <3>2 DEF TabInv
    <3> QED BY <3>1, <3>2
  <2>11. \A u \in Tabs \ {tab} : user'[u] = user[u] BY <2>1 DEF TypeInv, TabsTyped
  <2>12. overlapped' = overlapped /\ Rest /\ call'[k] = NoCall BY <2>3 DEF Ended
  <2>13. TabInv(tab)' BY <1>6, <2>5, <2>7, <2>9, <2>10, <2>12 DEF TabInv
  <2> QED BY <1>7, <2>2, <2>5, <2>11, <2>12, <2>13 DEF UserInv
<1>17. ASSUME End(k), ClearSession(tab), loading' = loading, Kind(call[k]) = "logout"
       PROVE  UserInv'
  <2>1. Ended(k) BY <1>17, Ending DEF TypeInv, CallsTyped
  <2>2. TabInv(tab)' BY <1>1, <1>2, <1>3, <1>4, <1>17, <2>1, TabLogout
  <2>3. \A u \in Tabs \ {tab} : access'[u] = access[u] /\ user'[u] = user[u]
    BY <1>2, <1>17, Cleared DEF TypeInv
  <2> QED BY <1>7, <1>17, <2>1, <2>2, <2>3 DEF UserInv, Ended
<1>18. CASE LoggedOut(k)
  <2>1. Kind(call[k]) = "logout" BY <1>18 DEF LoggedOut, Answered
  <2> QED BY <1>4, <1>17, <1>18, <2>1 DEF LoggedOut
<1>19. CASE Loaded(k) \/ (Unreachable(k) /\ Kind(call[k]) # "logout")
  <2>1. End(k) /\ UNCHANGED <<access, user, loading>> BY <1>19 DEF Loaded, Unreachable, state
  <2>2. Ended(k) BY <2>1, Ending DEF TypeInv, CallsTyped
  <2>3. ASSUME NEW u \in Tabs PROVE TabInv(u)'
    <3>1. \A j \in Calls : call'[j] # NoCall /\ call'[j].tab = u /\ ~call'[j].orphan =>
                /\ Active(j) /\ call[j].tab = u /\ ~call[j].orphan
                /\ call'[j].op = call[j].op /\ call'[j].step = call[j].step
      BY <2>2 DEF Ended, Active
    <3>2. overlapped' = overlapped BY <2>2 DEF Ended
    <3> QED BY <2>1, <3>1, <3>2, OtherTab DEF UserInv
  <2> QED BY <2>3 DEF UserInv
<1>20. CASE Unreachable(k) /\ Kind(call[k]) = "logout"
  BY <1>4, <1>17, <1>20 DEF Unreachable
<1> QED BY <1>11, <1>12, <1>13, <1>14, <1>15, <1>16, <1>18, <1>19, <1>20 DEF Receive

(* Every step keeps what the tabs know. *)
LEMMA UserNext == TypeInv /\ UserInv /\ [Next]_vars => UserInv'
<1> SUFFICES ASSUME TypeInv, UserInv, [Next]_vars PROVE UserInv' OBVIOUS
<1>1. ASSUME NEW u \in Tabs, user' = user, loading' = loading,
             access'[u] = NoAccess <=> access[u] = NoAccess, overlapped' = overlapped,
             \A j \in Calls : call'[j] # NoCall =>
                /\ Active(j) /\ call'[j].tab = call[j].tab
                /\ call'[j].op = call[j].op /\ call'[j].step = call[j].step
                /\ call'[j].orphan = call[j].orphan
      PROVE  TabInv(u)'
  BY <1>1, OtherTab DEF UserInv
<1>2. ASSUME NEW k \in Calls, Forget(k) PROVE UserInv'
  <2>1. End(k) /\ UNCHANGED <<access, user, loading>> BY <1>2 DEF Forget, state
  <2>2. Ended(k) BY <2>1, Ending DEF TypeInv, CallsTyped
  <2> QED BY <1>1, <2>1, <2>2 DEF UserInv, Ended, Active
<1>3. ASSUME NEW tab \in Tabs, Expire(tab) PROVE UserInv'
  <2>1. /\ Alike /\ UNCHANGED <<user, loading>>
        /\ \A u \in Tabs : access'[u] = NoAccess <=> access[u] = NoAccess
        /\ \A k \in Calls : Active(k) => call'[k].orphan = call[k].orphan
    BY <1>3, Expiring
  <2> QED BY <1>1, <2>1 DEF UserInv, Alike
<1>4. ASSUME NEW tab \in Tabs, Reload(tab) PROVE UserInv'
  <2>1. /\ Alike /\ ClearSession(tab) /\ loading' = [loading EXCEPT ![tab] = "unmounted"]
        /\ \A k \in Calls : Active(k) => call'[k].orphan = (call[k].orphan \/ call[k].tab = tab)
    BY <1>4, Reloading
  <2>2. /\ access'[tab] = NoAccess /\ ~user'[tab]
        /\ \A u \in Tabs \ {tab} : access'[u] = access[u] /\ user'[u] = user[u]
    BY <2>1, Cleared DEF TypeInv
  <2>3. loading'[tab] = "unmounted" /\ \A u \in Tabs \ {tab} : loading'[u] = loading[u]
    BY <2>1 DEF TypeInv, TabsTyped
  <2>4. Of(tab)' = {} BY <2>1 DEF Of, Active, Alike
  <2>5. TabInv(tab)' BY <2>2, <2>3, <2>4 DEF TabInv
  <2>6. ASSUME NEW u \in Tabs, u # tab PROVE TabInv(u)'
    <3>1. \A j \in Calls : call'[j] # NoCall /\ call'[j].tab = u /\ ~call'[j].orphan =>
                /\ Active(j) /\ call[j].tab = u /\ ~call[j].orphan
                /\ call'[j].op = call[j].op /\ call'[j].step = call[j].step
      BY <2>1 DEF Alike
    <3>2. overlapped' = overlapped BY <2>1 DEF Alike
    <3> QED BY <2>2, <2>3, <2>6, <3>1, <3>2, OtherTab DEF UserInv
  <2> QED BY <2>5, <2>6 DEF UserInv
<1>5. CASE UNCHANGED vars
  BY <1>1, <1>5 DEF UserInv, vars, state, ghosts, Active
<1> QED BY <1>2, <1>3, <1>4, <1>5, UserBegin, UserServe, UserReceive DEF Next

-----------------------------------------------------------------------------
(* While no switch-org or login has overlapped one of them or a refresh,   *)
(* there is nothing of the kind beside one.                                *)
Apart ==
    \A j, k \in Calls : j # k /\ Active(j) /\ Active(k) =>
        ~(Kind(call[j]) \in {"switch", "login"} /\ Kind(call[k]) \in {"switch", "login", "refresh"})

(* Every two requests under way are in overlapped. *)
LEMMA UncrossedApart ==
    /\ TypeInv /\ ~Crossed("login") => Apart
    /\ TypeInv' /\ ~Crossed("login")' => Apart'
BY DEF TypeInv, OverlapsKnown, Crossed, Overlapped, Apart

(* A step that takes a token into a tab. *)
Took(k) ==
    /\ Refreshed(k) \/ Switched(k) \/ SignedIn(k)
    /\ Active(k) /\ ~call[k].orphan /\ Kind(call[k]) \in {"refresh", "switch", "login"}
    /\ call[k].answer # NoAnswer /\ call[k].answer.ok /\ call[k].answer.org \in Orgs
    /\ access'[call[k].tab].org = call[k].answer.org

(* What a step of the browser may do to a tab: it shows nothing, or what   *)
(* it showed, or it took a token; to a call: what was brought by a switch  *)
(* or a login is still there, taken, or lost; and to the cookie.           *)
Client ==
    /\ \A tab \in Tabs :
          \/ access'[tab] = NoAccess
          \/ /\ access[tab] # NoAccess /\ access'[tab].org = access[tab].org
             /\ tab \in behind' <=> tab \in behind
          \/ \E k \in Calls : Took(k) /\ call[k].tab = tab
    /\ \A k \in Calls : Brought(k, "switch") \/ Brought(k, "login") =>
          (call'[k] # NoCall /\ Same(k)) \/ Took(k) \/ lost'
    /\ \A k \in Calls : call'[k] # NoCall /\ Same(k) /\ call'[k].orphan =>
          call[k].orphan \/ access'[call[k].tab] = NoAccess
    /\ \/ jar' \in {jar, NoToken}
       \/ \E k \in Calls : Took(k) /\ Kind(call[k]) # "switch" /\ jar' = call[k].answer.jar

(* The answers do no more than that. *)
LEMMA ClientReceive ==
    ASSUME TypeInv, NEW k \in Calls, Receive(k)
    PROVE  Client
<1> DEFINE Rest == \A j \in Calls \ {k} : call'[j] = call[j]
<1>1. Active(k) /\ ~call[k].orphan /\ call[k].orphan = FALSE /\ call[k] \in Running
  <2>1. Active(k) /\ ~call[k].orphan
    BY DEF Receive, Refreshed, NotSignedIn, SessionExpired, Unauthorized, Mounted, Loaded,
           Switched, SignedIn, LoggedOut, Unreachable, Answered
  <2> QED BY <2>1, SMT DEF TypeInv, CallsTyped, Active, Running
<1>2. PICK tab \in Tabs : tab = call[k].tab BY <1>1, SMT DEF Running
<1>3. ASSUME Rest, Took(k) \/ lost' \/ ~(Brought(k, "switch") \/ Brought(k, "login")),
             call'[k] # NoCall => call'[k].orphan = FALSE
      PROVE  /\ \A j \in Calls : Brought(j, "switch") \/ Brought(j, "login") =>
                   (call'[j] # NoCall /\ Same(j)) \/ Took(j) \/ lost'
             /\ \A j \in Calls : call'[j] # NoCall /\ Same(j) /\ call'[j].orphan =>
                   call[j].orphan \/ access'[call[j].tab] = NoAccess
  <2>1. ASSUME NEW j \in Calls \ {k}, Active(j) PROVE call'[j] # NoCall /\ Same(j)
    BY <1>3, <2>1 DEF Same, Active, TypeInv, CallsTyped
  <2>2. \A j \in Calls : Brought(j, "switch") \/ Brought(j, "login") => Active(j)
    BY DEF Brought
  <2> QED BY <1>3, <2>1, <2>2
<1>4. ASSUME access' = access, behind' = behind
      PROVE  \A u \in Tabs : access'[u] = NoAccess \/
                /\ access[u] # NoAccess /\ access'[u].org = access[u].org
                /\ u \in behind' <=> u \in behind
  BY <1>4
<1>5. ASSUME ClearSession(tab), behind' = behind
      PROVE  \A u \in Tabs : access'[u] = NoAccess \/
                /\ access[u] # NoAccess /\ access'[u].org = access[u].org
                /\ u \in behind' <=> u \in behind
  BY <1>2, <1>5, Cleared DEF TypeInv
<1>6. ASSUME SetAccess(k), Took(k), call[k].answer.org \in Orgs
      PROVE  \A u \in Tabs :
                \/ access'[u] = NoAccess
                \/ /\ access[u] # NoAccess /\ access'[u].org = access[u].org
                   /\ u \in behind' <=> u \in behind
                \/ \E j \in Calls : Took(j) /\ call[j].tab = u
  <2>1. \A u \in Tabs \ {tab} : access'[u] = access[u] /\ (u \in behind' <=> u \in behind)
    BY <1>1, <1>2, <1>6, TokenSet
  <2> QED BY <1>2, <1>6, <2>1
<1>7. ASSUME End(k) PROVE Rest /\ call'[k] = NoCall
  BY <1>7, Ending DEF Ended, TypeInv, CallsTyped
<1>8. CASE Refreshed(k)
  <2>1. Answered(k, "refresh", TRUE) /\ SetAccess(k) BY <1>8 DEF Refreshed
  <2>2. /\ Kind(call[k]) = "refresh" /\ call[k].answer # NoAnswer /\ call[k].answer.ok
        /\ call[k].answer.org \in Orgs /\ jar' = call[k].answer.jar
    BY <2>1, Arriving
  <2>3. access'[tab].org = call[k].answer.org BY <1>1, <1>2, <2>1, <2>2, TokenSet
  <2>4. Took(k) BY <1>1, <1>2, <1>8, <2>2, <2>3 DEF Took
  <2>5. Rest /\ call'[k].orphan = FALSE BY <1>8, Refreshing DEF Sent
  <2> QED BY <1>3, <1>6, <2>1, <2>2, <2>4, <2>5 DEF Client
<1>9. CASE Switched(k) \/ SignedIn(k)
  <2>1. PICK kind \in {"switch", "login"} : Answered(k, kind, TRUE)
    BY <1>9 DEF Switched, SignedIn
  <2>2. SetAccess(k) /\ End(k) BY <1>9 DEF Switched, SignedIn
  <2>3. /\ Kind(call[k]) = kind /\ call[k].answer # NoAnswer /\ call[k].answer.ok
        /\ call[k].answer.org \in Orgs
        /\ kind = "switch" => jar' = jar
        /\ kind = "login" => jar' = call[k].answer.jar
    BY <2>1, Arriving
  <2>4. access'[tab].org = call[k].answer.org BY <1>1, <1>2, <2>2, <2>3, TokenSet
  <2>5. Took(k) BY <1>1, <1>2, <1>9, <2>1, <2>3, <2>4 DEF Took
  <2>6. Rest /\ call'[k] = NoCall BY <1>7, <2>2
  <2>7. jar' = jar \/ (Took(k) /\ Kind(call[k]) # "switch" /\ jar' = call[k].answer.jar)
    BY <2>1, <2>3, <2>5
  <2> QED BY <1>3, <1>6, <2>2, <2>3, <2>5, <2>6, <2>7 DEF Client
<1>10. CASE SessionExpired(k)
  <2>1. /\ jar' \in {jar, NoToken} /\ ~call[k].answer.ok /\ behind' = behind
    BY <1>10, Expelling
  <2>2. ~(Brought(k, "switch") \/ Brought(k, "login")) BY <2>1 DEF Brought
  <2>3. Rest /\ (call'[k] # NoCall => call'[k].orphan = FALSE)
    BY <1>10, Expelling DEF Sent, Ended
  <2>4. access' = access \/ ClearSession(tab) BY <1>2, <1>10, Expelling
  <2> QED BY <1>3, <1>4, <1>5, <2>1, <2>2, <2>3, <2>4 DEF Client
<1>11. CASE Unauthorized(k)
  <2>1. /\ jar' = jar /\ ~call[k].answer.ok /\ behind' = behind /\ access' = access
        /\ Rest /\ call'[k].orphan = FALSE
    BY <1>11, Retrying DEF Sent
  <2>2. ~(Brought(k, "switch") \/ Brought(k, "login")) BY <2>1 DEF Brought
  <2> QED BY <1>3, <1>4, <2>1, <2>2 DEF Client
<1>12. ASSUME End(k), jar' \in {jar, NoToken}, behind' = behind,
              access' = access \/ ClearSession(tab),
              lost' \/ ~(Brought(k, "switch") \/ Brought(k, "login"))
       PROVE  Client
  BY <1>3, <1>4, <1>5, <1>7, <1>12 DEF Client
<1>13. CASE NotSignedIn(k)
  <2>1. Answered(k, "refresh", FALSE) /\ End(k) /\ access' = access /\ behind' = behind
    BY <1>13 DEF NotSignedIn
  <2>2. jar' \in {jar, NoToken} /\ Kind(call[k]) = "refresh" BY <2>1, Arriving
  <2> QED BY <1>12, <2>1, <2>2 DEF Brought
<1>14. CASE Mounted(k) \/ Loaded(k)
  <2>1. PICK kind \in {"mount", "load"}, ok \in BOOLEAN : Answered(k, kind, ok)
    BY <1>14 DEF Mounted, Loaded
  <2>2. Kind(call[k]) = kind /\ jar' = jar BY <2>1, Arriving
  <2>3. End(k) /\ access' = access /\ behind' = behind BY <1>14 DEF Mounted, Loaded, state
  <2> QED BY <1>12, <2>2, <2>3 DEF Brought
<1>15. CASE LoggedOut(k)
  <2>1. PICK ok \in BOOLEAN : Answered(k, "logout", ok) BY <1>15 DEF LoggedOut
  <2>2. jar' \in {jar, NoToken} /\ Kind(call[k]) = "logout" BY <2>1, Arriving
  <2>3. End(k) /\ ClearSession(tab) /\ behind' = behind BY <1>2, <1>15 DEF LoggedOut
  <2> QED BY <1>12, <2>2, <2>3 DEF Brought
<1>16. CASE Unreachable(k)
  <2>1. /\ End(k) /\ behind' = behind /\ jar' = jar
        /\ access' = access \/ ClearSession(tab)
        /\ lost' = (lost \/ (Kind(call[k]) \in {"refresh", "login", "switch"}
                             /\ call[k].answer # NoAnswer))
    BY <1>2, <1>16 DEF Unreachable
  <2>2. lost' \/ ~(Brought(k, "switch") \/ Brought(k, "login")) BY <2>1 DEF Brought
  <2> QED BY <1>12, <2>1, <2>2
<1> QED BY <1>8, <1>9, <1>10, <1>11, <1>13, <1>14, <1>15, <1>16 DEF Receive

(* Nor does any other step of the browser. *)
LEMMA ClientTabs ==
    ASSUME TypeInv,
           \/ \E k \in Calls : Begin(k) \/ Receive(k) \/ Forget(k)
           \/ \E tab \in Tabs : Expire(tab) \/ Reload(tab)
    PROVE  Client
<1>1. ASSUME NEW k \in Calls, Begin(k) PROVE Client
  <2>1. PICK tab \in Tabs, op \in Ops, step \in {"entry", "first"},
             target \in Orgs \cup {NoAccess} : Begun(k, tab, op, step, target)
    BY <1>1, Beginning
  <2>2. /\ UNCHANGED <<jar, access, behind>> /\ ~Active(k) /\ call'[k].orphan = FALSE
        /\ \A j \in Calls \ {k} : call'[j] = call[j]
    BY <2>1 DEF Begun, Sent
  <2>3. ASSUME NEW j \in Calls, Active(j)
        PROVE  call'[j] # NoCall /\ Same(j) /\ call'[j].orphan = call[j].orphan
    BY <2>2, <2>3 DEF Same, Active, TypeInv, CallsTyped
  <2> QED BY <2>2, <2>3 DEF Client, Brought, Same
<1>2. ASSUME NEW k \in Calls, Forget(k) PROVE Client
  <2>1. /\ End(k) /\ UNCHANGED <<jar, access, behind>>
        /\ lost' = (lost \/ (Kind(call[k]) \in {"refresh", "login", "switch"}
                             /\ call[k].answer # NoAnswer))
    BY <1>2 DEF Forget, state
  <2>2. call'[k] = NoCall /\ \A j \in Calls \ {k} : call'[j] = call[j]
    BY <2>1, Ending DEF Ended, TypeInv, CallsTyped
  <2>3. ASSUME NEW j \in Calls \ {k}, Active(j)
        PROVE  call'[j] # NoCall /\ Same(j) /\ call'[j].orphan = call[j].orphan
    BY <2>2, <2>3 DEF Same, Active, TypeInv, CallsTyped
  <2>4. Brought(k, "switch") \/ Brought(k, "login") => lost' BY <2>1 DEF Brought
  <2> QED BY <2>1, <2>2, <2>3, <2>4 DEF Client, Brought, Same
<1>3. ASSUME Alike, NEW j \in Calls, Active(j) PROVE call'[j] # NoCall /\ Same(j)
  BY <1>3 DEF Alike, Same, TypeInv, CallsTyped, Active
<1>4. ASSUME NEW tab \in Tabs, Expire(tab) PROVE Client
  <2>1. /\ Alike /\ jar' = jar /\ behind' = behind
        /\ \A u \in Tabs : /\ access'[u] = NoAccess <=> access[u] = NoAccess
                           /\ access[u] # NoAccess => access'[u].org = access[u].org
        /\ \A k \in Calls : Active(k) => call'[k].orphan = call[k].orphan
    BY <1>4, Expiring
  <2> QED BY <1>3, <2>1 DEF Client, Brought, Same
<1>5. ASSUME NEW tab \in Tabs, Reload(tab) PROVE Client
  <2>1. /\ Alike /\ jar' = jar /\ behind' = behind \ {tab} /\ ClearSession(tab)
        /\ \A k \in Calls : Active(k) => call'[k].orphan = (call[k].orphan \/ call[k].tab = tab)
    BY <1>5, Reloading
  <2>2. access'[tab] = NoAccess /\ \A u \in Tabs \ {tab} : access'[u] = access[u]
    BY <2>1, Cleared DEF TypeInv
  <2>3. \A k \in Calls : Active(k) /\ call'[k].orphan =>
           call[k].orphan \/ access'[call[k].tab] = NoAccess
    BY <2>1, <2>2
  <2> QED BY <1>3, <2>1, <2>2, <2>3 DEF Client, Brought, Same
<1> QED BY <1>1, <1>2, <1>4, <1>5, ClientReceive

-----------------------------------------------------------------------------
(* A token in reach of a call has been issued. *)
LEMMA ReachIssued ==
    ASSUME TypeInv, NEW k \in Calls, Active(k), NEW t \in Tokens, Reaches(call[k], t)
    PROVE  t \in 1..issued
<1>1. /\ Fits(call[k], issued) /\ Kind(call[k]) = "refresh"
      /\ t = IF call[k].answer = NoAnswer THEN call[k].cookie ELSE call[k].answer.jar
  BY DEF Reaches, TypeInv, CallsTyped
<1>2. t \in Nat /\ t # NoToken /\ t # Keep /\ issued \in Nat
  BY BrowserAssumption, NothingAssumption, SMT DEF Tokens, NoToken, TypeInv, ServerTyped
<1>3. CASE call[k].answer = NoAnswer
  <2>1. t \in 0..issued BY <1>1, <1>3 DEF Fits
  <2> QED BY <1>2, <2>1 DEF NoToken
<1>4. CASE call[k].answer # NoAnswer
  <2>1. t = call[k].answer.jar BY <1>1, <1>4
  <2>2. call[k].answer.jar \in 1..issued \/ call[k].answer.jar \in {Keep, NoToken}
    BY <1>1, <1>4 DEF Fits, AnswerFits
  <2> QED BY <1>2, <2>1, <2>2
<1> QED BY <1>3, <1>4

(* A step of the browser, other than the arrival of a login, brings no     *)
(* token into reach.                                                       *)
LEMMA ClientReach ==
    ASSUME TypeInv,
           \/ \E k \in Calls : Begin(k) \/ Receive(k) \/ Forget(k)
           \/ \E tab \in Tabs : Expire(tab) \/ Reload(tab),
           \A k \in Calls : ~SignedIn(k),
           NEW org, AllIn(org)
    PROVE  AllIn(org)'
<1>1. key' = key /\ context' = context BY ClientStep
<1>2. ASSUME NEW t \in Tokens, key'[t] = "live", t = jar' PROVE t \in InReach
  <2>1. t # NoToken BY DEF Tokens, NoToken
  <2>2. CASE t = jar BY <1>1, <1>2, <2>2 DEF InReach
  <2>3. CASE t # jar
    <3>1. PICK k \in Calls : Took(k) /\ Kind(call[k]) # "switch" /\ jar' = call[k].answer.jar
      BY <1>2, <2>1, <2>3, ClientTabs DEF Client
    <3>2. Kind(call[k]) = "refresh" /\ Active(k) /\ call[k].answer # NoAnswer
      <4>1. Refreshed(k) \/ Switched(k) BY <3>1 DEF Took
      <4>2. Kind(call[k]) \in {"refresh", "switch"} BY <4>1 DEF Refreshed, Switched, Answered
      <4> QED BY <3>1, <4>2 DEF Took
    <3> QED BY <1>1, <1>2, <3>1, <3>2 DEF InReach, Reaches
  <2> QED BY <2>2, <2>3
<1>3. ASSUME NEW t \in Tokens, key'[t] = "live", NEW k \in Calls, call'[k] # NoCall,
             Reaches(call'[k], t)
      PROVE  t \in InReach
  <2>1. CASE Same(k)
    <3>1. Active(k) /\ Reaches(call[k], t) BY <1>3, <2>1 DEF Same, Reaches
    <3> QED BY <1>1, <1>3, <3>1 DEF InReach
  <2>2. CASE Resent(k)
    <3>1. t = jar' BY <1>3, <2>2 DEF Resent, Reaches
    <3> QED BY <1>2, <1>3, <3>1
  <2> QED BY <1>3, <2>1, <2>2, ClientStep
<1>4. ASSUME NEW t \in InReach' PROVE t \in InReach
  <2>1. /\ t \in Tokens /\ key'[t] = "live"
        /\ t = jar' \/ \E k \in Calls : call'[k] # NoCall /\ Reaches(call'[k], t)
    BY DEF InReach, Active
  <2> QED BY <1>2, <1>3, <2>1
<1> QED BY <1>1, <1>4 DEF AllIn

(* Nor does a handler, but for that of a switch-org: the token of a        *)
(* refresh takes over the organization of the one it replaces.             *)
LEMMA ServerReach ==
    ASSUME TypeInv, NEW k \in Calls, Serve(k), ~ServeSwitch(k), ~lost', NEW org, AllIn(org)
    PROVE  AllIn(org)'
<1>1. /\ jar' = jar /\ Active(k) /\ call[k].answer = NoAnswer /\ call'[k] # NoCall
      /\ Kind(call'[k]) = Kind(call[k]) /\ call'[k].answer # NoAnswer
      /\ \A j \in Calls \ {k} : call'[j] = call[j]
  BY ServerStep
<1>2. issued \in Nat /\ jar \in 0..issued BY BrowserAssumption DEF TypeInv, ServerTyped
<1>3. ASSUME NEW t \in InReach'
      PROVE  /\ t \in Tokens /\ key'[t] = "live"
             /\ \/ t = jar \/ \E j \in Calls \ {k} : Active(j) /\ Reaches(call[j], t)
                \/ Kind(call[k]) = "refresh" /\ t = call'[k].answer.jar
  BY <1>1 DEF InReach, Active, Reaches
<1>4. ASSUME NEW t \in InReach', key'[t] = key[t],
             Kind(call[k]) = "refresh" => t # call'[k].answer.jar
      PROVE  t \in InReach
  BY <1>3, <1>4 DEF InReach
<1>5. ASSUME \A t \in Tokens : key'[t] # "live" PROVE AllIn(org)'
  BY <1>3, <1>5 DEF AllIn
<1>6. CASE ServeLogin(k)
  <2>1. Kind(call[k]) = "login" BY <1>6, ServingLogin DEF Waiting
  <2>2. PICK o \in Orgs : Renewed(o, NoToken) BY <1>6, ServingLogin
  <2>3. ASSUME NEW t \in InReach' PROVE t \in InReach /\ context'[t] = context[t]
    <3>1. t \in Tokens /\ (t = jar \/ \E j \in Calls \ {k} : Active(j) /\ Reaches(call[j], t))
      BY <1>3, <2>1
    <3>2. t <= issued BY <1>2, <3>1, ReachIssued
    <3>3. t # issued' /\ t # NoToken BY <1>2, <2>2, <3>1, <3>2 DEF Renewed, Tokens, NoToken
    <3>4. key'[t] = key[t] /\ context'[t] = context[t] BY <2>2, <3>1, <3>3 DEF Renewed
    <3> QED BY <1>4, <2>1, <3>4
  <2> QED BY <2>3 DEF AllIn
<1>7. CASE ServeRefresh(k)
  <2> DEFINE c == call[k].cookie
  <2>1. Kind(call[k]) = "refresh" BY <1>7, ServingRefresh DEF Waiting
  <2>2. CASE /\ c \in Tokens /\ key[c] = "live"
             /\ Renewed(context[c], c) /\ Given(k, TRUE, context[c], issued')
    <3>1. c \in InReach BY <1>1, <2>1, <2>2 DEF InReach, Reaches
    <3>2. context[c] = org BY <3>1 DEF AllIn
    <3>3. call'[k].answer.jar = issued' BY <2>2 DEF Given
    <3>4. ASSUME NEW t \in InReach' PROVE context'[t] = org
      <4>1. CASE t = issued' BY <2>2, <3>2, <4>1 DEF Renewed
      <4>2. CASE t # issued'
        <5>1. t \in Tokens /\ key'[t] = "live" BY <1>3
        <5>2. t # c BY <2>2, <5>1 DEF Renewed
        <5>3. key'[t] = key[t] /\ context'[t] = context[t] BY <2>2, <4>2, <5>1, <5>2 DEF Renewed
        <5>4. t \in InReach BY <1>4, <3>3, <4>2, <5>3
        <5> QED BY <5>3, <5>4 DEF AllIn
      <4> QED BY <4>1, <4>2
    <3> QED BY <3>4 DEF AllIn
  <2>3. CASE Given(k, FALSE, NoAccess, NoToken) /\ key' = key /\ context' = context
    <3>1. call'[k].answer.jar = NoToken BY <2>3 DEF Given
    <3>2. ASSUME NEW t \in InReach' PROVE t \in InReach
      <4>1. t # NoToken BY <1>3 DEF Tokens, NoToken
      <4> QED BY <1>4, <2>3, <3>1, <4>1
    <3> QED BY <2>3, <3>2 DEF AllIn
  <2> QED BY <1>5, <1>7, <2>2, <2>3, ServingRefresh
<1>8. CASE ServeLogout(k) BY <1>5, <1>8, ServingLogout
<1>9. CASE ServeOther(k) \/ Refuse(k) \/ ServerError(k)
  <2>1. PICK kind \in {"load", "mount", "switch", "logout", "refresh"}, ok \in BOOLEAN :
           /\ Waiting(k, kind)
           /\ ok => kind \in {"load", "mount"}
           /\ ~ok => IF kind = "refresh" THEN lost' ELSE ~authenticate(k)
    BY <1>9, ServingRest
  <2>2. key' = key /\ context' = context BY <1>9, ServingRest DEF server
  <2>3. Kind(call[k]) # "refresh" BY <2>1 DEF Waiting
  <2> QED BY <1>4, <2>2, <2>3 DEF AllIn
<1> QED BY <1>6, <1>7, <1>8, <1>9 DEF Serve

(* A refresh that is answered tells the organization of its cookie. *)
LEMMA RefreshAnswer ==
    ASSUME TypeInv, NEW k \in Calls, Serve(k), Kind(call[k]) = "refresh", ~lost',
           call'[k].answer.ok
    PROVE  call[k].cookie \in InReach /\ call'[k].answer.org = context[call[k].cookie]
<1>1. ServeRefresh(k)
  <2>1. ~ServeLogin(k) /\ ~ServeSwitch(k) /\ ~ServeLogout(k)
    BY ServingLogin, ServingSwitch, ServingLogout DEF Waiting
  <2>2. ASSUME ServeOther(k) \/ Refuse(k) \/ ServerError(k) PROVE FALSE
    <3>1. PICK kind \in {"load", "mount", "switch", "logout", "refresh"}, ok \in BOOLEAN :
             /\ Waiting(k, kind) /\ Given(k, ok, NoAccess, Keep)
             /\ ok => kind \in {"load", "mount"}
      BY <2>2, ServingRest
    <3>2. call'[k].answer.ok = ok BY <3>1 DEF Given
    <3> QED BY <3>1, <3>2 DEF Waiting
  <2> QED BY <2>1, <2>2 DEF Serve
<1>2. ~Given(k, FALSE, NoAccess, NoToken) BY DEF Given
<1>3. /\ call[k].cookie \in Tokens /\ key[call[k].cookie] = "live"
      /\ Given(k, TRUE, context[call[k].cookie], issued')
  BY <1>1, <1>2, ServingRefresh
<1>4. Active(k) /\ call[k].answer = NoAnswer BY ServerStep
<1> QED BY <1>3, <1>4 DEF InReach, Reaches, Given

(* A step of the browser, other than the arrival of a login, keeps all     *)
(* that is agreed on: a tab takes its new organization from an answer.     *)
LEMMA ClientAgreed ==
    ASSUME TypeInv, Agreed, Apart, ~lost',
           \/ \E k \in Calls : Begin(k) \/ Receive(k) \/ Forget(k)
           \/ \E tab \in Tabs : Expire(tab) \/ Reload(tab),
           \A k \in Calls : ~SignedIn(k)
    PROVE  Agreed'
<1>1. key' = key /\ context' = context BY ClientStep
<1>2. ASSUME NEW k \in Calls, call'[k] # NoCall PROVE Same(k) \/ Resent(k)
  BY <1>2, ClientStep
<1>3. Client BY ClientTabs
<1>4. ASSUME NEW org, AllIn(org) PROVE AllIn(org)' BY <1>4, ClientReach
<1>5. OneOrg' BY <1>4 DEF Agreed, OneOrg
<1>6. ASSUME NEW k \in Calls, NEW kind, Brought(k, kind)'
      PROVE  Same(k) /\ Brought(k, kind)
  BY <1>2, <1>6 DEF Brought, Active, Resent, Same
<1>7. RefreshTells'
  BY <1>4, <1>6 DEF Agreed, RefreshTells, Same
<1>8. ASSUME NEW k \in Calls, Took(k)
      PROVE  /\ Active(k) /\ Kind(call[k]) \in {"refresh", "switch"}
             /\ \A org \in Orgs : org = call[k].answer.org => AllIn(org)'
  <2>1. Active(k) /\ Kind(call[k]) \in {"refresh", "switch"}
    <3>1. Refreshed(k) \/ Switched(k) BY <1>8 DEF Took
    <3> QED BY <1>8, <3>1 DEF Took, Refreshed, Switched, Answered
  <2>2. Brought(k, Kind(call[k])) /\ call[k].answer.org \in Orgs BY <1>8 DEF Took, Brought
  <2>3. \A org \in Orgs : org = call[k].answer.org => AllIn(org)
    BY <2>1, <2>2 DEF Agreed, RefreshTells, SwitchTells, Brought
  <2> QED BY <1>4, <2>1, <2>3
<1>9. SwitchTells'
  <2>1. ASSUME NEW k \in Calls, call'[k] # NoCall, Kind(call'[k]) = "switch"
        PROVE  call'[k].cookie = jar' \/ ~LiveCookie'
    <3>1. CASE Resent(k) BY <2>1, <3>1 DEF Resent
    <3>2. CASE Same(k)
      <4>1. Active(k) /\ Kind(call[k]) = "switch" /\ call'[k].cookie = call[k].cookie
        BY <2>1, <3>2 DEF Same
      <4>2. call[k].cookie = jar \/ ~LiveCookie BY <4>1 DEF Agreed, SwitchTells
      <4>3. jar' \in {jar, NoToken}
        <5>1. ASSUME NEW j \in Calls, Took(j), Kind(call[j]) # "switch" PROVE FALSE
          BY <1>8, <4>1, <5>1 DEF Apart
        <5> QED BY <1>3, <5>1 DEF Client
      <4> QED BY <1>1, <4>1, <4>2, <4>3 DEF LiveCookie, Found
    <3> QED BY <1>2, <2>1, <3>1, <3>2
  <2>2. ASSUME NEW k \in Calls, NEW org \in Orgs, Brought(k, "switch")', call'[k].answer.org = org
        PROVE  AllIn(org)'
    <3>1. Same(k) /\ Brought(k, "switch") BY <1>6, <2>2
    <3>2. AllIn(org) BY <2>2, <3>1 DEF Same, Agreed, SwitchTells, Brought
    <3> QED BY <1>4, <3>2
  <2> QED BY <2>1, <2>2 DEF SwitchTells, Active
<1>10. LoginTells'
  <2>1. ASSUME NEW k \in Calls, Brought(k, "login")'
        PROVE  /\ Same(k) /\ Brought(k, "login")
               /\ key'[call'[k].answer.jar] = "live" =>
                     context'[call'[k].answer.jar] = call'[k].answer.org
    BY <1>1, <1>6, <2>1 DEF Same, Agreed, LoginTells
  <2>2. ASSUME NEW k \in Calls, Brought(k, "login")', NEW tab \in Tabs, tab # call'[k].tab
        PROVE  tab \in behind' \/ access'[tab] = NoAccess
    <3>1. Brought(k, "login") /\ tab # call[k].tab BY <2>1, <2>2 DEF Same
    <3>2. tab \in behind \/ access[tab] = NoAccess BY <3>1 DEF Agreed, LoginTells
    <3>3. ASSUME NEW j \in Calls, Took(j) PROVE call[j].tab # tab
      BY <1>8, <3>1, <3>3 DEF Apart, Brought
    <3> QED BY <1>3, <3>2, <3>3 DEF Client
  <2> QED BY <2>1, <2>2 DEF LoginTells
<1>11. OrphansOut'
  <2>1. ASSUME NEW k \in Calls, call'[k] # NoCall, call'[k].orphan,
               Kind(call'[k]) \in {"switch", "login"}
        PROVE  access'[call'[k].tab] = NoAccess
    <3>1. Same(k) /\ Active(k) BY <1>2, <2>1 DEF Resent, Same
    <3>2. PICK tab \in Tabs : tab = call[k].tab BY <3>1, SMT DEF Same, Running
    <3>3. call[k].orphan \/ access'[tab] = NoAccess BY <1>3, <2>1, <3>1, <3>2 DEF Client
    <3>4. CASE call[k].orphan
      <4>1. access[tab] = NoAccess BY <2>1, <3>1, <3>2, <3>4 DEF Same, Agreed, OrphansOut
      <4>2. ASSUME NEW j \in Calls, Took(j) PROVE FALSE
        <5>1. j # k BY <3>4, <4>2 DEF Took
        <5> QED BY <1>8, <2>1, <3>1, <4>2, <5>1 DEF Apart, Same
      <4> QED BY <1>3, <3>1, <3>2, <4>1, <4>2 DEF Client, Same
    <3> QED BY <3>1, <3>2, <3>3, <3>4 DEF Same
  <2> QED BY <2>1 DEF OrphansOut, Active
<1>12. TabsAgree'
  <2>1. ASSUME NEW tab \in Tabs, NEW org \in Orgs, access'[tab] # NoAccess,
               access'[tab].org = org, tab \notin behind',
               \A k \in Calls : Brought(k, "switch")' \/ Brought(k, "login")' => call'[k].tab # tab
        PROVE  AllIn(org)'
    <3>1. ASSUME NEW k \in Calls, Took(k), call[k].tab = tab PROVE AllIn(org)'
      BY <1>8, <2>1, <3>1 DEF Took
    <3>2. CASE \A k \in Calls : Took(k) => call[k].tab # tab
      <4>1. access[tab] # NoAccess /\ access[tab].org = org /\ tab \notin behind
        BY <1>3, <2>1, <3>2 DEF Client
      <4>2. ASSUME NEW k \in Calls, Brought(k, "switch") \/ Brought(k, "login")
            PROVE  call[k].tab # tab
        <5>1. (call'[k] # NoCall /\ Same(k)) \/ Took(k) BY <1>3, <4>2 DEF Client
        <5>2. CASE Took(k) BY <3>2, <5>2
        <5>3. CASE call'[k] # NoCall /\ Same(k)
          BY <2>1, <4>2, <5>3 DEF Same, Brought, Active
        <5> QED BY <5>1, <5>2, <5>3
      <4>3. AllIn(org) BY <4>1, <4>2 DEF Agreed, TabsAgree
      <4> QED BY <1>4, <4>3
    <3> QED BY <3>1, <3>2
  <2> QED BY <2>1 DEF TabsAgree
<1> QED BY <1>5, <1>7, <1>9, <1>10, <1>11, <1>12 DEF Agreed

(* The arrival of a login: nothing else of the kind is under way, and the  *)
(* other tabs are behind or signed out.                                    *)
LEMMA SignedInAgreed ==
    ASSUME TypeInv, Agreed, Apart, NEW k \in Calls, SignedIn(k)
    PROVE  Agreed'
<1>1. SetAccess(k) /\ End(k) BY DEF SignedIn
<1>2. PICK kind \in {"login"} : Answered(k, kind, TRUE) BY DEF SignedIn
<1>3. /\ Active(k) /\ call[k] \in Running /\ Kind(call[k]) = "login" /\ Brought(k, "login")
      /\ jar' = call[k].answer.jar /\ call[k].answer.org \in Orgs
      /\ key' = key /\ context' = context
  BY <1>2, Arriving DEF Brought
<1> PICK o \in Orgs : o = call[k].answer.org BY <1>3
<1>4. call'[k] = NoCall /\ \A j \in Calls \ {k} : call'[j] = call[j]
  BY <1>1, Ending DEF Ended, TypeInv, CallsTyped
<1>5. ASSUME NEW j \in Calls, call'[j] # NoCall
      PROVE  Kind(call'[j]) \notin {"refresh", "switch", "login"}
  <2>1. j # k /\ Active(j) /\ call'[j] = call[j] BY <1>4, <1>5 DEF Active
  <2> QED BY <1>3, <2>1 DEF Apart
<1>6. AllIn(o)'
  <2>1. ASSUME NEW t \in InReach' PROVE context'[t] = o
    <3>1. t = jar' /\ key'[t] = "live" BY <1>5, <2>1 DEF InReach, Active, Reaches
    <3> QED BY <1>3, <3>1 DEF Agreed, LoginTells
  <2> QED BY <2>1 DEF AllIn
<1>7. OneOrg' BY <1>3, <1>6 DEF OneOrg
<1>8. RefreshTells' /\ SwitchTells' /\ LoginTells' /\ OrphansOut'
  BY <1>5 DEF RefreshTells, SwitchTells, LoginTells, OrphansOut, Brought, Active
<1>9. TabsAgree'
  <2>1. ASSUME NEW tab \in Tabs, NEW org \in Orgs, access'[tab] # NoAccess,
               access'[tab].org = org, tab \notin behind'
        PROVE  org = o
    <3>1. CASE tab = call[k].tab BY <1>1, <1>3, <2>1, <3>1, TokenSet
    <3>2. CASE tab # call[k].tab
      <4>1. access[tab] # NoAccess /\ tab \notin behind BY <1>1, <1>3, <2>1, <3>2, TokenSet
      <4> QED BY <1>3, <3>2, <4>1 DEF Agreed, LoginTells
    <3> QED BY <3>1, <3>2
  <2> QED BY <1>6, <2>1 DEF TabsAgree
<1> QED BY <1>7, <1>8, <1>9 DEF Agreed

(* A handler revives no token: the cookie that works has worked before.    *)
LEMMA ServerLive ==
    ASSUME TypeInv, NEW k \in Calls, Serve(k), NEW t \in 1..issued, t \in Tokens,
           key'[t] = "live"
    PROVE  key[t] = "live" /\ (context'[t] = context[t] \/ ServeSwitch(k))
<1>1. issued \in Nat /\ t # issued + 1 /\ t # NoToken
  BY BrowserAssumption, SMT DEF TypeInv, ServerTyped, NoToken
<1>2. CASE ServeLogin(k)
  <2>1. PICK o \in Orgs : Renewed(o, NoToken) BY <1>2, ServingLogin
  <2> QED BY <1>1, <2>1 DEF Renewed
<1>3. CASE ServeRefresh(k)
  <2>1. \/ Renewed(context[call[k].cookie], call[k].cookie) /\ call[k].cookie \in Tokens
        \/ key' = key /\ context' = context
    BY <1>3, ServingRefresh
  <2> QED BY <1>1, <2>1 DEF Renewed
<1>4. CASE ServeSwitch(k) BY <1>4, ServingSwitch
<1>5. CASE ServeLogout(k) BY <1>5, ServingLogout
<1>6. CASE ServeOther(k) \/ Refuse(k) \/ ServerError(k) BY <1>6, ServingRest DEF server
<1> QED BY <1>2, <1>3, <1>4, <1>5, <1>6 DEF Serve

(* Which handler answers a login, and which a switch-org.                  *)
LEMMA ServedBy ==
    ASSUME TypeInv, NEW k \in Calls, Serve(k)
    PROVE  /\ Kind(call[k]) = "login" => ServeLogin(k)
           /\ Kind(call[k]) = "switch" /\ ~ServeSwitch(k) => ~call'[k].answer.ok
           /\ behind' = behind \/ ServeLogin(k) \/ ServeSwitch(k)
<1>1. CASE ServeLogin(k) BY <1>1, ServingLogin DEF Waiting
<1>2. CASE ServeRefresh(k) BY <1>2, ServingRefresh DEF Waiting
<1>3. CASE ServeSwitch(k) BY <1>3, ServingSwitch DEF Waiting
<1>4. CASE ServeLogout(k) BY <1>4, ServingLogout DEF Waiting
<1>5. CASE ServeOther(k) \/ Refuse(k) \/ ServerError(k)
  <2>1. PICK kind \in {"load", "mount", "switch", "logout", "refresh"}, ok \in BOOLEAN :
           /\ Waiting(k, kind) /\ Given(k, ok, NoAccess, Keep)
           /\ ok => kind \in {"load", "mount"}
    BY <1>5, ServingRest
  <2>2. behind' = behind BY <1>5, ServingRest
  <2>3. Kind(call[k]) = kind /\ call'[k].answer.ok = ok BY <2>1 DEF Waiting, Given
  <2> QED BY <2>1, <2>2, <2>3
<1> QED BY <1>1, <1>2, <1>3, <1>4, <1>5 DEF Serve

(* The handlers other than that of a switch-org.                           *)
LEMMA ServerAgreed ==
    ASSUME TypeInv, Agreed, Apart, ~lost', NEW k \in Calls, Serve(k), ~ServeSwitch(k)
    PROVE  Agreed'
<1>1. /\ jar' = jar /\ access' = access /\ Active(k) /\ call[k].answer = NoAnswer
      /\ call[k] \in Running
      /\ call'[k] # NoCall /\ Kind(call'[k]) = Kind(call[k])
      /\ call'[k].cookie = call[k].cookie /\ call'[k].tab = call[k].tab
      /\ call'[k].orphan = call[k].orphan
      /\ \A j \in Calls \ {k} : call'[j] = call[j]
  BY ServerStep
<1>2. issued \in Nat /\ jar \in 0..issued /\ 1..issued \subseteq Tokens
  BY BrowserAssumption, SMT DEF TypeInv, ServerTyped, Tokens
<1>3. ASSUME NEW org, AllIn(org) PROVE AllIn(org)' BY <1>3, ServerReach
<1>4. OneOrg' BY <1>3 DEF Agreed, OneOrg
<1>5. RefreshTells'
  <2>1. ASSUME NEW j \in Calls, NEW org \in Orgs, Brought(j, "refresh")', call'[j].answer.org = org
        PROVE  AllIn(org)'
    <3>1. CASE j # k
      <4>1. Brought(j, "refresh") /\ call[j].answer.org = org BY <1>1, <2>1, <3>1 DEF Brought, Active
      <4>2. AllIn(org) BY <4>1 DEF Agreed, RefreshTells
      <4> QED BY <1>3, <4>2
    <3>2. CASE j = k
      <4>1. call[k].cookie \in InReach /\ org = context[call[k].cookie]
        BY <1>1, <2>1, <3>2, RefreshAnswer DEF Brought
      <4>2. PICK o \in Orgs \cup {NoAccess} : AllIn(o) BY DEF Agreed, OneOrg
      <4>3. o = org BY <4>1, <4>2 DEF AllIn
      <4> QED BY <1>3, <4>2, <4>3
    <3> QED BY <3>1, <3>2
  <2> QED BY <2>1 DEF RefreshTells
<1>6. SwitchTells'
  <2>1. LiveCookie' => LiveCookie BY <1>1, <1>2, ServerLive DEF LiveCookie, Found, NoToken
  <2>2. ASSUME NEW j \in Calls, call'[j] # NoCall, Kind(call'[j]) = "switch"
        PROVE  /\ Active(j) /\ Kind(call[j]) = "switch" /\ call'[j].cookie = call[j].cookie
    BY <1>1, <2>2 DEF Active
  <2>3. ASSUME NEW j \in Calls, call'[j] # NoCall, Kind(call'[j]) = "switch"
        PROVE  call'[j].cookie = jar' \/ ~LiveCookie'
    BY <1>1, <2>1, <2>2, <2>3 DEF Agreed, SwitchTells
  <2>4. ASSUME NEW j \in Calls, NEW org \in Orgs, Brought(j, "switch")', call'[j].answer.org = org
        PROVE  AllIn(org)'
    <3>1. j # k BY <1>1, <2>4, ServedBy DEF Brought
    <3>2. Brought(j, "switch") /\ call[j].answer.org = org BY <1>1, <2>4, <3>1 DEF Brought, Active
    <3>3. AllIn(org) BY <3>2 DEF Agreed, SwitchTells, Brought
    <3> QED BY <1>3, <3>3
  <2> QED BY <2>3, <2>4 DEF SwitchTells, Active
<1>7. LoginTells'
  <2>1. ASSUME NEW j \in Calls, Brought(j, "login")'
        PROVE  /\ key'[call'[j].answer.jar] = "live" =>
                     context'[call'[j].answer.jar] = call'[j].answer.org
               /\ \A tab \in Tabs \ {call'[j].tab} : tab \in behind' \/ access'[tab] = NoAccess
    <3>1. CASE j # k
      <4>1. Brought(j, "login") /\ call'[j] = call[j] BY <1>1, <2>1, <3>1 DEF Brought, Active
      <4>2. Kind(call[k]) # "login" BY <1>1, <3>1, <4>1 DEF Apart, Brought
      <4>3. behind' = behind BY <4>2, ServedBy, ServingLogin DEF Waiting
      <4>4. call[j].answer.jar \in 1..issued
        BY <4>1 DEF Brought, TypeInv, CallsTyped, Fits, AnswerFits
      <4>5. key'[call[j].answer.jar] = "live" =>
               /\ key[call[j].answer.jar] = "live"
               /\ context'[call[j].answer.jar] = context[call[j].answer.jar]
        BY <1>2, <4>4, ServerLive
      <4> QED BY <1>1, <4>1, <4>3, <4>5 DEF Agreed, LoginTells
    <3>2. CASE j = k
      <4>1. ServeLogin(k) BY <1>1, <2>1, <3>2, ServedBy DEF Brought
      <4>2. PICK o \in Orgs : Renewed(o, NoToken) /\ Given(k, TRUE, o, issued')
        BY <4>1, ServingLogin
      <4>3. behind' = (behind \cup Tabs) \ {call[k].tab} BY <4>1, ServingLogin
      <4> QED BY <1>1, <3>2, <4>2, <4>3 DEF Given, Renewed
    <3> QED BY <3>1, <3>2
  <2> QED BY <2>1 DEF LoginTells
<1>8. OrphansOut'
  <2>1. ASSUME NEW j \in Calls, call'[j] # NoCall
        PROVE  /\ Active(j) /\ call'[j].orphan = call[j].orphan /\ call'[j].tab = call[j].tab
               /\ Kind(call'[j]) = Kind(call[j])
    BY <1>1, <2>1 DEF Active
  <2> QED BY <1>1, <2>1 DEF Agreed, OrphansOut, Active
<1>9. TabsAgree'
  <2>1. ASSUME NEW tab \in Tabs, NEW org \in Orgs, access'[tab] # NoAccess,
               access'[tab].org = org, tab \notin behind',
               \A j \in Calls : Brought(j, "switch")' \/ Brought(j, "login")' => call'[j].tab # tab
        PROVE  AllIn(org)'
    <3>1. CASE ServeLogin(k)
      <4>1. behind' = (behind \cup Tabs) \ {call[k].tab} BY <3>1, ServingLogin
      <4>2. tab = call'[k].tab BY <1>1, <2>1, <4>1
      <4>3. PICK o \in Orgs : Given(k, TRUE, o, issued') BY <3>1, ServingLogin
      <4>4. Brought(k, "login")'
        BY <1>1, <3>1, <4>3, ServingLogin DEF Brought, Active, Given, Waiting
      <4> QED BY <2>1, <4>2, <4>4
    <3>2. CASE ~ServeLogin(k)
      <4>1. behind' = behind BY <3>2, ServedBy
      <4>2. ASSUME NEW j \in Calls, Brought(j, "switch") \/ Brought(j, "login")
            PROVE  call[j].tab # tab
        BY <1>1, <2>1, <4>2 DEF Brought, Active
      <4>3. AllIn(org) BY <1>1, <2>1, <4>1, <4>2 DEF Agreed, TabsAgree
      <4> QED BY <1>3, <4>3
    <3> QED BY <3>1, <3>2
  <2> QED BY <2>1 DEF TabsAgree
<1> QED BY <1>4, <1>5, <1>6, <1>7, <1>8, <1>9 DEF Agreed

(* The handler of a switch-org: it changes the session of the cookie, and  *)
(* leaves every other tab behind.                                          *)
LEMMA SwitchAgreed ==
    ASSUME TypeInv, Agreed, Apart, NEW k \in Calls, ServeSwitch(k)
    PROVE  Agreed'
<1>1. /\ Waiting(k, "switch") /\ call[k].target \in Orgs
      /\ Given(k, TRUE, call[k].target, Keep)
      /\ context' = IF Found(call[k].cookie) = "live"
                    THEN [context EXCEPT ![call[k].cookie] = call[k].target] ELSE context
      /\ behind' = (behind \cup Tabs) \ {call[k].tab}
      /\ key' = key /\ jar' = jar /\ access' = access
  BY ServingSwitch
<1> PICK o \in Orgs : o = call[k].target BY <1>1
<1>2. /\ Active(k) /\ call[k].answer = NoAnswer /\ Kind(call[k]) = "switch"
      /\ call'[k] # NoCall /\ Kind(call'[k]) = "switch" /\ call'[k].cookie = call[k].cookie
      /\ call'[k].tab = call[k].tab /\ call'[k].orphan = call[k].orphan
      /\ call'[k].answer # NoAnswer /\ call'[k].answer.ok /\ call'[k].answer.org = o
      /\ \A j \in Calls \ {k} : call'[j] = call[j]
  BY <1>1 DEF Given, Waiting
<1>3. ASSUME NEW j \in Calls \ {k}, call'[j] # NoCall
      PROVE  Kind(call'[j]) \notin {"refresh", "switch", "login"}
  BY <1>2, <1>3 DEF Apart, Active
<1>4. AllIn(o)'
  <2>1. ASSUME NEW t \in InReach' PROVE context'[t] = o
    <3>1. t = jar /\ key[t] = "live" /\ t \in Tokens
      BY <1>1, <1>2, <1>3, <2>1 DEF InReach, Active, Reaches
    <3>2. LiveCookie /\ jar # NoToken BY <3>1 DEF LiveCookie, Found, Tokens, NoToken
    <3>3. call[k].cookie = t BY <1>2, <3>1, <3>2 DEF Agreed, SwitchTells
    <3> QED BY <1>1, <3>1, <3>2, <3>3 DEF LiveCookie, TypeInv, ServerTyped
  <2> QED BY <2>1 DEF AllIn
<1>5. OneOrg' BY <1>4 DEF OneOrg
<1>6. RefreshTells' /\ LoginTells'
  BY <1>2, <1>3 DEF RefreshTells, LoginTells, Brought, Active
<1>7. SwitchTells'
  <2>1. ASSUME NEW j \in Calls, call'[j] # NoCall, Kind(call'[j]) = "switch" PROVE j = k
    BY <1>3, <2>1
  <2>2. call'[k].cookie = jar' \/ ~LiveCookie'
    BY <1>1, <1>2 DEF Agreed, SwitchTells, LiveCookie, Found
  <2> QED BY <1>2, <1>4, <2>1, <2>2 DEF SwitchTells, Brought, Active
<1>8. OrphansOut'
  <2>1. ASSUME NEW j \in Calls, call'[j] # NoCall
        PROVE  /\ Active(j) /\ call'[j].orphan = call[j].orphan /\ call'[j].tab = call[j].tab
               /\ Kind(call'[j]) = Kind(call[j])
    BY <1>2, <2>1 DEF Active
  <2> QED BY <1>1, <2>1 DEF Agreed, OrphansOut, Active
<1>9. TabsAgree'
  <2>1. Brought(k, "switch")' BY <1>2 DEF Brought, Active
  <2>2. \A tab \in Tabs : tab \notin behind' => call'[k].tab = tab BY <1>1, <1>2
  <2> QED BY <2>1, <2>2 DEF TabsAgree
<1> QED BY <1>5, <1>6, <1>7, <1>8, <1>9 DEF Agreed

(* What is agreed on stays agreed on until an answer is lost or a          *)
(* switch-org or a login overlaps one of them or a refresh.                *)
LEMMA OrgStep ==
    ASSUME TypeInv, OrgInv, [Next]_vars
    PROVE  OrgInv'
<1> SUFFICES ASSUME ~lost', ~Crossed("login")' PROVE Agreed' BY DEF OrgInv
<1>1. ~lost /\ ~Crossed("login") BY GhostsGrow DEF Crossed, Overlapped
<1>2. Agreed /\ Apart BY <1>1, UncrossedApart DEF OrgInv
<1>3. ASSUME NEW k \in Calls, Serve(k) PROVE Agreed'
  BY <1>2, <1>3, ServerAgreed, SwitchAgreed
<1>4. CASE \/ \E k \in Calls : Begin(k) \/ Receive(k) \/ Forget(k)
           \/ \E tab \in Tabs : Expire(tab) \/ Reload(tab)
  BY <1>2, <1>4, ClientAgreed, SignedInAgreed
<1>5. CASE UNCHANGED vars
  BY <1>2, <1>5 DEF vars, server, state, ghosts, Agreed, OneOrg, TabsAgree, RefreshTells,
     SwitchTells, LoginTells, OrphansOut, AllIn, InReach, Brought, Reaches, Active, LiveCookie, Found
<1> QED BY <1>3, <1>4, <1>5 DEF Next

(* Where a load comes from: it was one of the same organization, or it has *)
(* begun in that of its tab.                                               *)
LEMMA LoadFrom ==
    ASSUME TypeInv, NEW k \in Calls, NEW org \in Orgs,
           \/ \E j \in Calls : Begin(j) \/ Receive(j) \/ Forget(j)
           \/ \E tab \in Tabs : Expire(tab) \/ Reload(tab),
           call'[k] # NoCall, call'[k].op = "load", call'[k].org = org
    PROVE  \/ Active(k) /\ call[k].op = "load" /\ call[k].org = org
           \/ /\ \E tab \in Tabs :
                    access[tab] # NoAccess /\ access[tab].org = org /\ tab \notin behind
              /\ \A j \in Calls : Active(j) => {"load", Kind(call[j])} \in overlapped'
<1>1. CASE Begin(k)
  <2>1. PICK tab \in Tabs, op \in Ops, step \in {"entry", "first"},
             target \in Orgs \cup {NoAccess} : Begun(k, tab, op, step, target)
    BY <1>1, Beginning
  <2>2. /\ op = "load" /\ call'[k].step = "first" /\ ~Active(k)
        /\ access[tab] # NoAccess
        /\ org = IF op = "load" /\ tab \notin behind THEN access[tab].org ELSE NoAccess
        /\ \A j \in Calls \ {k} : Active(j) => {Kind(call'[k]), Kind(call[j])} \in overlapped'
    BY <2>1 DEF Begun, Sent
  <2>3. Kind(call'[k]) = "load" BY <2>2 DEF Kind
  <2> QED BY <2>2, <2>3, NothingAssumption
<1>2. CASE Receive(k)
  <2>1. CASE Refreshed(k)
    <3>1. Answered(k, "refresh", TRUE) BY <2>1 DEF Refreshed
    <3> QED BY <2>1, <3>1, Refreshing DEF Sent, Answered
  <2>2. CASE Unauthorized(k)
    <3>1. \E kind \in {"load", "mount", "switch"} : Answered(k, kind, FALSE)
      BY <2>2 DEF Unauthorized
    <3> QED BY <2>2, <3>1, Retrying DEF Sent, Answered
  <2>3. CASE SessionExpired(k) BY <2>3, Expelling DEF Sent, Ended
  <2>4. CASE NotSignedIn(k) \/ Mounted(k) \/ Loaded(k) \/ Switched(k) \/ SignedIn(k)
             \/ LoggedOut(k) \/ Unreachable(k)
    BY <2>4, Leaving, Ending DEF Ended, TypeInv, CallsTyped
  <2> QED BY <1>2, <2>1, <2>2, <2>3, <2>4 DEF Receive
<1>3. CASE Same(k) BY <1>3 DEF Same
<1> QED BY <1>1, <1>2, <1>3, ClientStep DEF Resent

(* A load keeps its organization: while it is under way nobody signs in,   *)
(* and no session of the browser moves to another.                         *)
LEMMA LoadsStep ==
    ASSUME TypeInv, TypeInv', OrgInv, LoadsTell, [Next]_vars
    PROVE  LoadsTell'
<1> SUFFICES ASSUME ~lost', ~Crossed("load")', NEW k \in Calls, NEW org \in Orgs,
                    call'[k] # NoCall, call'[k].op = "load", call'[k].org = org
             PROVE  AllIn(org)' /\ (Brought(k, "refresh")' => call'[k].answer.org = org)
  BY DEF LoadsTell, Active
<1>1. ~lost /\ ~Crossed("load") /\ ~Crossed("login")
  BY GhostsGrow DEF Crossed, Overlapped
<1>2. Agreed BY <1>1 DEF OrgInv
<1>3. ASSUME Active(k), call[k].op = "load", call[k].org = org
      PROVE  /\ AllIn(org) /\ (Brought(k, "refresh") => call[k].answer.org = org)
             /\ \A j \in Calls : Active(j) => Kind(call[j]) \notin {"switch", "login"}
  <2>1. AllIn(org) /\ (Brought(k, "refresh") => call[k].answer.org = org)
    BY <1>1, <1>3 DEF LoadsTell
  <2>2. Kind(call[k]) \in {"load", "refresh"} BY <1>3 DEF Kind
  <2>3. ASSUME NEW j \in Calls, Active(j), Kind(call[j]) \in {"switch", "login"} PROVE FALSE
    <3>1. j # k BY <2>2, <2>3
    <3>2. {Kind(call[j]), Kind(call[k])} \in overlapped
      BY <1>3, <2>3, <3>1 DEF TypeInv, OverlapsKnown
    <3> QED BY <1>1, <2>2, <2>3, <3>2 DEF Crossed, Overlapped
  <2> QED BY <2>1, <2>3
<1>4. ASSUME NEW j \in Calls, Serve(j)
      PROVE  AllIn(org)' /\ (Brought(k, "refresh")' => call'[k].answer.org = org)
  <2>1. /\ Active(k) /\ call[k].op = "load" /\ call[k].org = org
        /\ Kind(call'[k]) = Kind(call[k])
        /\ j # k => call'[k] = call[k]
    BY <1>4, ServerStep DEF Active
  <2>2. ~ServeSwitch(j) BY <1>3, <2>1, ServingSwitch DEF Waiting
  <2>3. AllIn(org) BY <1>3, <2>1
  <2>4. AllIn(org)' BY <1>4, <2>2, <2>3, ServerReach
  <2>5. ASSUME Brought(k, "refresh")' PROVE call'[k].answer.org = org
    <3>1. CASE j # k BY <1>3, <2>1, <2>5, <3>1 DEF Brought
    <3>2. CASE j = k
      <4>1. call[k].cookie \in InReach /\ call'[k].answer.org = context[call[k].cookie]
        BY <1>4, <2>1, <2>5, <3>2, RefreshAnswer DEF Brought
      <4> QED BY <2>3, <4>1 DEF AllIn
    <3> QED BY <3>1, <3>2
  <2> QED BY <2>4, <2>5
<1>5. CASE \/ \E j \in Calls : Begin(j) \/ Receive(j) \/ Forget(j)
           \/ \E tab \in Tabs : Expire(tab) \/ Reload(tab)
  <2>1. /\ AllIn(org)
        /\ \A j \in Calls : Active(j) => Kind(call[j]) \notin {"switch", "login"}
    <3>1. CASE Active(k) /\ call[k].op = "load" /\ call[k].org = org BY <1>3, <3>1
    <3>2. ASSUME NEW tab \in Tabs, access[tab] # NoAccess, access[tab].org = org,
                 tab \notin behind,
                 \A j \in Calls : Active(j) => {"load", Kind(call[j])} \in overlapped'
          PROVE  /\ AllIn(org)
                 /\ \A j \in Calls : Active(j) => Kind(call[j]) \notin {"switch", "login"}
      <4>1. ASSUME NEW j \in Calls, Active(j), Kind(call[j]) \in {"switch", "login"} PROVE FALSE
        <5>1. {Kind(call[j]), "load"} \in overlapped' BY <3>2, <4>1
        <5> QED BY <4>1, <5>1 DEF Crossed, Overlapped
      <4>2. AllIn(org) BY <1>2, <3>2, <4>1 DEF Agreed, TabsAgree, Brought
      <4> QED BY <4>1, <4>2
    <3> QED BY <1>5, <3>1, <3>2, LoadFrom
  <2>2. ASSUME NEW j \in Calls, SignedIn(j) PROVE FALSE
    BY <2>1, <2>2 DEF SignedIn, Answered
  <2>3. AllIn(org)' BY <1>5, <2>1, <2>2, ClientReach
  <2>4. ASSUME Brought(k, "refresh")' PROVE call'[k].answer.org = org
    <3>1. Same(k) BY <1>5, <2>4, ClientStep DEF Resent, Brought
    <3> QED BY <1>3, <2>4, <3>1 DEF Same, Brought
  <2> QED BY <2>3, <2>4
<1>6. CASE UNCHANGED vars
  <2>1. Active(k) /\ call[k].op = "load" /\ call[k].org = org BY <1>6 DEF vars, Active
  <2>2. AllIn(org) /\ (Brought(k, "refresh") => call[k].answer.org = org) BY <1>3, <2>1
  <2> QED BY <1>6, <2>2 DEF vars, server, AllIn, InReach, Brought, Reaches, Active
<1> QED BY <1>4, <1>5, <1>6 DEF Next

-----------------------------------------------------------------------------
(* A tab that waits for nothing and shows a dashboard knows its user, and  *)
(* shows the organization its session is in, unless one of the overlaps    *)
(* named has happened, an answer was lost, or another tab has switched     *)
(* since: whatever the number of tabs and of calls under way.              *)
THEOREM TabsSettle == Spec => []SettledTab
<1>1. Init => UserInv /\ OrgInv
  <2> SUFFICES ASSUME Init PROVE UserInv /\ Agreed BY DEF OrgInv
  <2>1. \A k \in Calls : ~Active(k) BY DEF Init, Active
  <2>2. UserInv BY <2>1 DEF Init, UserInv, TabInv, Of
  <2>3. InReach = {} BY DEF Init, InReach
  <2>4. \A org : AllIn(org) BY <2>3 DEF AllIn
  <2>5. Agreed
    BY <2>1, <2>4 DEF Agreed, OneOrg, TabsAgree, RefreshTells, SwitchTells, LoginTells,
                      OrphansOut, Brought
  <2> QED BY <2>2, <2>5
<1>2. TypeInv /\ UserInv /\ OrgInv => SettledTab
  <2> SUFFICES ASSUME TypeInv, UserInv, OrgInv, NEW tab \in Tabs, Of(tab) = {}, Dashboard(tab)
               PROVE  /\ user[tab] \/ LogoutOverlapped
                      /\ loggedIn /\ LiveCookie =>
                            \/ access[tab].org = context[jar]
                            \/ tab \in behind \/ lost \/ Crossed("login")
    BY DEF SettledTab, LogoutOverlapped
  <2>1. loading[tab] = "loaded" /\ access[tab] # NoAccess BY DEF Dashboard
  <2>2. user[tab] \/ LogoutOverlapped BY <2>1 DEF UserInv, TabInv
  <2>3. ASSUME LiveCookie, tab \notin behind, ~lost, ~Crossed("login")
        PROVE  access[tab].org = context[jar]
    <3>1. Agreed BY <2>3 DEF OrgInv
    <3>2. PICK org \in Orgs : org = access[tab].org
      <4>1. access[tab] \in Access BY <2>1 DEF TypeInv, TabsTyped
      <4> QED BY <4>1 DEF Access
    <3>3. ASSUME NEW k \in Calls, Brought(k, "switch") \/ Brought(k, "login")
          PROVE  call[k].tab # tab
      BY <2>1, <3>1, <3>3 DEF Of, Brought, Agreed, OrphansOut
    <3>4. AllIn(org) BY <2>1, <2>3, <3>1, <3>2, <3>3 DEF Agreed, TabsAgree
    <3>5. jar \in Tokens
      BY <2>3, BrowserAssumption, SMT DEF LiveCookie, Found, TypeInv, ServerTyped, Tokens, NoToken
    <3>6. jar \in InReach BY <2>3, <3>5 DEF LiveCookie, Found, InReach
    <3> QED BY <3>2, <3>4, <3>6 DEF AllIn
  <2> QED BY <2>2, <2>3
<1>3. TypeInv /\ UserInv /\ OrgInv /\ [Next]_vars => UserInv' /\ OrgInv'
  BY UserNext, OrgStep
<1> QED BY <1>1, <1>2, <1>3, TypeInit, TypeNext, PTL DEF Spec

(* A request repeated after a silent refresh is repeated in the            *)
(* organization its page showed when it was made, unless another tab had   *)
(* switched before, the request overlapped a switch-org or a login, or an  *)
(* answer was lost.                                                        *)
THEOREM LoadsKeepTheirOrg == Spec => CallsKeepTheirOrg
<1>1. Init => OrgInv /\ LoadsTell
  <2> SUFFICES ASSUME Init PROVE Agreed /\ LoadsTell BY DEF OrgInv
  <2>1. \A k \in Calls : ~Active(k) BY DEF Init, Active
  <2>2. InReach = {} BY DEF Init, InReach
  <2>3. \A org : AllIn(org) BY <2>2 DEF AllIn
  <2> QED
    BY <2>1, <2>3 DEF Agreed, OneOrg, TabsAgree, RefreshTells, SwitchTells, LoginTells,
                      OrphansOut, Brought, LoadsTell
<1>2. TypeInv /\ TypeInv' /\ OrgInv /\ LoadsTell /\ [Next]_vars => OrgInv' /\ LoadsTell'
  BY OrgStep, LoadsStep
<1>3. TypeInv /\ LoadsTell =>
         [\A k \in Calls :
             /\ Active(k) /\ call[k].op = "load" /\ call[k].step = "refresh" /\ Refreshed(k)
             /\ call[k].org # NoAccess
             => Token(k).org = call[k].org \/ lost \/ Crossed("load")]_vars
  <2> SUFFICES ASSUME TypeInv, LoadsTell, ~lost, ~Crossed("load"), NEW k \in Calls,
                      Active(k), call[k].op = "load", Refreshed(k), call[k].org # NoAccess
               PROVE  Token(k).org = call[k].org
    OBVIOUS
  <2>1. /\ Kind(call[k]) = "refresh" /\ call[k].answer # NoAnswer /\ call[k].answer.ok
    BY DEF Refreshed, Answered
  <2>2. call[k].org \in Orgs BY SMT DEF TypeInv, CallsTyped, Active, Running
  <2>3. call[k].answer.org = call[k].org BY <2>1, <2>2 DEF LoadsTell, Brought
  <2>4. Token(k).org = call[k].answer.org BY Refreshing
  <2> QED BY <2>3, <2>4
<1> QED BY <1>1, <1>2, <1>3, TypeInit, TypeNext, PTL DEF Spec, CallsKeepTheirOrg
=============================================================================
