--------------------------- MODULE SessionsProofs ---------------------------
(***************************************************************************)
(* Proofs about Sessions, for any number of tokens, browsers, contexts and *)
(* concurrently running handlers, and with every fault of Faults.          *)
(*                                                                         *)
(* The argument has three layers, each inductive given the one before.     *)
(*  - What kind of handler is at which label (Carries).                    *)
(*  - Tokens are fresh and change hands once (TokenInv): the token a       *)
(*    handler makes is nobody else's until its answer arrives, cookies     *)
(*    are tokens that have been held, each in one browser, and every two   *)
(*    handlers that run are in overlapped.                                 *)
(*  - One invariant for each property, all of the form "a named overlap    *)
(*    has happened, or ...": what else the property needs to be inductive. *)
(***************************************************************************)
EXTENDS Sessions, FiniteSetTheorems, TLAPS

(* The labels of a handler before it stores its new token.                 *)
PreSet == {"tombstone", "sRem", "set"}

Makes(r) == Busy(r) /\ local[r].op \in {"login", "rotate"}

Rotates(r) == Busy(r) /\ local[r].op = "rotate"

(* The kind of handler that is at a label, and the tokens it works on.     *)
Carries(label, l) ==
    /\ l.op = CASE label \in {"tombstone", "sRem"} -> "rotate"
                [] label \in {"setContext", "answer"} -> "switch"
                [] label \in {"sMembers", "delTokens", "delSet"} -> "wipe"
                [] OTHER -> l.op
    /\ label \in {"set", "sAdd", "setCookie"} => l.op \in {"login", "rotate"}
    /\ label = "clearCookie" => l.op \in {"wipe", "invalid"}
    /\ l.op \in {"login", "rotate"} => l.new \in issued
    /\ l.op \in {"rotate", "switch"} => l.token \in issued
    /\ l.found \subseteq issued

HandlersCarry == \A r \in Requests : Busy(r) => Carries(pc[r], local[r])

TypeInv == TypeOK /\ HandlersCarry

-----------------------------------------------------------------------------
(* Tokens are fresh. *)
IssuedFirst == \A t \in Tokens \ issued : key[t] = "none"

JarsHeld ==
    /\ \A d \in Devices : jar[d] # NoToken => jar[d] \in held
    /\ \A d, b \in Devices : jar[d] # NoToken /\ jar[d] = jar[b] => d = b

TombstonesHeld == \A t \in Tokens : key[t] = "tombstone" => t \in held

NewIsFresh ==
    /\ \A r \in Requests : Makes(r) =>
          local[r].new \notin held /\ (pc[r] \in PreSet => key[local[r].new] = "none")
    /\ \A r, q \in Requests : Makes(r) /\ Makes(q) /\ local[r].new = local[q].new => r = q

TokenWasHeld ==
    \A r \in Requests : Busy(r) /\ local[r].op \in {"rotate", "switch"} => local[r].token \in held

(* The browser whose cookie a refresh exchanges. *)
OwnCookie ==
    \A r \in Requests, d \in Devices :
        Rotates(r) /\ jar[d] = local[r].token => ~local[r].delayed /\ d = local[r].device

OverlapsKnown ==
    \A r, q \in Requests : r # q /\ Busy(r) /\ Busy(q) =>
        /\ Overlapped(local[r].op, local[q].op)
        /\ Rivals(local[r], local[q]) => local[r].token \in raced

TokenInv ==
    /\ IssuedFirst
    /\ JarsHeld
    /\ TombstonesHeld
    /\ NewIsFresh
    /\ TokenWasHeld
    /\ OwnCookie
    /\ OverlapsKnown

-----------------------------------------------------------------------------
(* The token a refresh has exchanged is dead, unless a switch-org on that  *)
(* very token ran beside it.                                               *)
RotatedIsDead ==
    \A r \in Requests : Rotates(r) /\ pc[r] # "tombstone" =>
        \/ key[local[r].token] # "live"
        \/ local[r].token \in raced /\ Overlapped("rotate", "switch")

(* A token has one successor at most, and is dead once it has; it has none *)
(* as long as a refresh is about to make one or a switch-org to revive it. *)
Once(t) ==
    \/ successors[t] = {}
    \/ t \in held /\ key[t] # "live" /\ \E x \in Tokens : successors[t] = {x}

Unspent(r) == (Rotates(r) /\ pc[r] \in PreSet) \/ pc[r] = "setContext"

OnceInv ==
    /\ \A t \in Tokens \ raced : Once(t)
    /\ \A r \in Requests : Unspent(r) => local[r].token \in raced \/ successors[local[r].token] = {}

SwitchIsLive ==
    \/ \E b \in {"rotate", "wipe", "expiry"} : Overlapped("switch", b)
    \/ \A r \in Requests : pc[r] = "setContext" => key[local[r].token] = "live"

ContextInv ==
    \/ Overlapped("rotate", "switch")
    \/ /\ \A t \in LiveTokens : context[t] = wanted[t]
       /\ \A r \in Requests : Rotates(r) /\ pc[r] \in PreSet =>
             local[r].context = wanted[local[r].token]

-----------------------------------------------------------------------------
(* Layer 1: types and labels.                                              *)

(* The data of the rows and cookies, apart from the handlers.              *)
DataTyped ==
    /\ key \in [Tokens -> {"none", "live", "tombstone"}]
    /\ context \in [Tokens -> Contexts \cup {NoContext}]
    /\ members \subseteq issued
    /\ issued \subseteq Tokens
    /\ jar \in [Devices -> issued \cup {NoToken}]
    /\ held \subseteq issued
    /\ successors \in [Tokens -> SUBSET issued]
    /\ wanted \in [Tokens -> Contexts \cup {NoContext}]
    /\ overlapped \subseteq {{a, b} : a, b \in Ops \cup {"expiry"}}
    /\ raced \subseteq issued
    /\ interrupted \in BOOLEAN

SlotsTyped ==
    /\ pc \in [Requests -> Labels]
    /\ local \in [Requests -> Handlers \cup {NoHandler}]
    /\ \A r \in Requests : local[r] \in IF Busy(r) THEN Handlers ELSE {NoHandler}

(* The type of the slots apart from that of the rest.                      *)
LEMMA TypeParts == TypeOK <=> DataTyped /\ SlotsTyped
BY DEF TypeOK, DataTyped, SlotsTyped

(* What a running handler has in hand.                                     *)
LEMMA InHand ==
    ASSUME TypeInv, NEW r \in Requests, Busy(r)
    PROVE  local[r] \in Handlers /\ Carries(pc[r], local[r])
BY DEF TypeInv, TypeOK, HandlersCarry

(* A slot that changes alone.                                              *)
LEMMA SlotsMove ==
    ASSUME TypeInv, NEW r \in Requests, NEW label \in Labels, NEW l,
           IF label = "idle" THEN l = NoHandler ELSE l \in Handlers,
           pc' = [pc EXCEPT ![r] = label], local' = [local EXCEPT ![r] = l]
    PROVE  /\ SlotsTyped'
           /\ pc'[r] = label /\ local'[r] = l
           /\ \A q \in Requests \ {r} : pc'[q] = pc[q] /\ local'[q] = local[q]
<1>1. pc \in [Requests -> Labels] /\ local \in [Requests -> Handlers \cup {NoHandler}]
  BY DEF TypeInv, TypeOK
<1>2. /\ pc' \in [Requests -> Labels] /\ local' \in [Requests -> Handlers \cup {NoHandler}]
      /\ pc'[r] = label /\ local'[r] = l
      /\ \A q \in Requests \ {r} : pc'[q] = pc[q] /\ local'[q] = local[q]
  BY <1>1
<1>3. \A q \in Requests : local'[q] \in IF Busy(q)' THEN Handlers ELSE {NoHandler}
  BY <1>2 DEF Busy, TypeInv, TypeOK
<1> QED
  BY <1>2, <1>3 DEF SlotsTyped

(* What starting a handler changes.                                        *)
LEMMA StartMoves ==
    ASSUME TypeInv, NEW r \in Requests, NEW label \in Labels \ {"idle"}, NEW l \in Handlers,
           Start(r, label, l)
    PROVE  /\ SlotsTyped'
           /\ pc'[r] = label /\ local'[r] = l
           /\ \A q \in Requests \ {r} : pc'[q] = pc[q] /\ local'[q] = local[q]
BY SlotsMove DEF Start

(* What going to the next command changes.                                 *)
LEMMA GotoMoves ==
    ASSUME TypeInv, NEW r \in Requests, Busy(r), NEW label \in Labels, Goto(r, label)
    PROVE  /\ SlotsTyped'
           /\ pc'[r] = label
           /\ local'[r] = IF label = "idle" THEN NoHandler ELSE local[r]
           /\ \A q \in Requests \ {r} : pc'[q] = pc[q] /\ local'[q] = local[q]
<1> DEFINE l == IF label = "idle" THEN NoHandler ELSE local[r]
<1>1. IF label = "idle" THEN l = NoHandler ELSE l \in Handlers
  BY InHand
<1>2. pc' = [pc EXCEPT ![r] = label] /\ local' = [local EXCEPT ![r] = l]
  BY DEF Goto
<1> HIDE DEF l
<1>3. /\ SlotsTyped' /\ pc'[r] = label /\ local'[r] = l
      /\ \A q \in Requests \ {r} : pc'[q] = pc[q] /\ local'[q] = local[q]
  BY ZenonT(40), <1>1, <1>2, SlotsMove
<1> QED
  BY <1>3 DEF l

(* The other handlers go on carrying what they do: issued only grows.      *)
LEMMA CarryOn ==
    ASSUME TypeInv, NEW r \in Requests, issued \subseteq issued',
           \A q \in Requests \ {r} : pc'[q] = pc[q] /\ local'[q] = local[q],
           Busy(r)' => Carries(pc[r], local[r])'
    PROVE  HandlersCarry'
<1>1. ASSUME NEW q \in Requests \ {r}, Busy(q)' PROVE Carries(pc[q], local[q])'
  <2>1. Carries(pc[q], local[q])
    BY <1>1 DEF TypeInv, HandlersCarry, Busy
  <2> QED
    BY <1>1, <2>1 DEF Carries
<1> QED
  BY <1>1 DEF HandlersCarry

(* What a request of the user starts.                                      *)
LEMMA HandlerTyped ==
    ASSUME NEW op \in Ops, NEW d \in Devices, NEW t \in Tokens \cup {NoToken},
           NEW c \in Contexts \cup {NoContext}, NEW new \in Tokens \cup {NoToken},
           NEW delayed \in BOOLEAN, NEW l, l = Handler(op, d, t, c, new, delayed)
    PROVE  /\ l \in Handlers
           /\ l.op = op /\ l.device = d /\ l.token = t /\ l.context = c /\ l.new = new
           /\ l.found = {} /\ l.delayed = delayed
BY DEF Handler, Handlers

(* A slot that starts is typed.                                            *)
LEMMA StartTyped ==
    ASSUME TypeInv, NEW r \in Requests, NEW label \in Labels \ {"idle"}, NEW l \in Handlers,
           Start(r, label, l), issued \subseteq issued', issued' \subseteq Tokens,
           Carries(pc[r], local[r])'
    PROVE  TypeInv'
<1>1. /\ SlotsTyped'
      /\ pc'[r] = label /\ local'[r] = l
      /\ \A q \in Requests \ {r} : pc'[q] = pc[q] /\ local'[q] = local[q]
  BY StartMoves
<1>3. \A q \in Requests : Busy(q) => local[q].op \in Ops
  BY DEF TypeInv, TypeOK, Handlers
<1>4. overlapped' \subseteq {{a, b} : a, b \in Ops \cup {"expiry"}}
  <2>1. l.op \in Ops
    BY DEF Handlers
  <2> QED
    BY <1>3, <2>1 DEF Start, TypeInv, TypeOK
<1>2. raced' \subseteq issued'
  <2>1. ASSUME NEW q \in Requests, Busy(q), Rivals(l, local[q]) PROVE local[q].token \in issued
    <3>1. l.op \in {"rotate", "switch"} /\ local[q].op \in {"rotate", "switch"}
      BY <2>1 DEF Rivals
    <3> QED
      BY <2>1, <3>1 DEF TypeInv, HandlersCarry, Carries
  <2> QED
    BY <2>1 DEF Start, TypeInv, TypeOK
<1>5. DataTyped'
  BY <1>2, <1>4 DEF Start, redis, TypeInv, TypeOK, DataTyped
<1>6. HandlersCarry'
  BY <1>1, CarryOn
<1> QED
  BY <1>1, <1>5, <1>6, TypeParts, PTL DEF TypeInv

(* The four ways a handler begins.                                         *)
Creates(label, l) ==
    /\ label = "set" /\ l.op = "login"
    /\ l.new \in Tokens \ issued /\ issued' = issued \cup {l.new}

Exchanges(label, l) ==
    /\ label = "tombstone" /\ l.op = "rotate"
    /\ l.token \in Tokens /\ key[l.token] = "live" /\ l.context = context[l.token]
    /\ Presented(l.device, l.token, l.delayed)
    /\ l.new \in Tokens \ issued /\ issued' = issued \cup {l.new}

Clears(label, l) ==
    /\ <<label, l.op>> \in {<<"sMembers", "wipe">>, <<"clearCookie", "invalid">>}
    /\ issued' = issued

Switches(label, l) ==
    /\ label = "setContext" /\ l.op = "switch"
    /\ l.token \in Tokens /\ l.token = jar[l.device] /\ key[l.token] = "live"
    /\ issued' = issued

(* Every request that begins starts a handler in a free slot.              *)
LEMMA BeginStarts ==
    ASSUME TypeInv, NEW r \in Requests, Begin(r)
    PROVE  \E label \in Labels \ {"idle"}, l \in Handlers :
              /\ Start(r, label, l) /\ l.found = {}
              /\ Creates(label, l) \/ Exchanges(label, l) \/ Clears(label, l)
                 \/ Switches(label, l)
<1>1. PICK d \in Devices :
        \/ \E c \in Contexts \cup {NoContext}, t \in Tokens : login(r, d, c, t)
        \/ \E t \in Tokens, delayed \in BOOLEAN :
              \/ \E new \in Tokens : refreshLive(r, d, t, delayed, new)
              \/ refreshReused(r, d, t, delayed)
              \/ refreshInvalid(r, d, t, delayed)
        \/ \E c \in Contexts : switchOrg(r, d, c)
        \/ logoutEverywhere(r, d)
  BY DEF Begin
<1> USE DEF Labels, Ops
<1>2. ASSUME NEW c \in Contexts \cup {NoContext}, NEW t \in Tokens, login(r, d, c, t)
      PROVE  \E l \in Handlers : Start(r, "set", l) /\ l.found = {} /\ Creates("set", l)
  <2> DEFINE l == Handler("login", d, NoToken, c, t, FALSE)
  <2>1. l \in Handlers /\ l.op = "login" /\ l.new = t /\ l.found = {}
    BY DEF Handler, Handlers
  <2> QED
    BY <1>2, <2>1 DEF login, Creates
<1>3. ASSUME NEW t \in Tokens, NEW delayed \in BOOLEAN, NEW new \in Tokens,
             refreshLive(r, d, t, delayed, new)
      PROVE  \E l \in Handlers :
                Start(r, "tombstone", l) /\ l.found = {} /\ Exchanges("tombstone", l)
  <2> DEFINE l == Handler("rotate", d, t, context[t], new, delayed)
  <2>1. context[t] \in Contexts \cup {NoContext}
    BY DEF TypeInv, TypeOK
  <2>2. /\ l \in Handlers /\ l.op = "rotate" /\ l.new = new /\ l.found = {} /\ l.token = t
        /\ l.device = d /\ l.context = context[t] /\ l.delayed = delayed
    BY <2>1, HandlerTyped
  <2>3. Start(r, "tombstone", l)
    BY <1>3 DEF refreshLive
  <2> HIDE DEF l
  <2>4. Exchanges("tombstone", l)
    BY <1>3, <2>2 DEF refreshLive, Exchanges
  <2> QED
    BY <2>2, <2>3, <2>4
<1>4. ASSUME NEW t \in Tokens, NEW delayed \in BOOLEAN, refreshReused(r, d, t, delayed)
      PROVE  \E l \in Handlers :
                Start(r, "sMembers", l) /\ l.found = {} /\ Clears("sMembers", l)
  <2> DEFINE l == Handler("wipe", d, t, NoContext, NoToken, delayed)
  <2>1. l \in Handlers /\ l.op = "wipe" /\ l.found = {}
    BY HandlerTyped
  <2> QED
    BY <1>4, <2>1 DEF refreshReused, Clears
<1>5. ASSUME NEW t \in Tokens, NEW delayed \in BOOLEAN, refreshInvalid(r, d, t, delayed)
      PROVE  \E l \in Handlers :
                Start(r, "clearCookie", l) /\ l.found = {} /\ Clears("clearCookie", l)
  <2> DEFINE l == Handler("invalid", d, t, NoContext, NoToken, delayed)
  <2>1. l \in Handlers /\ l.op = "invalid" /\ l.found = {}
    BY HandlerTyped
  <2> QED
    BY <1>5, <2>1 DEF refreshInvalid, Clears
<1>6. ASSUME NEW c \in Contexts, switchOrg(r, d, c)
      PROVE  \E l \in Handlers :
                Start(r, "setContext", l) /\ l.found = {} /\ Switches("setContext", l)
  <2> DEFINE l == Handler("switch", d, jar[d], c, NoToken, FALSE)
  <2>1. jar[d] \in Tokens
    BY <1>6 DEF switchOrg, TypeInv, TypeOK
  <2>2. l \in Handlers /\ l.op = "switch" /\ l.found = {} /\ l.token = jar[d] /\ l.device = d
    BY <2>1 DEF Handler, Handlers
  <2>3. Start(r, "setContext", l)
    BY <1>6 DEF switchOrg
  <2> HIDE DEF l
  <2> QED
    BY <1>6, <2>1, <2>2, <2>3 DEF switchOrg, Switches
<1>7. ASSUME logoutEverywhere(r, d)
      PROVE  \E l \in Handlers :
                Start(r, "sMembers", l) /\ l.found = {} /\ Clears("sMembers", l)
  <2> DEFINE l == Handler("wipe", d, NoToken, NoContext, NoToken, FALSE)
  <2>1. l \in Handlers /\ l.op = "wipe" /\ l.found = {}
    BY DEF Handler, Handlers
  <2> QED
    BY <1>7, <2>1 DEF logoutEverywhere, Clears
<1> QED
  BY <1>1, <1>2, <1>3, <1>4, <1>5, <1>6, <1>7

(* A token that is not "none" in redis has been issued.                    *)
LEMMA BeginTyped ==
    ASSUME TypeInv, IssuedFirst, NEW r \in Requests, Begin(r)
    PROVE  TypeInv'
<1>1. PICK label \in Labels \ {"idle"}, l \in Handlers :
        /\ Start(r, label, l) /\ l.found = {}
        /\ Creates(label, l) \/ Exchanges(label, l) \/ Clears(label, l) \/ Switches(label, l)
  BY BeginStarts
<1>2. issued \subseteq issued' /\ issued' \subseteq Tokens
  BY <1>1 DEF Creates, Exchanges, Clears, Switches, TypeInv, TypeOK
<1>3. Carries(pc[r], local[r])'
  <2>1. pc'[r] = label /\ local'[r] = l
    BY <1>1, StartMoves
  <2> QED
    BY <1>1, <1>2, <2>1 DEF Creates, Exchanges, Clears, Switches, Carries, IssuedFirst
<1> QED
  BY <1>1, <1>2, <1>3, StartTyped

(* The faults keep the types: a stop,                                      *)
LEMMA CrashTyped ==
    ASSUME TypeInv, NEW r \in Requests, Crash(r)
    PROVE  TypeInv'
<1>1. "idle" \in Labels /\ Busy(r) /\ Goto(r, "idle")
  BY DEF Crash, Labels
<1>2. /\ SlotsTyped' /\ pc'[r] = "idle"
      /\ \A q \in Requests \ {r} : pc'[q] = pc[q] /\ local'[q] = local[q]
  BY <1>1, GotoMoves
<1>3. DataTyped'
  BY DEF Crash, redis, DataTyped, TypeInv, TypeOK
<1>4. HandlersCarry'
  BY <1>2, CarryOn DEF Crash, Busy
<1> QED
  BY <1>2, <1>3, <1>4, TypeParts, PTL DEF TypeInv

(* and the end of a TTL.                                                   *)
LEMMA ExpireTyped ==
    ASSUME TypeInv, NEW t \in Tokens, Expire(t)
    PROVE  TypeInv'
<1>1. overlapped' \subseteq {{a, b} : a, b \in Ops \cup {"expiry"}}
  <2>1. \A q \in Requests : Busy(q) => local[q].op \in Ops
    BY DEF TypeInv, TypeOK, Handlers
  <2> QED
    BY <2>1 DEF Expire, TypeInv, TypeOK
<1>2. DataTyped'
  <2>1. /\ key' \in [Tokens -> {"none", "live", "tombstone"}]
        /\ context' \in [Tokens -> Contexts \cup {NoContext}]
    BY DEF Expire, TypeInv, TypeOK
  <2>2. UNCHANGED <<members, issued, jar, held, successors, wanted, raced, interrupted>>
    BY DEF Expire
  <2> QED
    BY <1>1, <2>1, <2>2 DEF DataTyped, TypeInv, TypeOK
<1>3. SlotsTyped' /\ HandlersCarry'
  BY DEF Expire, SlotsTyped, TypeInv, TypeOK, HandlersCarry, Carries, Busy
<1> QED
  BY <1>2, <1>3, TypeParts, PTL DEF TypeInv

(* The label and the data after a step of a running handler.               *)
LEMMA AdvanceTyped ==
    ASSUME TypeInv, NEW r \in Requests, Advance(r)
    PROVE  /\ TypeInv'
           /\ Busy(r)
           /\ \A q \in Requests \ {r} : pc'[q] = pc[q] /\ local'[q] = local[q]
           /\ Busy(r)' => /\ local'[r].op = local[r].op /\ local'[r].new = local[r].new
                          /\ local'[r].token = local[r].token
                          /\ local'[r].device = local[r].device
                          /\ local'[r].delayed = local[r].delayed
                          /\ local'[r].context = local[r].context
<1> DEFINE l == local[r]
<1> USE DEF Labels
<1>1. Busy(r)
  BY DEF Advance, Tombstone, SRem, SetKey, SAdd, SetContext, SMembers, DelTokens, DelSet,
         Answer, Busy
<1>2. l \in Handlers /\ Carries(pc[r], l) /\ issued \subseteq Tokens
  BY <1>1, InHand DEF TypeInv, TypeOK
<1>3. UNCHANGED <<issued, overlapped, raced, interrupted>>
  BY DEF Advance, Tombstone, SRem, SetKey, SAdd, SetContext, SMembers, DelTokens, DelSet,
         Answer, ghosts
<1>4. \E label \in Labels, u \in Handlers \cup {NoHandler} :
         /\ pc' = [pc EXCEPT ![r] = label] /\ local' = [local EXCEPT ![r] = u]
         /\ IF label = "idle" THEN u = NoHandler
            ELSE /\ u \in Handlers /\ Carries(label, u)
                 /\ u.op = l.op /\ u.new = l.new /\ u.token = l.token /\ u.device = l.device
                 /\ u.delayed = l.delayed /\ u.context = l.context
  <2>1. ASSUME NEW label \in Labels, Goto(r, label), label # "idle" => Carries(label, l)
        PROVE  <1>4
    BY <1>2, <2>1 DEF Goto
  <2>2. CASE Tombstone(r) \/ SRem(r) \/ SetKey(r) \/ SAdd(r) \/ SetContext(r)
    BY <1>2, <2>1, <2>2 DEF Tombstone, SRem, SetKey, SAdd, SetContext, Carries
  <2>3. CASE DelTokens(r) \/ DelSet(r) \/ Answer(r)
    BY <1>2, <2>1, <2>3 DEF DelTokens, DelSet, Answer, Carries
  <2>4. CASE SMembers(r)
    <3> DEFINE u == [l EXCEPT !.found = members]
               label == IF members = {} THEN "delSet" ELSE "delTokens"
    <3>1. pc' = [pc EXCEPT ![r] = label] /\ local' = [local EXCEPT ![r] = u]
      BY <1>2, <2>4 DEF SMembers
    <3>2. members \subseteq issued
      BY DEF TypeInv, TypeOK
    <3>3. /\ u \in Handlers /\ u.found = members
          /\ u.op = l.op /\ u.new = l.new /\ u.token = l.token /\ u.device = l.device
          /\ u.delayed = l.delayed /\ u.context = l.context
      BY <1>2, <3>2 DEF Handlers
    <3> HIDE DEF u
    <3>4. Carries(label, u)
      BY <1>2, <2>4, <3>2, <3>3 DEF SMembers, Carries
    <3> QED
      BY <3>1, <3>3, <3>4
  <2> QED
    BY <2>2, <2>3, <2>4 DEF Advance
<1>5. PICK label \in Labels, u \in Handlers \cup {NoHandler} :
         /\ pc' = [pc EXCEPT ![r] = label] /\ local' = [local EXCEPT ![r] = u]
         /\ IF label = "idle" THEN u = NoHandler
            ELSE /\ u \in Handlers /\ Carries(label, u)
                 /\ u.op = l.op /\ u.new = l.new /\ u.token = l.token /\ u.device = l.device
                 /\ u.delayed = l.delayed /\ u.context = l.context
  BY <1>4
<1>6. /\ SlotsTyped' /\ pc'[r] = label /\ local'[r] = u
      /\ \A q \in Requests \ {r} : pc'[q] = pc[q] /\ local'[q] = local[q]
  BY ZenonT(40), <1>5, SlotsMove
<1>7. HandlersCarry'
  <2>1. Busy(r)' => Carries(pc[r], local[r])'
    BY <1>3, <1>5, <1>6 DEF Carries, Busy
  <2> QED
    BY <1>3, <1>6, <2>1, CarryOn
<1>8. DataTyped'
  <2>1. DataTyped
    BY DEF TypeInv, TypeOK, DataTyped
  <2>2. CASE Tombstone(r) \/ SetContext(r)
    BY <1>2, <1>3, <2>1, <2>2
    DEF Tombstone, SetContext, Carries, Handlers, DataTyped, ghosts
  <2>3. CASE SetKey(r)
    BY <1>2, <1>3, <2>1, <2>3 DEF SetKey, Carries, Handlers, DataTyped
  <2>4. CASE SRem(r) \/ SAdd(r) \/ DelSet(r)
    BY <1>2, <1>3, <2>1, <2>4 DEF SRem, SAdd, DelSet, Carries, DataTyped, ghosts
  <2>5. CASE SMembers(r) \/ DelTokens(r)
    BY <1>2, <1>3, <2>1, <2>5 DEF SMembers, DelTokens, DataTyped, redis, ghosts
  <2>6. CASE Answer(r)
    <3>1. Cookie(l, pc[r], jar[l.device]) \in issued \cup {NoToken}
      BY <1>2, <2>1, <2>6 DEF Answer, Cookie, Carries, Handlers, DataTyped
    <3>2. jar' \in [Devices -> issued \cup {NoToken}]
      BY <1>2, <2>1, <2>6, <3>1 DEF Answer, DataTyped
    <3>3. held' \subseteq issued
      BY <2>1, <2>6, <3>2 DEF Answer, DataTyped
    <3> QED
      BY <1>3, <2>1, <2>6, <3>2, <3>3 DEF Answer, DataTyped, redis
  <2> QED
    BY <2>2, <2>3, <2>4, <2>5, <2>6 DEF Advance
<1> QED
  BY <1>1, <1>5, <1>6, <1>7, <1>8 DEF TypeInv, TypeOK, DataTyped, SlotsTyped, Busy

-----------------------------------------------------------------------------
(* Layer 2: tokens.                                                        *)

(* A step that begins no handler keeps what the running ones have in hand. *)
HandlersKeep ==
    \A q \in Requests : Busy(q)' =>
        /\ Busy(q)
        /\ local'[q].op = local[q].op /\ local'[q].new = local[q].new
        /\ local'[q].token = local[q].token /\ local'[q].device = local[q].device
        /\ local'[q].delayed = local[q].delayed /\ local'[q].context = local[q].context
        /\ pc'[q] \in PreSet => pc[q] \in PreSet
        /\ pc'[q] = "setContext" => pc[q] = "setContext"
        /\ pc[q] = "tombstone" => pc'[q] = "tombstone" \/ Tombstone(q)

(* A handler that goes on or stops issues no token.                        *)
LEMMA Keeping ==
    ASSUME TypeInv, NEW r \in Requests, Advance(r) \/ Crash(r)
    PROVE  HandlersKeep /\ issued' = issued /\ Busy(r)
<1>1. CASE Advance(r)
  <2>1. /\ pc'[r] \in PreSet => pc[r] \in PreSet
        /\ pc'[r] # "setContext"
        /\ pc[r] = "tombstone" => Tombstone(r)
    BY <1>1
    DEF Advance, Tombstone, SRem, SetKey, SAdd, SetContext, SMembers, DelTokens, DelSet, Answer,
        Goto, PreSet, TypeInv, TypeOK
  <2>2. issued' = issued
    BY <1>1
    DEF Advance, Tombstone, SRem, SetKey, SAdd, SetContext, SMembers, DelTokens, DelSet, Answer
  <2> QED
    BY <1>1, <2>1, <2>2, AdvanceTyped DEF HandlersKeep, Busy
<1>2. CASE Crash(r)
  <2>1. /\ pc'[r] = "idle" /\ Busy(r)
        /\ \A q \in Requests \ {r} : pc'[q] = pc[q] /\ local'[q] = local[q]
    BY <1>2, GotoMoves DEF Crash, Labels
  <2> QED
    BY <1>2, <2>1 DEF Crash, HandlersKeep, Busy
<1> QED
  BY <1>1, <1>2

(* A request that begins keeps TokenInv,                                   *)
LEMMA BeginTokens ==
    ASSUME TypeInv, TokenInv, NEW r \in Requests, Begin(r)
    PROVE  TokenInv'
<1>1. PICK label \in Labels \ {"idle"}, l \in Handlers :
        /\ Start(r, label, l) /\ l.found = {}
        /\ Creates(label, l) \/ Exchanges(label, l) \/ Clears(label, l) \/ Switches(label, l)
  BY BeginStarts
<1>2. /\ pc'[r] = label /\ local'[r] = l /\ ~Busy(r)
      /\ \A q \in Requests \ {r} : pc'[q] = pc[q] /\ local'[q] = local[q]
  BY <1>1, StartMoves DEF Start, Busy
<1>3. key' = key /\ jar' = jar /\ held' = held /\ context' = context
  BY <1>1 DEF Start, redis
<1>4. held \subseteq issued /\ issued \subseteq Tokens
  BY DEF TypeInv, TypeOK
<1>5. IssuedFirst' /\ JarsHeld' /\ TombstonesHeld'
  <2>1. issued \subseteq issued'
    BY <1>1 DEF Creates, Exchanges, Clears, Switches
  <2> QED
    BY <1>3, <2>1 DEF TokenInv, IssuedFirst, JarsHeld, TombstonesHeld
<1>6. NewIsFresh'
  <2>1. l.op \in {"login", "rotate"} => l.new \in Tokens \ issued
    BY <1>1 DEF Creates, Exchanges, Clears, Switches
  <2>2. \A q \in Requests : Makes(q) => local[q].new \in issued
    BY DEF Makes, TypeInv, HandlersCarry, Carries
  <2>3. ASSUME NEW q \in Requests, Makes(q)'
        PROVE  local'[q].new \notin held' /\ (pc'[q] \in PreSet => key'[local'[q].new] = "none")
    <3>1. CASE q = r
      BY <1>2, <1>3, <1>4, <2>1, <2>3, <3>1 DEF Makes, TokenInv, IssuedFirst
    <3>2. CASE q # r
      BY <1>2, <1>3, <2>3, <3>2 DEF Makes, Busy, TokenInv, NewIsFresh
    <3> QED
      BY <3>1, <3>2
  <2>4. ASSUME NEW p \in Requests, NEW q \in Requests, Makes(p)', Makes(q)',
               local'[p].new = local'[q].new
        PROVE  p = q
    BY <1>2, <2>1, <2>2, <2>4 DEF Makes, Busy, TokenInv, NewIsFresh
  <2> QED
    BY <2>3, <2>4 DEF NewIsFresh
<1>7. l.op \in {"rotate", "switch"} => l.token \in held
  <2>1. l.device \in Devices
    BY DEF Handlers
  <2>2. CASE Exchanges(label, l)
    BY <2>1, <2>2 DEF Exchanges, Presented, TokenInv, JarsHeld
  <2>3. CASE Switches(label, l)
    BY <2>1, <2>3, SessionsAssumption DEF Switches, TokenInv, JarsHeld
  <2> QED
    BY <1>1, <2>2, <2>3 DEF Creates, Clears
<1>8. TokenWasHeld'
  BY <1>2, <1>3, <1>7 DEF TokenInv, TokenWasHeld, Busy
<1>9. OwnCookie'
  <2>1. ASSUME NEW d \in Devices, l.op = "rotate", jar[d] = l.token
        PROVE  ~l.delayed /\ d = l.device
    <3>1. l.device \in Devices /\ l.token \in Tokens /\ Presented(l.device, l.token, l.delayed)
      BY <1>1, <2>1 DEF Handlers, Creates, Exchanges, Clears, Switches
    <3>2. ~l.delayed
      BY <2>1, <3>1 DEF Presented
    <3> QED
      BY <2>1, <3>1, <3>2 DEF Presented, TokenInv, JarsHeld
  <2> QED
    BY <1>2, <1>3, <2>1 DEF TokenInv, OwnCookie, Rotates, Busy
<1>10. OverlapsKnown'
  <2>1. \A q \in Requests : Busy(q) => {l.op, local[q].op} \in overlapped'
    BY <1>1 DEF Start
  <2>2. overlapped \subseteq overlapped' /\ raced \subseteq raced'
    BY <1>1 DEF Start
  <2>3. \A q \in Requests : Busy(q) /\ Rivals(l, local[q]) => local[q].token \in raced'
    BY <1>1 DEF Start
  <2>4. \A k : Rivals(k, l) => Rivals(l, k) /\ k.token = l.token
    BY DEF Rivals
  <2>5. \A k : Rivals(l, k) => k.token = l.token
    BY DEF Rivals
  <2>6. ASSUME NEW p \in Requests, NEW q \in Requests, p # q, Busy(p)', Busy(q)'
        PROVE  /\ {local'[p].op, local'[q].op} \in overlapped'
               /\ Rivals(local'[p], local'[q]) => local'[p].token \in raced'
    <3>1. CASE p = r
      BY <1>2, <2>1, <2>3, <2>5, <2>6, <3>1 DEF Busy
    <3>2. CASE q = r
      BY <1>2, <2>1, <2>3, <2>4, <2>6, <3>2 DEF Busy
    <3>3. CASE p # r /\ q # r
      BY <1>2, <2>2, <2>6, <3>3 DEF Busy, TokenInv, OverlapsKnown, Overlapped
    <3> QED
      BY <3>1, <3>2, <3>3
  <2> QED
    BY <2>6 DEF OverlapsKnown, Overlapped, Rivals
<1> QED
  BY <1>5, <1>6, <1>8, <1>9, <1>10 DEF TokenInv

(* What an answer does to the cookies.                                     *)
LEMMA AnswerJars ==
    ASSUME TypeInv, TokenInv, NEW r \in Requests, Answer(r)
    PROVE  /\ held' = held \/ (Makes(r) /\ held' = held \cup {local[r].new})
           /\ \A d \in Devices : jar'[d] # NoToken => jar'[d] \in held'
           /\ \A d \in Devices :
                 \/ jar'[d] = jar[d] \/ jar'[d] = NoToken
                 \/ d = local[r].device /\ Makes(r) /\ jar'[d] = local[r].new
           /\ jar'[local[r].device] = Cookie(local[r], pc[r], jar[local[r].device])
              \/ (local[r].delayed /\ jar' = jar)
           /\ pc[r] \in {"setCookie", "clearCookie", "answer"}
<1> DEFINE l == local[r]
<1>1. Busy(r) /\ l \in Handlers /\ Carries(pc[r], l)
  BY InHand DEF Answer, Busy
<1>2. pc[r] \in {"setCookie", "clearCookie", "answer"}
  BY DEF Answer
<1>3. pc[r] = "setCookie" => Makes(r) /\ l.new \in Tokens
  BY <1>1 DEF Carries, Makes, TypeInv, TypeOK
<1>4. jar \in [Devices -> issued \cup {NoToken}] /\ l.device \in Devices
  BY <1>1 DEF TypeInv, TypeOK, Handlers
<1>5. \/ /\ jar' = [jar EXCEPT ![l.device] = Cookie(l, pc[r], jar[l.device])]
         /\ jar'[l.device] = Cookie(l, pc[r], jar[l.device])
         /\ \A d \in Devices \ {l.device} : jar'[d] = jar[d]
      \/ l.delayed /\ jar' = jar
  BY <1>4 DEF Answer
<1>6. Cookie(l, pc[r], jar[l.device]) \in {NoToken, jar[l.device]}
      \/ (pc[r] = "setCookie" /\ Cookie(l, pc[r], jar[l.device]) = l.new)
  BY <1>2 DEF Cookie
<1>7. held' = held \cup ({jar'[d] : d \in Devices} \ {NoToken})
  BY DEF Answer
<1>8. \A d \in Devices : jar[d] # NoToken => jar[d] \in held
  BY DEF TokenInv, JarsHeld
<1>9. \A d \in Devices :
         \/ jar'[d] = jar[d] \/ jar'[d] = NoToken
         \/ d = l.device /\ pc[r] = "setCookie" /\ jar'[d] = l.new
  BY <1>4, <1>5, <1>6
<1>10. l.new # NoToken \/ pc[r] # "setCookie"
  BY <1>3, SessionsAssumption
<1>11. held' = held \/ (Makes(r) /\ held' = held \cup {l.new})
  <2>1. CASE pc[r] = "setCookie" /\ jar'[l.device] = l.new
    BY <1>3, <1>4, <1>7, <1>8, <1>9, <1>10, <2>1
  <2>2. CASE ~(pc[r] = "setCookie" /\ jar'[l.device] = l.new)
    BY <1>4, <1>7, <1>8, <1>9, <2>2
  <2> QED
    BY <2>1, <2>2
<1> QED
  BY <1>2, <1>3, <1>4, <1>5, <1>7, <1>9, <1>11

(* What a step of a running handler does to the keys.                      *)
LEMMA AdvanceKeys ==
    ASSUME TypeInv, NEW r \in Requests, Advance(r)
    PROVE  \/ key' = key
           \/ /\ Tombstone(r) /\ local[r].op = "rotate" /\ local[r].token \in Tokens
              /\ key'[local[r].token] = "tombstone"
              /\ \A t \in Tokens \ {local[r].token} : key'[t] = key[t]
           \/ /\ SetKey(r) /\ Makes(r) /\ local[r].new \in Tokens
              /\ key'[local[r].new] = "live"
              /\ \A t \in Tokens \ {local[r].new} : key'[t] = key[t]
           \/ /\ SetContext(r) /\ local[r].op = "switch" /\ local[r].token \in Tokens
              /\ key'[local[r].token] = "live"
              /\ \A t \in Tokens \ {local[r].token} : key'[t] = key[t]
           \/ /\ DelTokens(r)
              /\ \A t \in Tokens : key'[t] = IF t \in local[r].found THEN "none" ELSE key[t]
<1>1. Busy(r)
  BY AdvanceTyped
<1>2. /\ local[r] \in Handlers /\ Carries(pc[r], local[r]) /\ issued \subseteq Tokens
      /\ key \in [Tokens -> {"none", "live", "tombstone"}]
  BY <1>1, InHand DEF TypeInv, TypeOK
<1>3. CASE Tombstone(r)
  BY <1>2, <1>3 DEF Tombstone, Carries
<1>4. CASE SetKey(r)
  BY <1>1, <1>2, <1>4 DEF SetKey, Carries, Makes
<1>5. CASE SetContext(r)
  BY <1>2, <1>5 DEF SetContext, Carries
<1>6. CASE DelTokens(r)
  BY <1>6 DEF DelTokens
<1>7. CASE SRem(r) \/ SAdd(r) \/ SMembers(r) \/ DelSet(r) \/ Answer(r)
  BY <1>7 DEF SRem, SAdd, SMembers, DelSet, Answer, redis
<1> QED
  BY <1>3, <1>4, <1>5, <1>6, <1>7 DEF Advance

(* and so does every later command of it.                                  *)
LEMMA AdvanceTokens ==
    ASSUME TypeInv, TokenInv, NEW r \in Requests, Advance(r)
    PROVE  TokenInv'
<1>1. HandlersKeep /\ issued' = issued /\ Busy(r)
  BY Keeping
<1>2. \A q \in Requests \ {r} : pc'[q] = pc[q] /\ local'[q] = local[q]
  BY AdvanceTyped
<1>3. \A q \in Requests : Busy(q) => Carries(pc[q], local[q])
  BY DEF TypeInv, HandlersCarry
<1>4. held \subseteq issued /\ issued \subseteq Tokens
  BY DEF TypeInv, TypeOK
<1>5. Answer(r) \/ (jar' = jar /\ held' = held)
  BY DEF Advance, Tombstone, SRem, SetKey, SAdd, SetContext, SMembers, DelTokens, DelSet, ghosts
<1>6. Answer(r) => pc'[r] = "idle" /\ ~Busy(r)'
  BY DEF Answer, Goto, TypeInv, TypeOK, Busy
<1>7. /\ held' = held \/ (Makes(r) /\ held' = held \cup {local[r].new} /\ ~Busy(r)')
      /\ held \subseteq held'
  BY <1>5, <1>6, AnswerJars
<1>8. \A q \in Requests : Makes(q)' => Makes(q) /\ local'[q].new = local[q].new
  BY <1>1 DEF HandlersKeep, Makes
<1>9. IssuedFirst'
  <2>1. Makes(r) => local[r].new \in issued
    BY <1>1, <1>3 DEF Carries, Makes
  <2>2. local[r].op \in {"rotate", "switch"} => local[r].token \in issued
    BY <1>1, <1>3 DEF Carries
  <2> QED
    BY <1>1, <2>1, <2>2, AdvanceKeys DEF TokenInv, IssuedFirst
<1>10. JarsHeld'
  <2>1. CASE jar' = jar /\ held' = held
    BY <2>1 DEF TokenInv, JarsHeld
  <2>2. CASE Answer(r)
    <3>1. \A d \in Devices : jar'[d] # NoToken => jar'[d] \in held'
      BY <2>2, AnswerJars
    <3>2. Makes(r) => local[r].new \notin held
      BY DEF TokenInv, NewIsFresh
    <3>3. ASSUME NEW d \in Devices, NEW b \in Devices, jar'[d] # NoToken, jar'[d] = jar'[b]
          PROVE  d = b
      BY <2>2, <3>2, <3>3, AnswerJars DEF TokenInv, JarsHeld
    <3> QED
      BY <3>1, <3>3 DEF JarsHeld
  <2> QED
    BY <1>5, <2>1, <2>2
<1>11. TombstonesHeld'
  <2>1. local[r].op = "rotate" => local[r].token \in held
    BY <1>1 DEF TokenInv, TokenWasHeld
  <2> QED
    BY <1>7, <2>1, AdvanceKeys DEF TokenInv, TombstonesHeld
<1>12. NewIsFresh'
  <2>1. ASSUME NEW q \in Requests, Makes(q)' PROVE local'[q].new \notin held'
    <3>1. Makes(q) /\ local'[q].new = local[q].new /\ local[q].new \notin held
      BY <1>8, <2>1 DEF TokenInv, NewIsFresh
    <3>2. Makes(r) /\ ~Busy(r)' => local[q].new # local[r].new
      BY <2>1, <3>1 DEF TokenInv, NewIsFresh, Makes
    <3> QED
      BY <1>7, <3>1, <3>2
  <2>2. ASSUME NEW q \in Requests, Makes(q)', pc'[q] \in PreSet
        PROVE  key'[local'[q].new] = "none"
    <3>1. /\ Makes(q) /\ local'[q].new = local[q].new /\ pc[q] \in PreSet
          /\ local[q].new \notin held /\ key[local[q].new] = "none"
      BY <1>1, <1>8, <2>2 DEF TokenInv, NewIsFresh, HandlersKeep, Makes
    <3>2. local[q].new \in Tokens
      BY <1>3, <1>4, <3>1 DEF Carries, Makes
    <3>3. local[r].op \in {"rotate", "switch"} => local[r].token \in held
      BY <1>1 DEF TokenInv, TokenWasHeld
    <3>4. SetKey(r) => q # r
      <4>1. SetKey(r) => pc'[r] = "sAdd"
        BY DEF SetKey, Goto, TypeInv, TypeOK
      <4> QED
        BY <2>2, <4>1 DEF PreSet
    <3>5. Makes(r) /\ q # r => local[q].new # local[r].new
      BY <3>1 DEF TokenInv, NewIsFresh
    <3> QED
      BY <3>1, <3>2, <3>3, <3>4, <3>5, AdvanceKeys
  <2>3. \A p, q \in Requests : Makes(p)' /\ Makes(q)' /\ local'[p].new = local'[q].new => p = q
    BY <1>8 DEF TokenInv, NewIsFresh
  <2> QED
    BY <2>1, <2>2, <2>3 DEF NewIsFresh
<1>13. TokenWasHeld'
  BY <1>1, <1>7 DEF TokenInv, TokenWasHeld, HandlersKeep
<1>14. OwnCookie'
  <2>1. ASSUME NEW q \in Requests, NEW d \in Devices, Rotates(q)', jar'[d] = local'[q].token
        PROVE  ~local'[q].delayed /\ d = local'[q].device
    <3>1. /\ Rotates(q) /\ local'[q].token = local[q].token
          /\ local'[q].delayed = local[q].delayed /\ local'[q].device = local[q].device
      BY <1>1, <2>1 DEF HandlersKeep, Rotates
    <3>2. local[q].token \in held /\ local[q].token # NoToken
      BY <1>4, <3>1, SessionsAssumption DEF TokenInv, TokenWasHeld, Rotates
    <3>3. jar'[d] = jar[d]
      <4>1. Makes(r) => local[r].new \notin held
        BY DEF TokenInv, NewIsFresh
      <4> QED
        BY <1>5, <2>1, <3>1, <3>2, <4>1, AnswerJars
    <3> QED
      BY <2>1, <3>1, <3>3 DEF TokenInv, OwnCookie
  <2> QED
    BY <2>1 DEF OwnCookie
<1>15. OverlapsKnown'
  <2>1. overlapped' = overlapped /\ raced' = raced
    BY DEF Advance, Tombstone, SRem, SetKey, SAdd, SetContext, SMembers, DelTokens, DelSet,
           Answer, ghosts
  <2>2. ASSUME NEW p \in Requests, NEW q \in Requests, p # q, Busy(p)', Busy(q)'
        PROVE  (/\ Overlapped(local[p].op, local[q].op)
                /\ Rivals(local[p], local[q]) => local[p].token \in raced)'
    <3>1. /\ Busy(p) /\ local'[p].op = local[p].op /\ local'[p].token = local[p].token
          /\ Busy(q) /\ local'[q].op = local[q].op /\ local'[q].token = local[q].token
      BY <1>1, <2>2 DEF HandlersKeep
    <3> QED
      BY <2>1, <2>2, <3>1 DEF TokenInv, OverlapsKnown, Overlapped, Rivals
  <2> QED
    BY <2>2 DEF OverlapsKnown
<1> QED
  BY <1>9, <1>10, <1>11, <1>12, <1>13, <1>14, <1>15 DEF TokenInv

(* TokenInv is inductive,                                                  *)
LEMMA TokenInductive ==
    TypeInv /\ TokenInv /\ [Next]_vars => TypeInv' /\ TokenInv'
<1> SUFFICES ASSUME TypeInv, TokenInv, [Next]_vars PROVE TypeInv' /\ TokenInv'
  OBVIOUS
<1>1. ASSUME NEW r \in Requests, Begin(r) PROVE TypeInv' /\ TokenInv'
  BY <1>1, BeginTyped, BeginTokens DEF TokenInv
<1>2. ASSUME NEW r \in Requests, Advance(r) PROVE TypeInv' /\ TokenInv'
  BY <1>2, AdvanceTyped, AdvanceTokens
<1>3. ASSUME NEW r \in Requests, Crash(r) PROVE TypeInv' /\ TokenInv'
  <2>1. HandlersKeep
    BY <1>3, Keeping
  <2>2. UNCHANGED <<key, issued, jar, held, overlapped, raced>>
    BY <1>3 DEF Crash, redis
  <2>3. IssuedFirst' /\ JarsHeld' /\ TombstonesHeld'
    BY <2>2 DEF TokenInv, IssuedFirst, JarsHeld, TombstonesHeld
  <2>4. NewIsFresh' /\ TokenWasHeld'
    BY <2>1, <2>2 DEF TokenInv, NewIsFresh, TokenWasHeld, Makes, HandlersKeep
  <2>5. OwnCookie' /\ OverlapsKnown'
    BY SMTT(30), <2>1, <2>2 DEF TokenInv, OwnCookie, OverlapsKnown, Overlapped, Rivals, Rotates, HandlersKeep
  <2> QED
    BY <1>3, <2>3, <2>4, <2>5, CrashTyped DEF TokenInv
<1>4. ASSUME NEW t \in Tokens, Expire(t) PROVE TypeInv' /\ TokenInv'
  <2>1. /\ UNCHANGED <<issued, jar, held, pc, local, raced>> /\ overlapped \subseteq overlapped'
        /\ \A s \in Tokens : key'[s] = key[s] \/ key'[s] = "none"
    BY <1>4 DEF Expire, TypeInv, TypeOK
  <2>2. IssuedFirst' /\ JarsHeld' /\ TombstonesHeld'
    BY <2>1 DEF TokenInv, IssuedFirst, JarsHeld, TombstonesHeld
  <2>3. \A r \in Requests : Makes(r) => local[r].new \in Tokens
    BY DEF TypeInv, TypeOK, HandlersCarry, Carries, Makes
  <2>4. NewIsFresh' /\ TokenWasHeld'
    BY <2>1, <2>3 DEF TokenInv, NewIsFresh, TokenWasHeld, Makes, Busy
  <2>5. OwnCookie' /\ OverlapsKnown'
    BY <2>1 DEF TokenInv, OwnCookie, OverlapsKnown, Overlapped, Rivals, Rotates, Busy
  <2> QED
    BY <1>4, <2>2, <2>4, <2>5, ExpireTyped DEF TokenInv
<1>5. CASE UNCHANGED vars
  <2>1. TypeInv'
    <3>1. DataTyped' /\ SlotsTyped'
      <4>1. DataTyped /\ SlotsTyped
        BY TypeParts DEF TypeInv
      <4>2. DataTyped'
        BY <1>5, <4>1 DEF vars, redis, ghosts, DataTyped
      <4>3. SlotsTyped'
        BY <1>5, <4>1 DEF vars, SlotsTyped, Busy
      <4> QED
        BY <4>2, <4>3
    <3>2. HandlersCarry'
      BY <1>5 DEF vars, redis, TypeInv, HandlersCarry, Carries, Busy
    <3> QED
      BY <3>1, <3>2, TypeParts, PTL DEF TypeInv
  <2>2. TokenInv'
    BY <1>5
    DEF vars, redis, ghosts, TokenInv, IssuedFirst, JarsHeld, TombstonesHeld, NewIsFresh,
        TokenWasHeld, OwnCookie, OverlapsKnown, Overlapped, Rivals, Makes, Rotates, Busy
  <2> QED
    BY <2>1, <2>2
<1> QED
  BY <1>1, <1>2, <1>3, <1>4, <1>5 DEF Next

(* and holds of every reachable state.                                     *)
LEMMA TokensHold == Spec => [](TypeInv /\ TokenInv)
<1>1. ASSUME Init PROVE TypeInv
  <2>1. DataTyped
    <3>1. /\ key \in [Tokens -> {"none", "live", "tombstone"}]
          /\ context \in [Tokens -> Contexts \cup {NoContext}]
          /\ wanted \in [Tokens -> Contexts \cup {NoContext}]
          /\ jar \in [Devices -> issued \cup {NoToken}]
          /\ successors \in [Tokens -> SUBSET issued]
          /\ interrupted \in BOOLEAN
      BY <1>1 DEF Init
    <3>2. /\ members \subseteq issued /\ issued \subseteq Tokens /\ held \subseteq issued
          /\ overlapped \subseteq {{a, b} : a, b \in Ops \cup {"expiry"}}
          /\ raced \subseteq issued
      BY <1>1 DEF Init
    <3> QED
      BY <3>1, <3>2 DEF DataTyped
  <2>2. SlotsTyped /\ HandlersCarry
    BY <1>1 DEF Init, SlotsTyped, HandlersCarry, Busy, Labels
  <2> QED
    BY <2>1, <2>2, TypeParts DEF TypeInv
<1>2. ASSUME Init PROVE TokenInv
  BY <1>2
  DEF Init, TokenInv, IssuedFirst, JarsHeld, TombstonesHeld, NewIsFresh, TokenWasHeld, OwnCookie,
      OverlapsKnown, Makes, Rotates, Busy
<1> QED
  BY <1>1, <1>2, TokenInductive, PTL DEF Spec

(* Every variable of every reachable state has its type: in particular     *)
(* every cookie, set member and successor is a token that was issued, and  *)
(* an answer never sets the cookie to a token no handler made.             *)
THEOREM TypeCorrect == Spec => []TypeOK
BY TokensHold, PTL DEF TypeInv

-----------------------------------------------------------------------------
(* Layer 3: the properties.                                                *)

(* What has happened has happened.                                         *)
LEMMA EscapesStay ==
    ASSUME [Next]_vars
    PROVE  overlapped \subseteq overlapped' /\ raced \subseteq raced' /\ (interrupted => interrupted')
<1>1. ASSUME NEW r \in Requests, Begin(r)
      PROVE  /\ overlapped \subseteq overlapped' /\ raced \subseteq raced'
             /\ interrupted' = interrupted
  <2>1. \E label, l : Start(r, label, l)
    BY <1>1, Zenon
    DEF Begin, login, refreshLive, refreshReused, refreshInvalid, switchOrg, logoutEverywhere
  <2> QED
    BY <2>1 DEF Start
<1>2. ASSUME NEW r \in Requests, Advance(r)
      PROVE  UNCHANGED <<overlapped, raced, interrupted>>
  BY <1>2
  DEF Advance, Tombstone, SRem, SetKey, SAdd, SetContext, SMembers, DelTokens, DelSet, Answer,
      ghosts
<1>3. ASSUME NEW r \in Requests, Crash(r) PROVE UNCHANGED <<overlapped, raced>> /\ interrupted'
  BY <1>3 DEF Crash
<1>4. ASSUME NEW t \in Tokens, Expire(t)
      PROVE  /\ overlapped \subseteq overlapped' /\ raced \subseteq raced'
             /\ interrupted' = interrupted
  BY <1>4 DEF Expire
<1>5. CASE UNCHANGED vars
  BY <1>5 DEF vars, ghosts
<1> QED
  BY <1>1, <1>2, <1>3, <1>4, <1>5 DEF Next

(* A step of a handler either answers or leaves it running.                *)
LEMMA GoesOn ==
    ASSUME TypeInv, NEW r \in Requests, Advance(r)
    PROVE  IF Answer(r) THEN key' = key /\ ~Busy(r)'
                        ELSE jar' = jar /\ held' = held /\ Busy(r)'
<1>1. pc \in [Requests -> Labels]
  BY DEF TypeInv, TypeOK
<1>2. CASE Answer(r)
  BY <1>1, <1>2 DEF Answer, Goto, redis, Busy
<1>3. CASE Tombstone(r) \/ SRem(r) \/ SetKey(r) \/ SAdd(r) \/ SetContext(r) \/ SMembers(r)
           \/ DelTokens(r) \/ DelSet(r)
  <2>1. ~Answer(r)
    BY <1>3
    DEF Tombstone, SRem, SetKey, SAdd, SetContext, SMembers, DelTokens, DelSet, Answer
  <2> QED
    BY <1>1, <1>3, <2>1
    DEF Tombstone, SRem, SetKey, SAdd, SetContext, SMembers, DelTokens, DelSet, Goto, ghosts, Busy
<1> QED
  BY <1>2, <1>3 DEF Advance

(* Every step keeps the cookies fresh.                                     *)
LEMMA CookieInductive ==
    ASSUME TypeInv, TokenInv, NoStaleCookie, [Next]_vars
    PROVE  NoStaleCookie'
<1>1. CASE UNCHANGED vars
  BY <1>1 DEF vars, redis, ghosts, NoStaleCookie, Busy
<1>2. ASSUME NEW r \in Requests, Begin(r) PROVE NoStaleCookie'
  <2>1. PICK label \in Labels \ {"idle"}, l \in Handlers : Start(r, label, l)
    BY <1>2, BeginStarts
  <2>2. /\ ~Busy(r) /\ key' = key /\ jar' = jar /\ interrupted' = interrupted
        /\ \A q \in Requests \ {r} : pc'[q] = pc[q] /\ local'[q] = local[q]
    BY <2>1, StartMoves DEF Start, redis, Busy
  <2> QED
    BY <2>2 DEF NoStaleCookie, Busy
<1>3. ASSUME NEW r \in Requests, Crash(r) PROVE NoStaleCookie'
  BY <1>3 DEF Crash, NoStaleCookie
<1>4. ASSUME NEW t \in Tokens, Expire(t) PROVE NoStaleCookie'
  <2>1. \A s \in Tokens : key'[s] = key[s] \/ key'[s] = "none"
    BY <1>4 DEF Expire, TypeInv, TypeOK
  <2>2. \A d \in Devices : jar[d] # NoToken => jar[d] \in Tokens
    BY DEF TypeInv, TypeOK
  <2> QED
    BY <1>4, <2>1, <2>2 DEF Expire, NoStaleCookie, Busy
<1>5. ASSUME NEW r \in Requests, Advance(r) PROVE NoStaleCookie'
  <2>1. interrupted' = interrupted
    BY <1>5
    DEF Advance, Tombstone, SRem, SetKey, SAdd, SetContext, SMembers, DelTokens, DelSet, Answer,
        ghosts
  <2> SUFFICES ASSUME ~interrupted, NEW d \in Devices, jar'[d] # NoToken,
                      key'[jar'[d]] = "tombstone"
               PROVE  \E q \in Requests :
                         Busy(q)' /\ local'[q].op = "rotate" /\ local'[q].token = jar'[d]
    BY <2>1 DEF NoStaleCookie
  <2>2. \A q \in Requests \ {r} : pc'[q] = pc[q] /\ local'[q] = local[q]
    BY <1>5, AdvanceTyped
  <2>3. /\ Busy(r) /\ local[r] \in Handlers /\ Carries(pc[r], local[r])
        /\ Busy(r)' => local'[r].op = local[r].op /\ local'[r].token = local[r].token
    BY <1>5, AdvanceTyped, InHand
  <2>4. /\ jar[d] # NoToken => jar[d] \in held /\ jar[d] \in Tokens
        /\ held \subseteq Tokens
    BY DEF TokenInv, JarsHeld, TypeInv, TypeOK
  <2>5. CASE Answer(r)
    <3>1. key' = key
      BY <1>5, <2>5, GoesOn
    <3>2. Makes(r) => local[r].new \notin held /\ key[local[r].new] # "tombstone"
      <4>1. Makes(r) => local[r].new \in Tokens
        BY <2>3 DEF Makes, Carries, TypeInv, TypeOK
      <4> QED
        BY <4>1 DEF TokenInv, NewIsFresh, TombstonesHeld
    <3>3. jar'[d] = jar[d]
      BY <2>5, <3>1, <3>2, AnswerJars
    <3>4. PICK q \in Requests : Busy(q) /\ local[q].op = "rotate" /\ local[q].token = jar[d]
      BY <3>1, <3>3 DEF NoStaleCookie
    <3>5. q # r
      <4> SUFFICES ASSUME q = r PROVE FALSE
        OBVIOUS
      <4>1. ~local[r].delayed /\ d = local[r].device
        BY <3>4 DEF TokenInv, OwnCookie, Rotates
      <4>2. pc[r] = "setCookie"
        BY <2>3, <2>5, <3>4, AnswerJars DEF Carries
      <4>3. jar'[d] = local[r].new
        BY <2>5, <4>1, <4>2, AnswerJars DEF Cookie
      <4>4. Makes(r)
        BY <3>4 DEF Makes
      <4> QED
        BY <2>4, <3>2, <3>3, <4>3, <4>4
    <3> QED
      BY <2>2, <3>3, <3>4, <3>5 DEF Busy
  <2>6. CASE ~Answer(r)
    <3>1. jar' = jar /\ Busy(r)'
      BY <1>5, <2>6, GoesOn
    <3>2. CASE key[jar[d]] = "tombstone"
      <4>1. PICK q \in Requests : Busy(q) /\ local[q].op = "rotate" /\ local[q].token = jar[d]
        BY <3>1, <3>2 DEF NoStaleCookie
      <4> QED
        BY <2>2, <2>3, <3>1, <4>1 DEF Busy
    <3>3. CASE key[jar[d]] # "tombstone"
      <4>1. local[r].op = "rotate" /\ local[r].token = jar[d]
        BY <1>5, <2>4, <3>1, <3>3, AdvanceKeys
      <4> QED
        BY <2>3, <3>1, <4>1
    <3> QED
      BY <3>2, <3>3
  <2> QED
    BY <2>5, <2>6
<1> QED
  BY <1>1, <1>2, <1>3, <1>4, <1>5 DEF Next

(* However handlers overlap, requests arrive late and keys expire: only a  *)
(* lost answer or a refresh that is still running leaves a browser with a  *)
(* cookie the server takes for reused.  It rests on each token being in    *)
(* one browser only (JarsHeld) and on OwnCookie.                           *)
THEOREM CookiesAreFresh == Spec => []NoStaleCookie
<1>1. Init => NoStaleCookie
  BY DEF Init, NoStaleCookie
<1> QED
  BY <1>1, CookieInductive, TokensHold, PTL DEF Spec

(* What holds of two handlers that run together without the overlap.       *)
LEMMA NotTogether ==
    ASSUME TokenInv, NEW r \in Requests, NEW q \in Requests, Busy(r), Busy(q),
           local[r].op # local[q].op
    PROVE  Overlapped(local[r].op, local[q].op)
BY DEF TokenInv, OverlapsKnown

(* The token a handler makes is not one that another exchanges or switches. *)
LEMMA NewIsNotOld ==
    ASSUME TokenInv, NEW r \in Requests, NEW q \in Requests, Makes(r),
           Busy(q), local[q].op \in {"rotate", "switch"}
    PROVE  local[q].token # local[r].new
BY DEF TokenInv, NewIsFresh, TokenWasHeld

(* What a step that begins a handler leaves alone.                         *)
LEMMA BeginsQuietly ==
    ASSUME TypeInv, NEW r \in Requests, Begin(r)
    PROVE  /\ ~Busy(r)
           /\ UNCHANGED <<key, context, members, jar, held, successors, wanted, interrupted>>
           /\ \A q \in Requests \ {r} : pc'[q] = pc[q] /\ local'[q] = local[q]
           /\ \E l \in Handlers :
                 /\ local'[r] = l
                 /\ \/ pc'[r] = "set" /\ l.op = "login"
                    \/ pc'[r] = "tombstone" /\ Exchanges("tombstone", l) /\ l.op = "rotate"
                    \/ pc'[r] = "sMembers" /\ l.op = "wipe"
                    \/ pc'[r] = "clearCookie" /\ l.op = "invalid"
                    \/ pc'[r] = "setContext" /\ Switches("setContext", l) /\ l.op = "switch"
<1>1. PICK label \in Labels \ {"idle"}, l \in Handlers :
        /\ Start(r, label, l)
        /\ Creates(label, l) \/ Exchanges(label, l) \/ Clears(label, l) \/ Switches(label, l)
  BY BeginStarts
<1>2. /\ pc'[r] = label /\ local'[r] = l
      /\ \A q \in Requests \ {r} : pc'[q] = pc[q] /\ local'[q] = local[q]
  BY <1>1, StartMoves
<1>3. /\ ~Busy(r)
      /\ UNCHANGED <<key, context, members, jar, held, successors, wanted, interrupted>>
  BY <1>1 DEF Start, Busy, redis
<1>4. \/ label = "set" /\ l.op = "login"
      \/ label = "tombstone" /\ Exchanges("tombstone", l) /\ l.op = "rotate"
      \/ label = "sMembers" /\ l.op = "wipe"
      \/ label = "clearCookie" /\ l.op = "invalid"
      \/ label = "setContext" /\ Switches("setContext", l) /\ l.op = "switch"
  BY <1>1 DEF Creates, Exchanges, Clears, Switches
<1> QED
  BY <1>2, <1>3, <1>4

(* Every step keeps RotatedIsDead.                                         *)
LEMMA DeadInductive ==
    ASSUME TypeInv, TokenInv, RotatedIsDead, [Next]_vars
    PROVE  RotatedIsDead'
<1> SUFFICES ASSUME NEW q \in Requests, Rotates(q)', pc'[q] # "tombstone",
                    ~(local'[q].token \in raced' /\ Overlapped("rotate", "switch")')
             PROVE  key'[local'[q].token] # "live"
  BY DEF RotatedIsDead
<1>1. \A p \in Requests : Rotates(p) /\ pc[p] # "tombstone" /\ local[p].token = local'[q].token
                            => key[local[p].token] # "live"
  BY EscapesStay DEF RotatedIsDead, Overlapped
<1>2. ASSUME NEW r \in Requests, Begin(r) PROVE key'[local'[q].token] # "live"
  BY <1>1, <1>2, BeginsQuietly DEF Rotates, Busy
<1>3. ASSUME NEW r \in Requests, Crash(r) PROVE key'[local'[q].token] # "live"
  <2>1. /\ pc'[r] = "idle"
        /\ \A p \in Requests \ {r} : pc'[p] = pc[p] /\ local'[p] = local[p]
    BY <1>3, GotoMoves DEF Crash, Labels
  <2> QED
    BY <1>1, <1>3, <2>1 DEF Crash, redis, Rotates, Busy
<1>4. ASSUME NEW t \in Tokens, Expire(t) PROVE key'[local'[q].token] # "live"
  <2>1. \A s \in Tokens : key'[s] = key[s] \/ key'[s] = "none"
    BY <1>4 DEF Expire, TypeInv, TypeOK
  <2>2. pc' = pc /\ local' = local
    BY <1>4 DEF Expire
  <2>3. local[q].token \in Tokens
    BY <2>2 DEF Rotates, Busy, TypeInv, TypeOK, HandlersCarry, Carries
  <2> QED
    BY <1>1, <2>1, <2>2, <2>3 DEF Rotates, Busy
<1>5. ASSUME NEW r \in Requests, Advance(r) PROVE key'[local'[q].token] # "live"
  <2>1. HandlersKeep /\ Busy(r)
    BY <1>5, Keeping
  <2>2. /\ Rotates(q) /\ local'[q].token = local[q].token
        /\ pc[q] = "tombstone" => Tombstone(q)
    BY <2>1 DEF HandlersKeep, Rotates
  <2>3. local[q].token \in Tokens /\ local[q].op = "rotate" /\ Busy(q)
    BY <2>2 DEF Rotates, TypeInv, TypeOK, HandlersCarry, Carries
  <2>4. CASE pc[q] = "tombstone"
    <3>1. key' = [key EXCEPT ![local[q].token] = "tombstone"]
      BY <2>2, <2>4 DEF Tombstone
    <3> QED
      BY <2>2, <2>3, <3>1 DEF TypeInv, TypeOK
  <2>5. CASE pc[q] # "tombstone"
    <3>1. key[local[q].token] # "live"
      BY <1>1, <2>2, <2>5
    <3>2. Makes(r) => local[q].token # local[r].new
      BY <2>3, NewIsNotOld
    <3>3. local[r].op = "switch" => local[r].token # local[q].token
      <4> SUFFICES ASSUME local[r].op = "switch", local[r].token = local[q].token PROVE FALSE
        OBVIOUS
      <4>1. Overlapped("rotate", "switch") /\ local[q].token \in raced
        BY <2>1, <2>3 DEF TokenInv, OverlapsKnown, Overlapped, Rivals
      <4> QED
        BY <2>2, <4>1, EscapesStay DEF Overlapped
    <3> QED
      BY <1>5, <2>2, <2>3, <3>1, <3>2, <3>3, AdvanceKeys
  <2> QED
    BY <2>4, <2>5
<1>6. CASE UNCHANGED vars
  BY <1>1, <1>6 DEF vars, redis, Rotates, Busy
<1> QED
  BY <1>2, <1>3, <1>4, <1>5, <1>6 DEF Next

(* What a stop changes,                                                    *)
LEMMA CrashMoves ==
    ASSUME TypeInv, NEW r \in Requests, Crash(r)
    PROVE  /\ pc'[r] = "idle" /\ ~Busy(r)' /\ interrupted'
           /\ \A q \in Requests \ {r} : pc'[q] = pc[q] /\ local'[q] = local[q]
           /\ UNCHANGED <<key, context, members, jar, held, successors, wanted, overlapped, raced>>
BY GotoMoves DEF Crash, Labels, redis, Busy

(* and the end of a TTL.                                                   *)
LEMMA ExpireMoves ==
    ASSUME TypeInv, NEW t \in Tokens, Expire(t)
    PROVE  /\ UNCHANGED <<pc, local, members, jar, held, successors, wanted, raced, interrupted>>
           /\ key'[t] = "none"
           /\ \A s \in Tokens \ {t} : key'[s] = key[s] /\ context'[s] = context[s]
           /\ \A q \in Requests : Busy(q) => Overlapped("expiry", local[q].op)'
BY DEF Expire, Overlapped, TypeInv, TypeOK

(* Every step keeps OnceInv.                                               *)
LEMMA OnceInductive ==
    ASSUME TypeInv, TokenInv, RotatedIsDead, OnceInv, [Next]_vars
    PROVE  OnceInv'
<1>1. /\ \A t \in Tokens \ raced : Once(t)
      /\ \A q \in Requests : Unspent(q) =>
            local[q].token \in raced \/ successors[local[q].token] = {}
      /\ raced \subseteq raced'
  BY EscapesStay DEF OnceInv
<1>2. \A q \in Requests : Unspent(q) => Busy(q) /\ local[q].op \in {"rotate", "switch"}
                                       /\ local[q].token \in Tokens
  BY DEF Unspent, Rotates, Busy, TypeInv, TypeOK, HandlersCarry, Carries
<1>3. CASE UNCHANGED vars
  BY <1>3 DEF vars, redis, ghosts, OnceInv, Once, Unspent, Rotates, Busy
<1>4. ASSUME NEW r \in Requests, Begin(r)
      PROVE  OnceInv'
  <2>1. key' = key /\ successors' = successors /\ held' = held
    BY <1>4, BeginsQuietly
  <2>2. \A t \in Tokens \ raced : key[t] = "live" => successors[t] = {}
    BY <1>1 DEF Once
  <2>3. Unspent(r)' => local'[r].token \in raced' \/ successors'[local'[r].token] = {}
    BY <1>1, <1>4, <2>1, <2>2, BeginsQuietly
    DEF Unspent, Exchanges, Switches, Rotates, Busy, PreSet
  <2>4. \A q \in Requests \ {r} :
            Unspent(q)' => local'[q].token \in raced' \/ successors'[local'[q].token] = {}
    BY <1>1, <1>4, <2>1, BeginsQuietly DEF Unspent, Rotates, Busy
  <2>5. \A t \in Tokens \ raced' : Once(t)'
    BY <1>1, <2>1 DEF Once
  <2> QED
    BY <2>3, <2>4, <2>5 DEF OnceInv
<1>5. ASSUME NEW r \in Requests, Crash(r)
      PROVE  OnceInv'
  BY <1>1, <1>5, CrashMoves DEF OnceInv, Once, Unspent, Rotates, Busy
<1>6. ASSUME NEW s \in Tokens, Expire(s)
      PROVE  OnceInv'
  BY <1>1, <1>6, ExpireMoves DEF OnceInv, Once, Unspent, Rotates, Busy
<1>7. ASSUME NEW r \in Requests, Advance(r)
      PROVE  OnceInv'
  <2>1. HandlersKeep /\ Busy(r)
    BY <1>7, Keeping
  <2>2. \A q \in Requests : Unspent(q)' => Unspent(q) /\ local'[q].token = local[q].token
    BY <2>1 DEF HandlersKeep, Unspent, Rotates, Busy
  <2>3. held \subseteq held' /\ raced' = raced
    <3>1. raced' = raced
      BY <1>7
      DEF Advance, Tombstone, SRem, SetKey, SAdd, SetContext, SMembers, DelTokens, DelSet, Answer,
          ghosts
    <3> QED
      BY <1>7, <3>1, GoesOn, AnswerJars
  <2>4. Makes(r) => local[r].new \notin held /\ local[r].new \in Tokens
    BY DEF TokenInv, NewIsFresh, Makes, TypeInv, TypeOK, HandlersCarry, Carries
  <2>5. CASE SetKey(r) /\ local[r].op = "rotate"
    <3>0. PICK old, new \in Tokens : old = local[r].token /\ new = local[r].new
      BY <2>4, <2>1, <2>5 DEF SetKey, Makes, PreSet, TypeInv, TypeOK, HandlersCarry, Carries, Rotates
    <3>1. /\ Rotates(r) /\ Makes(r) /\ old \in held
          /\ pc[r] = "set" /\ Unspent(r)
      BY <2>1, <2>5, <3>0
      DEF SetKey, Unspent, Rotates, Makes, PreSet, TypeInv, TypeOK, HandlersCarry, Carries,
          TokenInv, TokenWasHeld
    <3>2. /\ key'[new] = "live" /\ \A t \in Tokens \ {new} : key'[t] = key[t]
          /\ successors'[old] = successors[old] \cup {new}
          /\ \A t \in Tokens \ {old} : successors'[t] = successors[t]
      BY <2>5, <3>0 DEF SetKey, TypeInv, TypeOK
    <3>3. old \notin raced => successors[old] = {} /\ key[old] # "live"
      BY <1>1, <3>0, <3>1 DEF RotatedIsDead, PreSet
    <3>4. old # new
      BY <2>4, <3>0, <3>1
    <3>5. old \notin raced => Once(old)'
      <4> SUFFICES ASSUME old \notin raced
                   PROVE  /\ old \in held' /\ key'[old] # "live"
                          /\ new \in Tokens /\ successors'[old] = {new}
        BY DEF Once
      <4>1. successors'[old] = {new}
        BY <3>2, <3>3, <3>0
      <4>2. key'[old] # "live"
        BY <3>0, <3>2, <3>3, <3>4
      <4>3. old \in held' /\ new \in Tokens
        BY <2>3, <3>0, <3>1
      <4> QED
        BY <4>1, <4>2, <4>3
    <3>6. ASSUME NEW t \in Tokens \ raced, t # old PROVE Once(t)'
      <4>1. t = new => successors[t] = {}
        BY <1>1, <2>4, <3>0, <3>1 DEF Once
      <4> QED
        BY <1>1, <2>3, <3>2, <3>6, <4>1 DEF Once
    <3>7. ASSUME NEW q \in Requests, Unspent(q)', local'[q].token \notin raced
          PROVE  successors'[local'[q].token] = {}
      <4>1. /\ Unspent(q) /\ local'[q].token = local[q].token /\ local[q].token \in Tokens
            /\ Busy(q) /\ local[q].op \in {"rotate", "switch"}
        BY <1>2, <2>2, <3>7
      <4>2. q # r
        <5>1. pc'[r] = "sAdd"
          BY <2>5 DEF SetKey, Goto, TypeInv, TypeOK
        <5> QED
          BY <3>7, <5>1 DEF Unspent, PreSet
      <4>3. local[q].token # old
        BY <2>1, <2>5, <3>0, <3>1, <3>7, <4>1, <4>2 DEF TokenInv, Rotates, OverlapsKnown, Rivals
      <4> QED
        BY <1>1, <3>2, <3>7, <4>1, <4>3
    <3>8. ASSUME NEW t \in Tokens \ raced PROVE Once(t)'
      <4>1. CASE t = old
        BY <3>5, <4>1 DEF Once
      <4>2. CASE t # old
        BY <3>6, <4>2
      <4> QED
        BY <4>1, <4>2
    <3> QED
      BY <2>3, <3>7, <3>8 DEF OnceInv
  <2>6. CASE ~(SetKey(r) /\ local[r].op = "rotate")
    <3>1. successors' = successors
      BY <1>7, <2>6
      DEF Advance, Tombstone, SRem, SetKey, SAdd, SetContext, SMembers, DelTokens, DelSet, Answer,
          ghosts
    <3>2. ASSUME NEW t \in Tokens \ raced PROVE Once(t)'
      <4>1. key'[t] = "live" => key[t] = "live" \/ successors[t] = {}
        <5>1. CASE SetKey(r) /\ Makes(r) /\ t = local[r].new
          BY <1>1, <2>4, <5>1 DEF Once
        <5>2. CASE SetContext(r)
          BY <1>1, <1>7, <5>2, AdvanceKeys DEF SetContext, Unspent
        <5> QED
          BY <1>7, <5>1, <5>2, AdvanceKeys
      <4> QED
        BY <1>1, <2>3, <3>1, <4>1 DEF Once
    <3> QED
      BY <1>1, <2>2, <2>3, <3>1, <3>2 DEF OnceInv
  <2> QED
    BY <2>5, <2>6
<1> QED
  BY <1>3, <1>4, <1>5, <1>6, <1>7 DEF Next

(* A refresh token is exchanged at most once, however often and late it is *)
(* sent and whatever overlaps on other tokens, unless while it was being   *)
(* exchanged another refresh or a switch-org was at work on that very      *)
(* token (session.js:54-63, 72-102).                                       *)
THEOREM RotatedOnce == Spec => []SingleUse
<1>1. Init => RotatedIsDead /\ OnceInv
  BY DEF Init, RotatedIsDead, OnceInv, Once, Unspent, Rotates, Busy
<1>2. OnceInv => SingleUse
  <2> SUFFICES ASSUME OnceInv, NEW t \in Tokens \ raced
               PROVE  Cardinality(successors[t]) <= 1
    BY DEF SingleUse
  <2>1. successors[t] = {} \/ \E x \in Tokens : successors[t] = {x}
    BY DEF OnceInv, Once
  <2>2. Cardinality({}) = 0 /\ \A x \in Tokens : Cardinality({x}) = 1
    BY FS_EmptySet, FS_Singleton
  <2> QED
    BY <2>1, <2>2
<1> QED
  BY <1>1, <1>2, DeadInductive, OnceInductive, TokensHold, PTL DEF Spec

(* Every step keeps SwitchIsLive.                                          *)
LEMMA SwitchInductive ==
    ASSUME TypeInv, TokenInv, SwitchIsLive, [Next]_vars
    PROVE  SwitchIsLive'
<1> SUFFICES ASSUME \A b \in {"rotate", "wipe", "expiry"} :
                       ~Overlapped("switch", b) /\ ~Overlapped("switch", b)',
                    NEW q \in Requests, pc'[q] = "setContext"
             PROVE  key'[local'[q].token] = "live"
  BY EscapesStay DEF SwitchIsLive, Overlapped
<1>1. \A p \in Requests : pc[p] = "setContext" =>
         /\ key[local[p].token] = "live"
         /\ Busy(p) /\ local[p].op = "switch" /\ local[p].token \in Tokens
  BY DEF SwitchIsLive, Busy, TypeInv, TypeOK, HandlersCarry, Carries
<1>2. CASE UNCHANGED vars
  BY <1>1, <1>2 DEF vars, redis
<1>3. ASSUME NEW r \in Requests, Begin(r) PROVE key'[local'[q].token] = "live"
  BY <1>1, <1>3, BeginsQuietly DEF Switches
<1>4. ASSUME NEW r \in Requests, Crash(r) PROVE key'[local'[q].token] = "live"
  BY <1>1, <1>4, CrashMoves
<1>5. ASSUME NEW t \in Tokens, Expire(t) PROVE key'[local'[q].token] = "live"
  <2>1. pc[q] = "setContext" /\ local'[q] = local[q]
    BY <1>5, ExpireMoves
  <2>2. Overlapped("expiry", "switch")'
    BY <1>1, <1>5, <2>1, ExpireMoves
  <2>3. ~Overlapped("switch", "expiry")'
    OBVIOUS
  <2>4. {"expiry", "switch"} = {"switch", "expiry"}
    OBVIOUS
  <2> QED
    BY <2>2, <2>3, <2>4 DEF Overlapped
<1>6. ASSUME NEW r \in Requests, Advance(r) PROVE key'[local'[q].token] = "live"
  <2>1. HandlersKeep /\ Busy(r)
    BY <1>6, Keeping
  <2>2. pc[q] = "setContext" /\ local'[q].token = local[q].token
    BY <2>1 DEF HandlersKeep, Busy
  <2>3. local[r].op \notin {"rotate", "wipe"}
    BY <1>1, <2>1, <2>2, NotTogether
  <2>4. DelTokens(r) => local[r].op = "wipe"
    BY DEF DelTokens, TypeInv, HandlersCarry, Carries, Busy
  <2> QED
    BY <1>1, <1>6, <2>2, <2>3, <2>4, AdvanceKeys
<1> QED
  BY <1>2, <1>3, <1>4, <1>5, <1>6 DEF Next

(* A token that ended stays ended, unless a switch-org ran beside what     *)
(* ended it: the only writes of a live key are that of a token nobody has  *)
(* held yet, and that of a switch-org, whose key was live when it began.   *)
THEOREM DeadIsDead == Spec => DeadStaysDead
<1>1. Init => SwitchIsLive
  BY DEF Init, SwitchIsLive
<1>2. ASSUME TypeInv, TokenInv, SwitchIsLive, [Next]_vars
      PROVE  [\/ \E b \in {"rotate", "wipe", "expiry"} : Overlapped("switch", b)
              \/ \A t \in held : key[t] # "live" => key'[t] # "live"]_vars
  <2> SUFFICES ASSUME Next, ~\E b \in {"rotate", "wipe", "expiry"} : Overlapped("switch", b),
                      NEW t \in held, key[t] # "live"
               PROVE  key'[t] # "live"
    BY <1>2
  <2>1. t \in Tokens
    BY <1>2 DEF TypeInv, TypeOK
  <2>2. ASSUME NEW r \in Requests, Begin(r) \/ Crash(r) PROVE key' = key
    BY <1>2, <2>2, BeginsQuietly, CrashMoves
  <2>3. ASSUME NEW s \in Tokens, Expire(s) PROVE key'[t] # "live"
    BY <1>2, <2>1, <2>3, ExpireMoves
  <2>4. ASSUME NEW r \in Requests, Advance(r) PROVE key'[t] # "live"
    <3>1. Makes(r) => local[r].new # t
      BY <1>2 DEF TokenInv, NewIsFresh
    <3>2. SetContext(r) => key[local[r].token] = "live"
      BY <1>2 DEF SwitchIsLive, SetContext
    <3> QED
      BY <1>2, <2>1, <2>4, <3>1, <3>2, AdvanceKeys
  <2> QED
    BY <2>2, <2>3, <2>4 DEF Next
<1>3. TypeInv /\ TokenInv /\ SwitchIsLive /\ [Next]_vars
        => [\/ \E b \in {"rotate", "wipe", "expiry"} : Overlapped("switch", b)
            \/ \A t \in held : key[t] # "live" => key'[t] # "live"]_vars
  BY <1>2
<1> QED
  BY <1>1, <1>3, SwitchInductive, TokensHold, PTL DEF Spec, DeadStaysDead

-----------------------------------------------------------------------------
(* Every step keeps ContextInv.                                            *)
LEMMA ContextInductive ==
    ASSUME TypeInv, TokenInv, ContextInv, [Next]_vars
    PROVE  ContextInv'
<1> DEFINE Same(t) == key[t] = "live" => context[t] = wanted[t]
           Before(q) == Rotates(q) /\ pc[q] \in PreSet
<1> SUFFICES ASSUME ~Overlapped("rotate", "switch")
             PROVE  /\ \A t \in Tokens : Same(t)'
                    /\ \A q \in Requests : Before(q)' =>
                          local'[q].context = wanted'[local'[q].token]
  BY EscapesStay DEF ContextInv, Overlapped, LiveTokens
<1>1. /\ \A t \in Tokens : Same(t)
      /\ \A q \in Requests : Before(q) => local[q].context = wanted[local[q].token]
  BY DEF ContextInv, LiveTokens
<1>2. CASE UNCHANGED vars
  BY <1>1, <1>2 DEF vars, redis, ghosts, Rotates, Busy
<1>3. ASSUME NEW r \in Requests, Begin(r)
      PROVE  /\ \A t \in Tokens : Same(t)'
             /\ \A q \in Requests : Before(q)' => local'[q].context = wanted'[local'[q].token]
  <2>1. key' = key /\ context' = context /\ wanted' = wanted
    BY <1>3, BeginsQuietly
  <2>2. Before(r)' => local'[r].context = wanted'[local'[r].token]
    BY <1>1, <1>3, <2>1, BeginsQuietly DEF Exchanges, Rotates, Busy
  <2>3. ASSUME NEW q \in Requests \ {r}, Before(q)'
        PROVE  local'[q].context = wanted'[local'[q].token]
    BY <1>1, <1>3, <2>1, <2>3, BeginsQuietly DEF Rotates, Busy
  <2> QED
    BY <1>1, <2>1, <2>2, <2>3
<1>4. ASSUME NEW r \in Requests, Crash(r)
      PROVE  /\ \A t \in Tokens : Same(t)'
             /\ \A q \in Requests : Before(q)' => local'[q].context = wanted'[local'[q].token]
  BY <1>1, <1>4, CrashMoves DEF Rotates, Busy
<1>5. ASSUME NEW s \in Tokens, Expire(s)
      PROVE  /\ \A t \in Tokens : Same(t)'
             /\ \A q \in Requests : Before(q)' => local'[q].context = wanted'[local'[q].token]
  BY <1>1, <1>5, ExpireMoves DEF Rotates, Busy
<1>6. ASSUME NEW r \in Requests, Advance(r)
      PROVE  /\ \A t \in Tokens : Same(t)'
             /\ \A q \in Requests : Before(q)' => local'[q].context = wanted'[local'[q].token]
  <2> DEFINE l == local[r]
  <2>1. HandlersKeep /\ Busy(r) /\ l \in Handlers /\ Carries(pc[r], l)
    BY <1>6, Keeping, InHand
  <2>2. \A q \in Requests : Before(q)' =>
           /\ Before(q) /\ Busy(q) /\ local[q].op = "rotate" /\ local[q].token \in Tokens
           /\ local'[q].token = local[q].token /\ local'[q].context = local[q].context
    BY <2>1 DEF HandlersKeep, Rotates, TypeInv, TypeOK, HandlersCarry, Carries
  <2>3. /\ context \in [Tokens -> Contexts \cup {NoContext}]
        /\ wanted \in [Tokens -> Contexts \cup {NoContext}]
        /\ key \in [Tokens -> {"none", "live", "tombstone"}] /\ issued \subseteq Tokens
    BY DEF TypeInv, TypeOK
  <2>4. CASE SetKey(r)
    <3>1. Makes(r) /\ l.new \in Tokens /\ pc[r] = "set"
      BY <2>1, <2>3, <2>4 DEF SetKey, Carries, Makes
    <3>2. /\ \A t \in Tokens \ {l.new} :
                key'[t] = key[t] /\ context'[t] = context[t] /\ wanted'[t] = wanted[t]
          /\ context'[l.new] = l.context
          /\ wanted'[l.new] = IF l.op = "rotate" THEN wanted[l.token] ELSE l.context
      BY <2>3, <2>4, <3>1 DEF SetKey
    <3>3. l.op = "rotate" => l.context = wanted[l.token]
      BY <1>1, <2>1, <3>1 DEF Rotates, PreSet
    <3>4. \A t \in Tokens : Same(t)'
      BY <1>1, <3>2, <3>3
    <3>5. ASSUME NEW q \in Requests, Before(q)'
          PROVE  local'[q].context = wanted'[local'[q].token]
      <4>1. local[q].token # l.new
        BY <2>2, <3>1, <3>5, NewIsNotOld
      <4> QED
        BY <1>1, <2>2, <3>2, <3>5, <4>1
    <3> QED
      BY <3>4, <3>5
  <2>5. CASE SetContext(r)
    <3>1. l.op = "switch" /\ l.token \in Tokens
      BY <2>1, <2>3, <2>5 DEF SetContext, Carries
    <3>2. /\ \A t \in Tokens \ {l.token} : key'[t] = key[t] /\ context'[t] = context[t]
                                           /\ wanted'[t] = wanted[t]
          /\ context'[l.token] = wanted'[l.token]
      BY <2>3, <2>5, <3>1 DEF SetContext
    <3>3. \A q \in Requests : ~Before(q)'
      BY <2>1, <2>2, <3>1, NotTogether
    <3> QED
      BY <1>1, <3>2, <3>3
  <2>6. CASE ~SetKey(r) /\ ~SetContext(r)
    <3>1. wanted' = wanted
      BY <1>6, <2>6
      DEF Advance, Tombstone, SRem, SAdd, SMembers, DelTokens, DelSet, Answer, ghosts
    <3>2. ASSUME NEW t \in Tokens, key'[t] = "live"
          PROVE  key[t] = "live" /\ context'[t] = context[t]
      <4>1. CASE Tombstone(r)
        BY <2>1, <2>3, <3>2, <4>1 DEF Tombstone, Carries
      <4>2. CASE DelTokens(r)
        BY <3>2, <4>2 DEF DelTokens
      <4>3. CASE SRem(r) \/ SAdd(r) \/ SMembers(r) \/ DelSet(r) \/ Answer(r)
        BY <3>2, <4>3 DEF SRem, SAdd, SMembers, DelSet, Answer, redis
      <4> QED
        BY <1>6, <2>6, <4>1, <4>2, <4>3 DEF Advance
    <3> QED
      BY <1>1, <2>2, <3>1, <3>2
  <2> QED
    BY <2>4, <2>5, <2>6
<1> QED
  BY <1>2, <1>3, <1>4, <1>5, <1>6 DEF Next

(* A session stays in the organization its last switch-org chose, through  *)
(* any number of refreshes, as long as no refresh overlaps a switch-org.   *)
THEOREM SwitchesStick == Spec => []SwitchSticks
<1>1. Init => ContextInv
  BY DEF Init, ContextInv, LiveTokens, Rotates, Busy
<1>2. ContextInv => SwitchSticks
  BY DEF ContextInv, SwitchSticks
<1> QED
  BY <1>1, <1>2, ContextInductive, TokensHold, PTL DEF Spec

-----------------------------------------------------------------------------
(* The escapes of LogoutIsComplete.                                        *)
Excused == \/ interrupted
           \/ \E a \in {"login", "rotate", "switch"} : Overlapped("wipe", a)
           \/ Overlapped("rotate", "switch")

Wiped(r) == pc[r] = "delSet" \/ (pc[r] = "clearCookie" /\ local[r].op = "wipe")

(* A live token is in the set, or its handler is about to add it; and what *)
(* a switch-org and the steps of wipeAllSessions have seen still holds.    *)
LiveKnown ==
    \A t \in LiveTokens : t \in members \/ \E r \in Requests : pc[r] = "sAdd" /\ local[r].new = t

SwitchKnown == \A r \in Requests : pc[r] = "setContext" => local[r].token \in members

FoundAll == \A r \in Requests : pc[r] = "delTokens" => LiveTokens \subseteq local[r].found

WipedAll == \A r \in Requests : Wiped(r) => LiveTokens = {}

LogoutInv == Excused \/ (LiveKnown /\ SwitchKnown /\ FoundAll /\ WipedAll)

(* A wipe that nothing excuses runs next to other wipes and invalid        *)
(* requests only.                                                          *)
LEMMA WipeAlone ==
    ASSUME TypeInv, TokenInv, ~Excused, NEW r \in Requests, NEW q \in Requests,
           Busy(r), Busy(q), local[r].op = "wipe"
    PROVE  local[q].op \notin {"login", "rotate", "switch"}
BY DEF TokenInv, OverlapsKnown, Excused, Overlapped

(* Every command of a handler keeps LogoutInv,                             *)
LEMMA LogoutAdvances ==
    ASSUME TypeInv, TokenInv, RotatedIsDead, LogoutInv, ~Excused, NEW r \in Requests, Advance(r)
    PROVE  LiveKnown' /\ SwitchKnown' /\ FoundAll' /\ WipedAll'
<1> DEFINE l == local[r]
<1>1. HandlersKeep /\ Busy(r) /\ l \in Handlers /\ Carries(pc[r], l)
  BY Keeping, InHand
<1>2. \A q \in Requests \ {r} : pc'[q] = pc[q] /\ local'[q] = local[q]
  BY AdvanceTyped
<1>3. LiveKnown /\ SwitchKnown /\ FoundAll /\ WipedAll /\ pc \in [Requests -> Labels]
  BY DEF LogoutInv, TypeInv, TypeOK
<1>4. \A q \in Requests : pc[q] = "sAdd" => Makes(q)
  BY DEF TypeInv, HandlersCarry, Carries, Busy, Makes
<1>5. \A q \in Requests : pc[q] \in {"delTokens", "delSet", "sMembers"} \/ Wiped(q)
                             => Busy(q) /\ local[q].op = "wipe"
  BY DEF TypeInv, HandlersCarry, Carries, Busy, Wiped
<1>6. \A q \in Requests : pc[q] = "setContext" => Busy(q) /\ local[q].op = "switch"
  BY DEF TypeInv, HandlersCarry, Carries, Busy
<1>7. Makes(r) => l.op \in {"login", "rotate"} /\ l.new \in Tokens
  BY <1>1 DEF Makes, Carries, TypeInv, TypeOK
<1>8. CASE Tombstone(r)
  <2>1. LiveTokens' \subseteq LiveTokens /\ members' = members /\ pc'[r] = "sRem"
        /\ pc[r] = "tombstone"
    BY <1>1, <1>3, <1>8 DEF Tombstone, LiveTokens, Goto, Carries, TypeInv, TypeOK
  <2> QED
    BY <1>2, <1>3, <2>1 DEF LiveKnown, SwitchKnown, FoundAll, WipedAll, Wiped
<1>9. CASE SRem(r)
  <2>1. /\ LiveTokens' = LiveTokens /\ members' = members \ {l.token}
        /\ pc'[r] = "set" /\ pc[r] = "sRem" /\ l.op = "rotate"
    BY <1>1, <1>3, <1>9 DEF SRem, LiveTokens, Goto, Carries
  <2>2. l.token \notin LiveTokens
    BY <1>1, <2>1 DEF RotatedIsDead, Rotates, LiveTokens, Excused
  <2>3. \A q \in Requests : pc[q] # "setContext"
    BY <1>1, <1>6, <2>1, NotTogether DEF Excused
  <2> QED
    BY <1>2, <1>3, <2>1, <2>2, <2>3 DEF LiveKnown, SwitchKnown, FoundAll, WipedAll, Wiped
<1>10. CASE SetKey(r)
  <2>1. Makes(r) /\ l.new \in Tokens /\ pc[r] = "set"
    BY <1>1, <1>7, <1>10 DEF SetKey, Carries, Makes
  <2>2. LiveTokens' \subseteq LiveTokens \cup {l.new} /\ members' = members
        /\ pc'[r] = "sAdd" /\ local'[r].new = l.new
    BY <1>1, <1>3, <1>10, <2>1
    DEF SetKey, LiveTokens, Goto, HandlersKeep, Busy, TypeInv, TypeOK
  <2>3. \A q \in Requests : Busy(q) => local[q].op # "wipe"
    BY <1>1, <1>7, <2>1, WipeAlone
  <2>4. LiveKnown'
    BY <1>2, <1>3, <2>1, <2>2 DEF LiveKnown
  <2>5. SwitchKnown'
    BY <1>2, <1>3, <2>2 DEF SwitchKnown
  <2>6. \A q \in Requests : pc'[q] # "delTokens" /\ ~Wiped(q)'
    BY <1>2, <1>5, <2>2, <2>3 DEF Wiped
  <2> QED
    BY <2>4, <2>5, <2>6 DEF FoundAll, WipedAll
<1>11. CASE SAdd(r)
  <2>1. LiveTokens' = LiveTokens /\ members' = members \cup {l.new} /\ pc'[r] = "setCookie"
    BY <1>3, <1>11 DEF SAdd, LiveTokens, Goto
  <2> QED
    BY <1>2, <1>3, <2>1 DEF LiveKnown, SwitchKnown, FoundAll, WipedAll, Wiped
<1>12. CASE SetContext(r)
  <2>1. /\ LiveTokens' \subseteq LiveTokens \cup {l.token} /\ members' = members
        /\ pc'[r] = "answer" /\ l.op = "switch" /\ l.token \in members /\ pc[r] = "setContext"
    BY <1>1, <1>3, <1>12 DEF SetContext, LiveTokens, Goto, Carries, SwitchKnown, TypeInv, TypeOK
  <2>2. \A q \in Requests : Busy(q) => local[q].op # "wipe"
    BY <1>1, <2>1, WipeAlone
  <2>3. LiveKnown' /\ SwitchKnown'
    BY <1>2, <1>3, <2>1 DEF LiveKnown, SwitchKnown
  <2>4. \A q \in Requests : pc'[q] # "delTokens" /\ ~Wiped(q)'
    BY <1>2, <1>5, <2>1, <2>2 DEF Wiped
  <2> QED
    BY <2>3, <2>4 DEF FoundAll, WipedAll
<1>13. CASE SMembers(r)
  <2>1. /\ LiveTokens' = LiveTokens /\ members' = members
        /\ pc[r] = "sMembers" /\ pc'[r] = IF members = {} THEN "delSet" ELSE "delTokens"
        /\ local'[r].found = members
    BY <1>1, <1>3, <1>13 DEF SMembers, LiveTokens, redis, Handlers, TypeInv, TypeOK
  <2>2. LiveTokens \subseteq members
    <3>1. \A q \in Requests : ~Makes(q)
      BY <1>1, <1>5, <2>1, WipeAlone DEF Makes
    <3> QED
      BY <1>3, <1>4, <3>1 DEF LiveKnown
  <2>3. LiveKnown' /\ SwitchKnown'
    BY <1>2, <1>3, <2>1, <2>2 DEF LiveKnown, SwitchKnown
  <2>4. FoundAll'
    BY <1>2, <1>3, <2>1, <2>2 DEF FoundAll
  <2>5. WipedAll'
    <3> SUFFICES ASSUME NEW q \in Requests, Wiped(q)' PROVE LiveTokens' = {}
      BY DEF WipedAll
    <3>1. CASE q = r
      BY <2>1, <2>2, <3>1 DEF Wiped
    <3>2. CASE q # r
      BY <1>2, <1>3, <2>1, <3>2 DEF Wiped, WipedAll
    <3> QED
      BY <3>1, <3>2
  <2> QED
    BY <2>3, <2>4, <2>5
<1>14. CASE DelTokens(r)
  <2>1. LiveTokens \subseteq l.found
    BY <1>3, <1>14 DEF DelTokens, FoundAll
  <2>2. LiveTokens' = {} /\ members' = members /\ pc'[r] = "delSet"
    BY <1>3, <1>14, <2>1 DEF DelTokens, LiveTokens, Goto
  <2> QED
    BY <1>2, <1>3, <2>2 DEF LiveKnown, SwitchKnown, FoundAll, WipedAll
<1>15. CASE DelSet(r)
  <2>1. LiveTokens' = LiveTokens /\ LiveTokens = {} /\ pc'[r] = "clearCookie" /\ l.op = "wipe"
    BY <1>1, <1>3, <1>15 DEF DelSet, LiveTokens, Goto, WipedAll, Wiped, Carries
  <2>2. \A q \in Requests : pc[q] # "setContext"
    BY <1>1, <1>6, <2>1, WipeAlone
  <2>3. SwitchKnown'
    BY <1>2, <2>1, <2>2 DEF SwitchKnown
  <2> QED
    BY <2>1, <2>3 DEF LiveKnown, FoundAll, WipedAll
<1>16. CASE Answer(r)
  <2>1. LiveTokens' = LiveTokens /\ members' = members /\ pc'[r] = "idle" /\ pc[r] # "sAdd"
    BY <1>3, <1>16 DEF Answer, LiveTokens, Goto, redis
  <2> QED
    BY <1>2, <1>3, <2>1 DEF LiveKnown, SwitchKnown, FoundAll, WipedAll, Wiped
<1> QED
  BY <1>8, <1>9, <1>10, <1>11, <1>12, <1>13, <1>14, <1>15, <1>16 DEF Advance

(* and so does every other step.                                           *)
LEMMA LogoutInductive ==
    ASSUME TypeInv, TokenInv, RotatedIsDead, LogoutInv, [Next]_vars
    PROVE  LogoutInv'
<1> SUFFICES ASSUME ~Excused, ~Excused' PROVE LiveKnown' /\ SwitchKnown' /\ FoundAll' /\ WipedAll'
  BY EscapesStay DEF LogoutInv, Excused, Overlapped
<1>1. LiveKnown /\ SwitchKnown /\ FoundAll /\ WipedAll
  BY DEF LogoutInv
<1>2. CASE UNCHANGED vars
  BY <1>1, <1>2
  DEF vars, redis, LiveKnown, SwitchKnown, FoundAll, WipedAll, Wiped, LiveTokens
<1>3. ASSUME NEW r \in Requests, Begin(r)
      PROVE  LiveKnown' /\ SwitchKnown' /\ FoundAll' /\ WipedAll'
  <2>1. /\ LiveTokens' = LiveTokens /\ members' = members /\ ~Busy(r)
        /\ \A q \in Requests \ {r} : pc'[q] = pc[q] /\ local'[q] = local[q]
    BY <1>3, BeginsQuietly DEF LiveTokens
  <2>2. pc'[r] \notin {"delTokens", "delSet"} /\ ~Wiped(r)'
    BY <1>3, BeginsQuietly DEF Wiped
  <2>3. LiveKnown' /\ FoundAll' /\ WipedAll'
    BY <1>1, <2>1, <2>2 DEF LiveKnown, FoundAll, WipedAll, Wiped, Busy
  <2>4. pc'[r] = "setContext" => local'[r].token \in members
    <3> SUFFICES ASSUME pc'[r] = "setContext" PROVE local'[r].token \in members
      OBVIOUS
    <3>1. PICK l \in Handlers : local'[r] = l /\ Switches("setContext", l)
      BY <1>3, BeginsQuietly
    <3>2. l.token \in LiveTokens /\ l.token \in held
      BY <3>1, SessionsAssumption DEF Switches, LiveTokens, Handlers, TokenInv, JarsHeld
    <3>3. \A q \in Requests : pc[q] = "sAdd" => Makes(q)
      BY DEF TypeInv, HandlersCarry, Carries, Busy, Makes
    <3>4. \A q \in Requests : pc[q] = "sAdd" => local[q].new # l.token
      BY <3>2, <3>3 DEF TokenInv, NewIsFresh
    <3> QED
      BY <1>1, <3>1, <3>2, <3>4 DEF LiveKnown
  <2>5. SwitchKnown'
    BY <1>1, <2>1, <2>4 DEF SwitchKnown
  <2> QED
    BY <2>3, <2>5
<1>4. ASSUME NEW r \in Requests, Crash(r) PROVE FALSE
  BY <1>4 DEF Crash, Excused
<1>5. ASSUME NEW t \in Tokens, Expire(t)
      PROVE  LiveKnown' /\ SwitchKnown' /\ FoundAll' /\ WipedAll'
  <2>1. LiveTokens' \subseteq LiveTokens /\ UNCHANGED <<pc, local, members>>
    BY <1>5, ExpireMoves DEF LiveTokens
  <2> QED
    BY <1>1, <2>1 DEF LiveKnown, SwitchKnown, FoundAll, WipedAll, Wiped
<1>6. ASSUME NEW r \in Requests, Advance(r)
      PROVE  LiveKnown' /\ SwitchKnown' /\ FoundAll' /\ WipedAll'
  BY <1>6, LogoutAdvances
<1> QED
  BY <1>2, <1>3, <1>4, <1>5, <1>6 DEF Next

(* When DELETE /auth/session or a detected reuse answers, no refresh token *)
(* of the user is live, unless one was being written at the same time, a   *)
(* handler had been cut short before, or a refresh and a switch-org had    *)
(* overlapped.                                                             *)
THEOREM LogoutsComplete == Spec => []LogoutIsComplete
<1>1. Init => RotatedIsDead /\ LogoutInv
  BY DEF Init, RotatedIsDead, LogoutInv, LiveKnown, SwitchKnown, FoundAll, WipedAll, Wiped,
         LiveTokens, Rotates, Busy
<1>2. LogoutInv => LogoutIsComplete
  BY DEF LogoutInv, LogoutIsComplete, Excused, WipedAll, Wiped
<1> QED
  BY <1>1, <1>2, DeadInductive, LogoutInductive, TokensHold, PTL DEF Spec
=============================================================================
