------------------------ MODULE OrgConnectionsProofs ------------------------
(***************************************************************************)
(* Proofs about OrgConnections, for any organizations, connection ids,     *)
(* callers and number of concurrently running handlers.                    *)
(*                                                                         *)
(* The argument.  A handler acts on what it read when it started, so what  *)
(* must be inductive is that its reading still holds when it writes        *)
(* (ReadingHolds), for pairs on which no other handler ran meanwhile       *)
(* (AloneOnPair).  Everything else says whose row a running handler is     *)
(* about (OwnRow), that the ids are fresh (OwnId) and that an event is     *)
(* logged before its write (LoggedBeforeWrite).                            *)
(***************************************************************************)
EXTENDS OrgConnections, TLAPS

(* Two handlers on one pair make it contended. *)
AloneOnPair ==
    \A r, q \in Requests :
        Busy(r) /\ Busy(q) /\ r # q /\ EventPair(event[r]) = EventPair(event[q])
            => EventPair(event[r]) \in contended

(* A running requestConnection has an id nobody else uses. *)
OwnId ==
    \A r \in Requests :
        Busy(r) /\ event[r].action = "PENDING" =>
            /\ conn[event[r].entity] = NoRow
            /\ event[r].from # event[r].to
            /\ \A q \in Requests \ {r} : Busy(q) => event[q].entity # event[r].entity

(* A running respondToConnection is about an existing row. *)
OwnRow ==
    \A r \in Requests :
        Busy(r) /\ event[r].action # "PENDING" =>
            /\ conn[event[r].entity].status # "ABSENT"
            /\ conn[event[r].entity].from = event[r].from
            /\ conn[event[r].entity].to = event[r].to

(* What a handler read about an uncontended pair still holds. *)
ReadingHolds ==
    \A r \in Requests :
        Busy(r) /\ EventPair(event[r]) \notin contended =>
            /\ event[r].action = "PENDING" => ~LiveBetween(event[r].from, event[r].to)
            /\ event[r].action = "APPROVED" => conn[event[r].entity].status = "PENDING"
            /\ event[r].action = "REVOKED" => conn[event[r].entity].status = "APPROVED"

LoggedBeforeWrite ==
    \A r \in Requests : pc[r] = "write" => event[r] \in audit

(* The events in the trail that consent to the approval of c for org o. *)
Consented(c, o) ==
    \E e \in audit : /\ e.entity = c
                     /\ e.action = "APPROVED"
                     /\ e.actor.psa \/ (e.actor.admin /\ e.actor.org = o)

(* A running approval is made by who may consent, a running revoke is of a *)
(* connection that was consented to.                                       *)
ResponderMay ==
    \A r \in Requests : Busy(r) =>
        /\ event[r].action = "APPROVED" =>
              event[r].actor.psa \/ (event[r].actor.admin /\ event[r].actor.org = event[r].to)
        /\ event[r].action = "REVOKED" => Consented(event[r].entity, event[r].to)

IInv == /\ TypeOK
        /\ AloneOnPair
        /\ OwnId
        /\ OwnRow
        /\ ReadingHolds
        /\ OneLivePerPair
        /\ LoggedBeforeWrite
        /\ ResponderMay
        /\ ApprovalIsConsent

-----------------------------------------------------------------------------
(* The event a requestConnection hands to logAudit is an audit event.      *)
LEMMA RequestEventTyped ==
    ASSUME NEW caller \in Callers, NEW a \in Orgs, NEW b \in Orgs, NEW c \in Conns,
           a # b
    PROVE  [action |-> "PENDING", entity |-> c, from |-> a, to |-> b,
            actor |-> caller, orgId |-> a] \in Events
BY DEF Events, Statuses

(* The event of a respondToConnection is too, a platform admin's null      *)
(* activeOrgId being replaced by the requester (FiledUnder).               *)
LEMMA RespondEventTyped ==
    ASSUME TypeOK, NEW caller \in Callers, NEW c \in Conns,
           NEW s \in {"APPROVED", "REVOKED"}, conn[c] # NoRow
    PROVE  [action |-> s, entity |-> c, from |-> conn[c].from, to |-> conn[c].to,
            actor |-> caller, orgId |-> FiledUnder(caller, c)] \in Events
<1>1. /\ conn[c] \in [status : Statuses \ {"ABSENT"}, from : Orgs, to : Orgs]
      /\ conn[c].from # conn[c].to
  BY DEF TypeOK, Rows
<1>2. caller.org \in Orgs \cup {NoOrg}
  BY ConstantsAssumption
<1>3. FiledUnder(caller, c) \in Orgs
  BY <1>1, <1>2 DEF FiledUnder
<1> QED
  BY <1>1, <1>3 DEF Events, Statuses

(* A handler that starts keeps the types, whatever its event.              *)
LEMMA StartTyped ==
    ASSUME TypeOK, NEW r \in Requests, NEW e \in Events, Start(r, e)
    PROVE  TypeOK'
BY DEF TypeOK, Start, Busy, EventPair, Events

(* One step of the specification keeps the types.                          *)
LEMMA NextTyped == TypeOK /\ [Next]_vars => TypeOK'
<1> SUFFICES ASSUME TypeOK, [Next]_vars PROVE TypeOK'
  OBVIOUS
<1>1. ASSUME NEW r \in Requests, NEW caller \in Callers, NEW a \in Orgs, NEW b \in Orgs,
             requestConnection(r, caller, a, b)
      PROVE  TypeOK'
  BY <1>1, RequestEventTyped, StartTyped DEF requestConnection
<1>2. ASSUME NEW r \in Requests, NEW caller \in Callers, NEW c \in Conns,
             NEW s \in {"APPROVED", "REVOKED"}, respondToConnection(r, caller, c, s)
      PROVE  TypeOK'
  BY <1>2, RespondEventTyped, StartTyped DEF respondToConnection
<1>3. ASSUME NEW r \in Requests, logAudit(r) PROVE TypeOK'
  BY <1>3 DEF TypeOK, logAudit, Busy
<1>4. ASSUME NEW r \in Requests, AuditFails(r) PROVE TypeOK'
  BY <1>4 DEF TypeOK, AuditFails, Finish, Busy
<1>5. ASSUME NEW r \in Requests, Write(r) PROVE TypeOK'
  <2>1. event[r] \in Events
    BY <1>5 DEF TypeOK, Write, Busy
  <2>2. Row(event[r].action, event[r].from, event[r].to) \in Rows
    BY <2>1 DEF Row, Rows, Events
  <2>3. conn' \in [Conns -> Rows]
    BY <1>5, <2>2 DEF TypeOK, Write
  <2> QED
    BY <1>5, <2>1, <2>3 DEF TypeOK, Write, Finish, Busy
<1>6. ASSUME NEW r \in Requests, Crash(r) PROVE TypeOK'
  BY <1>6 DEF TypeOK, Crash, Finish, Busy
<1>7. CASE UNCHANGED vars
  BY <1>7 DEF TypeOK, vars, Busy
<1> QED
  BY <1>1, <1>2, <1>3, <1>4, <1>5, <1>6, <1>7 DEF Next

(* Every variable of every reachable state has its type: in particular     *)
(* every recorded event names an organization as orgId, also the responses *)
(* of a platform admin without one.                                        *)
THEOREM TypeCorrect == Spec => []TypeOK
<1>1. Init => TypeOK
  BY DEF Init, TypeOK, Rows, Busy
<1> QED
  BY <1>1, NextTyped, PTL DEF Spec

-----------------------------------------------------------------------------
(* Preservation of IInv, one lemma per kind of step.                       *)

(* What the checks of a handler establish about the event e it builds.     *)
Checked(e) ==
    /\ e.action = "PENDING" =>
          /\ conn[e.entity] = NoRow
          /\ e.from # e.to
          /\ ~LiveBetween(e.from, e.to)
          /\ \A q \in Requests : Busy(q) => event[q].entity # e.entity
    /\ e.action # "PENDING" =>
          /\ conn[e.entity].status # "ABSENT"
          /\ conn[e.entity].from = e.from
          /\ conn[e.entity].to = e.to
    /\ e.action = "APPROVED" =>
          /\ conn[e.entity].status = "PENDING"
          /\ e.actor.psa \/ (e.actor.admin /\ e.actor.org = e.to)
    /\ e.action = "REVOKED" => conn[e.entity].status = "APPROVED"

(* The checks of requestConnection.                                        *)
LEMMA RequestChecked ==
    ASSUME NEW caller, NEW a, NEW b, NEW c \in Conns,
           Fresh(c), a # b, ~LiveBetween(a, b)
    PROVE  Checked([action |-> "PENDING", entity |-> c, from |-> a, to |-> b,
                    actor |-> caller, orgId |-> a])
BY DEF Checked, Fresh

(* The checks of respondToConnection.                                      *)
LEMMA RespondChecked ==
    ASSUME NEW caller, NEW c \in Conns, NEW s \in {"APPROVED", "REVOKED"},
           MayRespond(caller, c, s)
    PROVE  Checked([action |-> s, entity |-> c,
                    from |-> conn[c].from, to |-> conn[c].to,
                    actor |-> caller, orgId |-> FiledUnder(caller, c)])
BY DEF Checked, MayRespond

(* A handler that has checked its event may start: another handler on the  *)
(* same pair makes the pair contended, so nothing it read is relied upon   *)
(* that the other may still change.                                        *)
LEMMA StartInv ==
    ASSUME IInv, NEW r \in Requests, NEW e \in Events, Start(r, e), Checked(e)
    PROVE  IInv'
<1> USE DEF Start
<1>1. TypeOK'
  BY StartTyped DEF IInv
<1>2. /\ ~Busy(r)
      /\ \A q \in Requests : Busy(q)' <=> Busy(q) \/ q = r
      /\ \A q \in Requests \ {r} : event'[q] = event[q] /\ pc'[q] = pc[q]
      /\ event'[r] = e
      /\ pc'[r] = "audit"
      /\ contended \subseteq contended'
      /\ \A q \in Requests : Busy(q) /\ EventPair(event[q]) = EventPair(e)
                                => EventPair(e) \in contended'
  BY DEF IInv, TypeOK, Busy
<1>3. AloneOnPair'
  <2> SUFFICES ASSUME NEW p \in Requests, NEW q \in Requests, Busy(p)', Busy(q)', p # q,
                      EventPair(event'[p]) = EventPair(event'[q])
               PROVE  EventPair(event'[p]) \in contended'
    BY DEF AloneOnPair, EventPair
  <2>1. CASE p = r \/ q = r
    BY <1>2, <2>1
  <2>2. CASE p # r /\ q # r
    BY <1>2, <2>2 DEF IInv, AloneOnPair
  <2> QED
    BY <2>1, <2>2
<1>4. OwnId'
  <2>1. ASSUME NEW q \in Requests, Busy(q), event[q].action = "PENDING"
        PROVE  e.entity # event[q].entity
    BY <2>1 DEF IInv, OwnId, Checked, NoRow
  <2> QED
    BY <1>2, <2>1 DEF IInv, OwnId, Checked
<1>5. OwnRow'
  BY <1>2 DEF IInv, OwnRow, Checked
<1>6. ReadingHolds'
  <2>1. \A a, b : LiveBetween(a, b)' <=> LiveBetween(a, b)
    BY DEF LiveBetween, Live, Pair
  <2>2. ASSUME NEW q \in Requests, Busy(q)', EventPair(event'[q]) \notin contended'
        PROVE  /\ event'[q].action = "PENDING" => ~LiveBetween(event'[q].from, event'[q].to)
               /\ event'[q].action = "APPROVED" => conn'[event'[q].entity].status = "PENDING"
               /\ event'[q].action = "REVOKED" => conn'[event'[q].entity].status = "APPROVED"
    <3>1. CASE q = r
      BY <1>2, <3>1 DEF Checked
    <3>2. CASE q # r
      BY <1>2, <2>2, <3>2 DEF IInv, ReadingHolds
    <3> QED
      BY <3>1, <3>2
  <2> QED
    BY <2>1, <2>2 DEF ReadingHolds, EventPair, LiveBetween, Live, Pair
<1>7. OneLivePerPair'
  BY <1>2 DEF IInv, OneLivePerPair, Live, Pair
<1>8. LoggedBeforeWrite'
  BY <1>2 DEF IInv, LoggedBeforeWrite
<1>9. ResponderMay'
  <2>1. e.action = "REVOKED" => Consented(e.entity, e.to)
    BY DEF IInv, ApprovalIsConsent, Consented, Checked, Events
  <2>2. \A c, o : Consented(c, o)' <=> Consented(c, o)
    BY DEF Consented
  <2> QED
    BY <1>2, <2>1, <2>2 DEF IInv, ResponderMay, Checked, Consented
<1>10. ApprovalIsConsent'
  BY DEF IInv, ApprovalIsConsent
<1> QED
  BY <1>1, <1>3, <1>4, <1>5, <1>6, <1>7, <1>8, <1>9, <1>10 DEF IInv

(* Recording an event, and a handler that ends without writing, leave the  *)
(* rows alone and only take handlers out of flight.                        *)
LEMMA NoWriteInv ==
    ASSUME IInv, TypeOK', NEW r \in Requests,
           logAudit(r) \/ AuditFails(r) \/ Crash(r)
    PROVE  IInv'
<1>1. /\ UNCHANGED <<conn, contended>>
      /\ audit \subseteq audit'
      /\ \A q \in Requests : Busy(q)' => Busy(q) /\ event'[q] = event[q]
      /\ \A q \in Requests : pc'[q] = "write" => pc[q] = "write" \/ event[q] \in audit'
  BY DEF IInv, TypeOK, logAudit, AuditFails, Crash, Finish, Busy
<1>2. AloneOnPair'
  BY <1>1 DEF IInv, AloneOnPair
<1>3. OwnId' /\ OwnRow'
  BY <1>1 DEF IInv, OwnId, OwnRow
<1>4. ReadingHolds'
  BY <1>1 DEF IInv, ReadingHolds, LiveBetween, Live, Pair, EventPair
<1>5. OneLivePerPair'
  BY <1>1 DEF IInv, OneLivePerPair, Live, Pair
<1>6. LoggedBeforeWrite'
  BY <1>1 DEF IInv, LoggedBeforeWrite, Busy
<1>7. ResponderMay'
  BY <1>1 DEF IInv, ResponderMay, Consented
<1>8. ApprovalIsConsent'
  BY <1>1 DEF IInv, ApprovalIsConsent
<1> QED
  BY <1>2, <1>3, <1>4, <1>5, <1>6, <1>7, <1>8 DEF IInv

(* The write: the one row it changes is the handler's own, and on an       *)
(* uncontended pair it is still what the handler read.                     *)
LEMMA WriteInv ==
    ASSUME IInv, TypeOK', NEW r \in Requests, Write(r),
           NEW e \in Events, e = event[r], NEW k \in Conns, k = e.entity
    PROVE  IInv'
<1>1. /\ Busy(r)
      /\ e \in audit
      /\ e.action \in {"PENDING", "APPROVED", "REVOKED"}
  BY DEF IInv, TypeOK, LoggedBeforeWrite, Write, Busy, Events, Statuses
<1>2. /\ conn'[k] = Row(e.action, e.from, e.to)
      /\ \A d \in Conns \ {k} : conn'[d] = conn[d]
      /\ UNCHANGED <<audit, contended>>
  BY <1>1 DEF IInv, TypeOK, Write
<1>3. \A q \in Requests : Busy(q)' => q # r /\ Busy(q) /\ event'[q] = event[q] /\ pc'[q] = pc[q]
  BY DEF IInv, TypeOK, Write, Finish, Busy
<1>4. /\ conn'[k].status = e.action
      /\ conn'[k].from = e.from
      /\ conn'[k].to = e.to
  BY <1>2 DEF Row
<1>5. /\ Pair(k)' = EventPair(e)
      /\ Live(k)' <=> e.action # "REVOKED"
      /\ \A d \in Conns \ {k} : Pair(d)' = Pair(d) /\ (Live(d)' <=> Live(d))
  BY <1>1, <1>2, <1>4 DEF Pair, Live, EventPair
<1>6. AloneOnPair'
  BY <1>2, <1>3 DEF IInv, AloneOnPair
<1>7. OwnId'
  BY <1>1, <1>2, <1>3 DEF IInv, OwnId, TypeOK, Events
<1>8. OwnRow'
  <2> SUFFICES ASSUME NEW q \in Requests, Busy(q), q # r, event'[q] = event[q],
                      event[q].action # "PENDING"
               PROVE  /\ conn'[event[q].entity].status # "ABSENT"
                      /\ conn'[event[q].entity].from = event[q].from
                      /\ conn'[event[q].entity].to = event[q].to
    BY <1>3 DEF OwnRow
  <2>1. event[q].entity \in Conns
    BY DEF IInv, TypeOK, Events
  <2>2. CASE event[q].entity # k
    BY <1>2, <2>1, <2>2 DEF IInv, OwnRow
  <2>3. CASE event[q].entity = k
    <3>1. e.action # "PENDING"
      BY <1>1, <2>3 DEF IInv, OwnId
    <3> QED
      BY <1>1, <1>4, <2>3, <3>1 DEF IInv, OwnRow
  <2> QED
    BY <2>2, <2>3
<1>9. ReadingHolds'
  <2> SUFFICES ASSUME NEW q \in Requests, Busy(q), q # r, event'[q] = event[q],
                      EventPair(event[q]) \notin contended
               PROVE  /\ event[q].action = "PENDING" =>
                             ~LiveBetween(event[q].from, event[q].to)'
                      /\ event[q].action = "APPROVED" =>
                             conn'[event[q].entity].status = "PENDING"
                      /\ event[q].action = "REVOKED" =>
                             conn'[event[q].entity].status = "APPROVED"
    BY <1>2, <1>3 DEF ReadingHolds, LiveBetween, Live, Pair, EventPair
  <2>1. EventPair(event[q]) # EventPair(e)
    BY <1>1 DEF IInv, AloneOnPair
  <2>2. ASSUME event[q].action = "PENDING"
        PROVE  ~LiveBetween(event[q].from, event[q].to)'
    <3>1. ~LiveBetween(event[q].from, event[q].to)
      BY <2>2 DEF IInv, ReadingHolds
    <3> QED
      BY <1>5, <2>1, <3>1 DEF LiveBetween, EventPair
  <2>3. ASSUME event[q].action # "PENDING"
        PROVE  event[q].entity \in Conns \ {k}
    <3>1. e.action # "PENDING" => EventPair(e) = Pair(k)
      BY <1>1 DEF IInv, OwnRow, EventPair, Pair
    <3>2. EventPair(event[q]) = Pair(event[q].entity)
      BY <2>3 DEF IInv, OwnRow, EventPair, Pair
    <3>3. e.action = "PENDING" => event[q].entity # k
      BY <1>1 DEF IInv, OwnId
    <3>4. event[q].entity \in Conns
      BY DEF IInv, TypeOK, Events
    <3> QED
      BY <2>1, <3>1, <3>2, <3>3, <3>4
  <2> QED
    BY <1>2, <2>2, <2>3 DEF IInv, ReadingHolds
<1>10. OneLivePerPair'
  <2>1. ASSUME NEW d \in Conns \ {k}, Live(k)', Live(d), Pair(d) = EventPair(e),
               EventPair(e) \notin contended
        PROVE  FALSE
    <3>1. CASE e.action = "PENDING"
      BY <1>1, <2>1, <3>1 DEF IInv, ReadingHolds, LiveBetween, EventPair
    <3>2. CASE e.action = "APPROVED"
      <4>1. conn[k].status = "PENDING" /\ Pair(k) = EventPair(e)
        BY <1>1, <2>1, <3>2 DEF IInv, ReadingHolds, OwnRow, Pair, EventPair
      <4> QED
        BY <1>1, <2>1, <4>1 DEF IInv, OneLivePerPair, Live
    <3> QED
      BY <1>1, <1>5, <2>1, <3>1, <3>2
  <2>2. ASSUME NEW c \in Conns, NEW d \in Conns, Live(c)', Live(d)', Pair(c)' = Pair(d)',
               Pair(c)' \notin contended
        PROVE  c = d
    <3>1. CASE c # k /\ d # k
      BY <1>5, <2>2, <3>1 DEF IInv, OneLivePerPair
    <3>2. CASE c = k \/ d = k
      BY <1>5, <2>1, <2>2, <3>2
    <3> QED
      BY <3>1, <3>2
  <2> QED
    BY <1>2, <2>2 DEF OneLivePerPair, Live, Pair
<1>11. LoggedBeforeWrite'
  BY <1>2, <1>3 DEF IInv, LoggedBeforeWrite, Busy
<1>12. ResponderMay'
  BY <1>2, <1>3 DEF IInv, ResponderMay, Consented
<1>13. ApprovalIsConsent'
  <2> SUFFICES ASSUME NEW c \in Conns, conn'[c].status \in {"APPROVED", "REVOKED"}
               PROVE  Consented(c, conn'[c].to)
    BY <1>2 DEF ApprovalIsConsent, Consented
  <2>1. CASE c # k
    BY <1>2, <2>1 DEF IInv, ApprovalIsConsent, Consented
  <2>2. CASE c = k
    BY <1>1, <1>4, <2>2 DEF IInv, ResponderMay, Consented
  <2> QED
    BY <2>1, <2>2
<1> QED
  BY <1>6, <1>7, <1>8, <1>9, <1>10, <1>11, <1>12, <1>13 DEF IInv

(* IInv is inductive.                                                      *)
LEMMA NextInv == IInv /\ [Next]_vars => IInv'
<1> SUFFICES ASSUME IInv, [Next]_vars PROVE IInv'
  OBVIOUS
<1>1. TypeOK /\ TypeOK'
  BY NextTyped DEF IInv
<1>2. ASSUME NEW r \in Requests, NEW caller \in Callers, NEW a \in Orgs, NEW b \in Orgs,
             requestConnection(r, caller, a, b)
      PROVE  IInv'
  BY <1>2, RequestEventTyped, RequestChecked, StartInv DEF requestConnection
<1>3. ASSUME NEW r \in Requests, NEW caller \in Callers, NEW c \in Conns,
             NEW s \in {"APPROVED", "REVOKED"}, respondToConnection(r, caller, c, s)
      PROVE  IInv'
  BY <1>1, <1>3, RespondEventTyped, RespondChecked, StartInv DEF respondToConnection
<1>4. ASSUME NEW r \in Requests, logAudit(r) \/ AuditFails(r) \/ Crash(r) PROVE IInv'
  BY <1>1, <1>4, NoWriteInv
<1>5. ASSUME NEW r \in Requests, Write(r) PROVE IInv'
  <2>1. event[r] \in Events /\ event[r].entity \in Conns
    BY <1>1, <1>5 DEF TypeOK, Write, Busy, Events
  <2> QED
    BY <1>1, <1>5, <2>1, WriteInv
<1>6. CASE UNCHANGED vars
  <2>1. AloneOnPair' /\ OwnId' /\ OwnRow'
    BY <1>6 DEF IInv, vars, AloneOnPair, OwnId, OwnRow, Busy, EventPair
  <2>2. ReadingHolds' /\ OneLivePerPair'
    BY <1>6 DEF IInv, vars, ReadingHolds, OneLivePerPair, LiveBetween, Live, Pair, Busy, EventPair
  <2>3. LoggedBeforeWrite' /\ ResponderMay' /\ ApprovalIsConsent'
    BY <1>6 DEF IInv, vars, LoggedBeforeWrite, ResponderMay, ApprovalIsConsent, Consented, Busy
  <2> QED
    BY <1>1, <2>1, <2>2, <2>3 DEF IInv
<1> QED
  BY <1>2, <1>3, <1>4, <1>5, <1>6 DEF Next

(* The inductive invariant holds of every reachable state.                 *)
LEMMA Inductive == Spec => []IInv
<1>1. Init => IInv
  BY DEF Init, IInv, TypeOK, Rows, AloneOnPair, OwnId, OwnRow, ReadingHolds, OneLivePerPair,
         LoggedBeforeWrite, ResponderMay, ApprovalIsConsent, Busy, Live, NoRow
<1> QED
  BY <1>1, NextInv, PTL DEF Spec

-----------------------------------------------------------------------------
(* However many requests run, overlap, time out and crash, a pair of       *)
(* organizations on which no two requests ever overlapped has at most one  *)
(* live connection: the guard of requestConnection needs nothing else.     *)
THEOREM OneLiveConnection == Spec => []OneLivePerPair
BY Inductive, PTL DEF IInv

(* Nothing that overlaps, times out or crashes approves a connection the   *)
(* target organization (or a platform admin) has not consented to, and the *)
(* consent is in the audit log.                                            *)
THEOREM ConsentToApproval == Spec => []ApprovalIsConsent
BY Inductive, PTL DEF IInv

(* No connection row is written whose event is not in the audit log.       *)
THEOREM ConnectionsAuditedFirst == Spec => AuditedFirst
<1>1. Init => Trail!Init
  BY DEF Init, Trail!Init
<1>2. IInv /\ [Next]_vars => [Trail!Next]_(Trail!vars)
  <2> SUFFICES ASSUME IInv, [Next]_vars PROVE [Trail!Next]_(Trail!vars)
    OBVIOUS
  <2> USE DEF Trail!Next, Trail!Log, Trail!Apply, Trail!vars
  <2>1. ASSUME NEW r \in Requests, NEW e, Start(r, e) PROVE UNCHANGED Trail!vars
    BY <2>1 DEF Start
  <2>2. ASSUME NEW r \in Requests, logAudit(r) \/ AuditFails(r)
        PROVE  [Trail!Next]_(Trail!vars)
    BY <2>2 DEF logAudit, AuditFails, IInv, TypeOK, Busy
  <2>3. ASSUME NEW r \in Requests, Write(r) PROVE Trail!Next
    <3>1. event[r] \in audit /\ event[r] \in Events
      BY <2>3 DEF Write, IInv, LoggedBeforeWrite, TypeOK, Busy
    <3> QED
      BY <2>3, <3>1 DEF Write
  <2>4. ASSUME NEW r \in Requests, Crash(r) PROVE UNCHANGED Trail!vars
    BY <2>4 DEF Crash
  <2>5. CASE UNCHANGED vars
    BY <2>5 DEF vars
  <2> QED
    BY <2>1, <2>2, <2>3, <2>4, <2>5 DEF Next, requestConnection, respondToConnection
<1> QED
  BY <1>1, <1>2, Inductive, PTL DEF Spec, AuditedFirst, Trail!Spec

(* The handlers implement the lifecycle of ConnectionLifecycle: starting a *)
(* handler at most contends its pair, its write is a Request, an Approve   *)
(* or a Revoke unless the pair is contended, and every other step is       *)
(* invisible in the table.                                                 *)
THEOREM ImplementsLifecycle == Spec => FollowsLifecycle
<1>1. Init => Lifecycle!Init
  BY DEF Init, Lifecycle!Init, NoRow, Lifecycle!NoRow
<1>2. IInv /\ [Next]_vars => [Lifecycle!Next]_(Lifecycle!vars)
  <2> SUFFICES ASSUME IInv, [Next]_vars PROVE [Lifecycle!Next]_(Lifecycle!vars)
    OBVIOUS
  <2> USE DEF Lifecycle!Next, Lifecycle!vars
  <2>1. ASSUME NEW r \in Requests, NEW e \in Events, Start(r, e)
        PROVE  [Lifecycle!Next]_(Lifecycle!vars)
    BY <2>1 DEF Start, Lifecycle!Contend, EventPair, Events
  <2>2. ASSUME NEW r \in Requests, NEW caller \in Callers, NEW a \in Orgs, NEW b \in Orgs,
               requestConnection(r, caller, a, b)
        PROVE  [Lifecycle!Next]_(Lifecycle!vars)
    BY <2>1, <2>2, RequestEventTyped DEF requestConnection
  <2>3. ASSUME NEW r \in Requests, NEW caller \in Callers, NEW c \in Conns,
               NEW s \in {"APPROVED", "REVOKED"}, respondToConnection(r, caller, c, s)
        PROVE  [Lifecycle!Next]_(Lifecycle!vars)
    BY <2>1, <2>3, RespondEventTyped DEF respondToConnection, IInv
  <2>4. ASSUME NEW r \in Requests, logAudit(r) \/ AuditFails(r) \/ Crash(r)
        PROVE  UNCHANGED Lifecycle!vars
    BY <2>4 DEF logAudit, AuditFails, Crash
  <2>5. ASSUME NEW r \in Requests, Write(r), NEW e \in Events, e = event[r]
        PROVE  Lifecycle!Next
    <3>1. /\ Busy(r)
          /\ e.entity \in Conns /\ e.from \in Orgs /\ e.to \in Orgs
          /\ e.action \in {"PENDING", "APPROVED", "REVOKED"}
          /\ conn' = [conn EXCEPT ![e.entity] = Row(e.action, e.from, e.to)]
          /\ UNCHANGED contended
      BY <2>5 DEF Write, Busy, Events, Statuses
    <3>2. CASE {e.from, e.to} \in contended
      <4>1. conn[e.entity] = NoRow
               \/ (conn[e.entity].from = e.from /\ conn[e.entity].to = e.to)
        BY <2>5, <3>1 DEF IInv, OwnId, OwnRow
      <4>2. Lifecycle!Disordered(e.entity, e.from, e.to, e.action)
        BY <3>1, <3>2, <4>1 DEF Lifecycle!Disordered, Lifecycle!NoRow, NoRow, Lifecycle!Row, Row
      <4> QED
        BY <3>1, <4>2 DEF Lifecycle!Statuses
    <3>3. CASE {e.from, e.to} \notin contended /\ e.action = "PENDING"
      <4>1. ~LiveBetween(e.from, e.to) /\ conn[e.entity] = NoRow /\ e.from # e.to
        BY <2>5, <3>1, <3>3 DEF IInv, ReadingHolds, OwnId, EventPair
      <4>2. Lifecycle!Request(e.entity, e.from, e.to)
        BY <3>1, <3>3, <4>1
        DEF Lifecycle!Request, Lifecycle!NoRow, NoRow, Lifecycle!Row, Row,
            Lifecycle!LiveBetween, LiveBetween, Lifecycle!Live, Live, Lifecycle!Pair, Pair
      <4> QED
        BY <3>1, <4>2
    <3>4. CASE {e.from, e.to} \notin contended /\ e.action # "PENDING"
      <4>1. /\ conn[e.entity].from = e.from
            /\ conn[e.entity].to = e.to
            /\ conn[e.entity].status = (IF e.action = "APPROVED" THEN "PENDING" ELSE "APPROVED")
        BY <2>5, <3>1, <3>4 DEF IInv, ReadingHolds, OwnRow, EventPair
      <4>2. [conn[e.entity] EXCEPT !.status = e.action] = Row(e.action, e.from, e.to)
        BY <3>1, <4>1 DEF IInv, TypeOK, Rows, Row, NoRow
      <4>3. Lifecycle!Approve(e.entity) \/ Lifecycle!Revoke(e.entity)
        BY <3>1, <3>4, <4>1, <4>2 DEF Lifecycle!Approve, Lifecycle!Revoke
      <4> QED
        BY <3>1, <4>3
    <3> QED
      BY <3>2, <3>3, <3>4
  <2>6. ASSUME NEW r \in Requests, Write(r) PROVE Lifecycle!Next
    BY <2>5, <2>6 DEF Write, IInv, TypeOK, Busy
  <2>7. CASE UNCHANGED vars
    BY <2>7 DEF vars
  <2> QED
    BY <2>2, <2>3, <2>4, <2>6, <2>7 DEF Next
<1> QED
  BY <1>1, <1>2, Inductive, PTL DEF Spec, FollowsLifecycle, Lifecycle!Spec
=============================================================================
