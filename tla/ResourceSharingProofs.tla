----------------------- MODULE ResourceSharingProofs -----------------------
(***************************************************************************)
(* Proofs about ResourceSharing, for any partners, callers, rows and       *)
(* number of concurrently running handlers, and whatever ConnectionLife-   *)
(* cycle lets identity-service do in between.                              *)
(*                                                                         *)
(* The argument.  A handler holds, from what it read before it waits, a    *)
(* claim on the rows: its id is nobody else's (OwnId), the share it will   *)
(* revoke is a share or gone (RevokesAShare), there is no other share of   *)
(* the partner it is about to insert one for (FoundNoShare, for partners   *)
(* whose createShares have not overlapped), the organization it writes for *)
(* has a share (GuestHasShare) and a connection that was once approved     *)
(* (GuestIsBacked).  Each claim is what the write then needs, and each is  *)
(* inductive only together with what kind of handler can be where          *)
(* (RightPlace).                                                           *)
(***************************************************************************)
EXTENDS ResourceSharing, TLAPS

(* The actions that insert a row, that a guest may take, and that write.   *)
Inserts == {"shared", "commented", "attached"}

(* Which handlers wait where, and with which id and organization. *)
RightPlace ==
    \A r \in Requests : Busy(r) =>
        LET l == local[r]
        IN  /\ l.event.action \in Inserts \cup {"shareRevoked"} <=> l.event.id \in Ids
            /\ l.event.action = "shared" => l.org \in Partners
            /\ l.event.action = "attached" => l.org = Owner
            /\ pc[r] = "connection" => l.org # Owner /\ l.event.action \in {"shared", "commented", "viewed"}
            /\ pc[r] = "duplicate" => l.event.action = "shared"
            /\ pc[r] = "answer" => l.event.action = "viewed"
            /\ pc[r] = "file" => l.event.action = "attached"
            /\ pc[r] \in {"audit", "write"} => l.event.action # "viewed"

(* The id a running handler will insert has no row, and is not in use. *)
OwnId ==
    \A r \in Requests :
        Busy(r) /\ local[r].event.action \in Inserts =>
            /\ row[local[r].event.id] = Absent
            /\ \A q \in Requests : Busy(q) /\ q # r => local[q].event.id # local[r].event.id

(* What a running revokeShare will revoke is still a share, or is gone. *)
RevokesAShare ==
    \A r \in Requests :
        Busy(r) /\ local[r].event.action = "shareRevoked" =>
            \/ row[local[r].event.id] = Absent
            \/ row[local[r].event.id].kind = "share"

(* The event of a handler past the audit call is recorded. *)
LoggedBeforeWrite ==
    \A r \in Requests : pc[r] \in {"file", "write"} => local[r].event \in audit

(* The file of an attachment about to be inserted is on disk. *)
FileBeforeRow ==
    \A r \in Requests :
        pc[r] = "write" /\ local[r].event.action = "attached" => local[r].event.id \in files

(* Two createShares for one partner make it doubled. *)
Sharing(r) == Busy(r) /\ local[r].event.action = "shared"

OneSharer ==
    \A r, q \in Requests :
        Sharing(r) /\ Sharing(q) /\ local[r].org = local[q].org /\ local[r].org \notin doubled
            => r = q

(* What createShare found before its audit call still holds. *)
FoundNoShare ==
    \A r \in Requests :
        Sharing(r) /\ pc[r] \in {"audit", "write"} /\ local[r].org \notin doubled
            => ~Shared(local[r].org)

(* p has a share of the resource, revoked or not. *)
EverShared(p) == \E j \in Ids : row[j] # Absent /\ row[j].kind = "share" /\ row[j].org = p

(* p's connection with the owner was approved, as far as that is promised. *)
Backed(p) ==
    \/ {Owner, p} \in contended
    \/ \E c \in Conns : Identity!Pair(c) = {Owner, p} /\ conn[c].status \in {"APPROVED", "REVOKED"}

(* The resource is created once, while nothing else runs. *)
CreatesAlone ==
    \A r \in Requests :
        Busy(r) /\ local[r].event.action = "created" =>
            resource = "none" /\ \A q \in Requests : Busy(q) => q = r

(* A guest's comment is written only for an organization with a share, and *)
(* nothing is written for one whose connection was never approved.         *)
GuestHasShare ==
    \A r \in Requests :
        Busy(r) /\ local[r].event.action = "commented" /\ local[r].org # Owner
            => resource = "deleted" \/ EverShared(local[r].org)

GuestIsBacked ==
    \A r \in Requests :
        /\ pc[r] \in {"duplicate", "audit", "write"}
        /\ local[r].event.action \in Inserts
        /\ local[r].org # Owner
        => Backed(local[r].org)

TypeInv == TypeOK /\ RightPlace /\ OwnId /\ RevokesAShare

TrailInv == LoggedBeforeWrite /\ FileBeforeRow /\ AttachmentsOnDisk

ShareInv == OneSharer /\ FoundNoShare /\ OneActiveShare

GuestInv == CreatesAlone /\ GuestHasShare /\ GuestIsBacked /\ GuestRowsRestOnSharing

-----------------------------------------------------------------------------
(* What each kind of step does, pointwise.                                 *)

Labels == {"idle", "connection", "duplicate", "audit", "file", "write", "answer"}

(* A handler that starts takes nothing from the others. *)
Joins(r, label, l) ==
    /\ ~Busy(r)
    /\ pc' = [pc EXCEPT ![r] = label]
    /\ local' = [local EXCEPT ![r] = l]
    /\ pc'[r] = label
    /\ local'[r] = l
    /\ \A q \in Requests : q # r => pc'[q] = pc[q] /\ local'[q] = local[q]
    /\ UNCHANGED <<resource, row, files, applied, audit>>
    /\ doubled' = IF /\ l.event.action = "shared"
                     /\ \E q \in Requests : Sharing(q) /\ local[q].org = l.org
                  THEN doubled \cup {l.org} ELSE doubled

(* What its checks establish about the event and the organization it goes  *)
(* on with.                                                                *)
Checked(label, l) ==
    /\ IF l.event.action = "created"
       THEN resource = "none" /\ \A q \in Requests : ~Busy(q)
       ELSE resource = "there"
    /\ label \in {"connection", "audit", "answer"}
    /\ l.event.action \in Inserts \cup {"shareRevoked"} <=> l.event.id \in Ids
    /\ l.event.action \in Inserts => Fresh(l.event.id)
    /\ l.event.action = "shared" => label = "connection" /\ l.org \in Partners
    /\ l.event.action = "attached" => label = "audit" /\ l.org = Owner
    /\ l.event.action = "commented" /\ l.org # Owner => label = "connection" /\ Shared(l.org)
    /\ l.event.action = "viewed" => label \in {"connection", "answer"}
    /\ l.event.action = "viewed" /\ l.org # Owner => label = "connection"
    /\ l.event.action = "shareRevoked" => \E p \in Partners : Share(l.event.id, p)
    /\ label = "connection" => l.org # Owner /\ l.event.action \in {"shared", "commented", "viewed"}
    /\ label = "answer" => l.event.action = "viewed"

(* A request that starts takes a free slot.                                *)
LEMMA StartJoins ==
    ASSUME TypeOK, NEW r \in Requests, NEW label, NEW action, NEW i, NEW org,
           Start(r, label, action, i, org)
    PROVE  Joins(r, label, [event |-> [action |-> action, id |-> i], org |-> org])
BY DEF TypeOK, Start, Joins, Busy, rows, Sharing

(* Every way to begin a request.                                           *)
LEMMA BeginJoins ==
    ASSUME TypeOK, NEW r \in Requests, Begin(r)
    PROVE  \E label \in Labels \ {"idle"}, l \in Handlers :
              Joins(r, label, l) /\ Checked(label, l)
<1>0. /\ Owner \notin Partners
      /\ TheResource \notin Ids
      /\ \A caller \in Callers : caller.org \in Orgs
  BY SharingAssumption DEF Orgs
<1> DEFINE H(action, i, org) == [event |-> [action |-> action, id |-> i], org |-> org]
<1>1. ASSUME NEW label \in Labels \ {"idle"}, NEW action \in Actions,
             NEW i \in Ids \cup {TheResource}, NEW org \in Orgs,
             Start(r, label, action, i, org), Checked(label, H(action, i, org))
      PROVE  \E m \in Labels \ {"idle"}, l \in Handlers : Joins(r, m, l) /\ Checked(m, l)
  <2>1. H(action, i, org) \in Handlers
    BY DEF Handlers, Events
  <2>2. Joins(r, label, H(action, i, org))
    BY <1>1, StartJoins
  <2> HIDE DEF H
  <2> QED
    BY <2>1, <2>2, <1>1
<1>2. PICK caller \in Callers :
        \/ createTicket(r, caller)
        \/ view(r, caller)
        \/ deleteResource(r, caller)
        \/ \E i \in Ids :
              \/ \E p \in Orgs : createShare(r, caller, p, i)
              \/ revokeShare(r, caller, i)
              \/ createComment(r, caller, i)
              \/ createAttachment(r, caller, i)
  BY DEF Begin
<1>3. caller.org \in Orgs
  BY <1>0
<1>4. CASE createTicket(r, caller)
  <2>1. /\ Start(r, "audit", "created", TheResource, Owner)
        /\ resource = "none" /\ \A q \in Requests : ~Busy(q)
    BY <1>4 DEF createTicket
  <2>2. Checked("audit", H("created", TheResource, Owner))
    BY <1>0, <2>1 DEF Checked, Inserts
  <2> QED
    BY <1>1, <2>1, <2>2 DEF Labels, Actions, Orgs
<1>5. CASE view(r, caller)
  <2>1. resource = "there"
    BY <1>5 DEF view, Resolve
  <2>2. CASE Start(r, "answer", "viewed", TheResource, Owner)
    <3>1. Checked("answer", H("viewed", TheResource, Owner))
      BY <1>0, <2>1 DEF Checked, Inserts
    <3> QED
      BY <1>1, <2>2, <3>1 DEF Labels, Actions, Orgs
  <2>3. CASE ~ownsResource(caller) /\ Start(r, "connection", "viewed", TheResource, caller.org)
    <3>1. Checked("connection", H("viewed", TheResource, caller.org))
      BY <1>0, <2>1, <2>3 DEF Checked, Inserts, ownsResource
    <3> QED
      BY <1>1, <1>3, <2>3, <3>1 DEF Labels, Actions
  <2> QED
    BY <1>5, <2>2, <2>3 DEF view, Resolve
<1>6. CASE deleteResource(r, caller)
  <2>1. Start(r, "audit", "deleted", TheResource, Owner) /\ resource = "there"
    BY <1>6 DEF deleteResource
  <2>2. Checked("audit", H("deleted", TheResource, Owner))
    BY <1>0, <2>1 DEF Checked, Inserts
  <2> QED
    BY <1>1, <2>1, <2>2 DEF Labels, Actions, Orgs
<1>7. ASSUME NEW i \in Ids, NEW p \in Orgs, createShare(r, caller, p, i)
      PROVE  \E m \in Labels \ {"idle"}, l \in Handlers : Joins(r, m, l) /\ Checked(m, l)
  <2>1. Start(r, "connection", "shared", i, p) /\ resource = "there" /\ p # Owner /\ Fresh(i)
    BY <1>7 DEF createShare
  <2>2. Checked("connection", H("shared", i, p))
    BY <1>0, <2>1 DEF Checked, Inserts, Orgs
  <2> QED
    BY <1>1, <2>1, <2>2 DEF Labels, Actions
<1>8. ASSUME NEW i \in Ids, revokeShare(r, caller, i)
      PROVE  \E m \in Labels \ {"idle"}, l \in Handlers : Joins(r, m, l) /\ Checked(m, l)
  <2>1. PICK p \in Partners : Share(i, p) /\ Start(r, "audit", "shareRevoked", i, p)
    BY <1>8 DEF revokeShare
  <2>2. Checked("audit", H("shareRevoked", i, p))
    BY <1>0, <1>8, <2>1 DEF Checked, Inserts, revokeShare
  <2> QED
    BY <1>1, <2>1, <2>2 DEF Labels, Actions, Orgs
<1>9. ASSUME NEW i \in Ids, createComment(r, caller, i)
      PROVE  \E m \in Labels \ {"idle"}, l \in Handlers : Joins(r, m, l) /\ Checked(m, l)
  <2>1. resource = "there" /\ Fresh(i)
    BY <1>9 DEF createComment, Resolve
  <2>2. CASE Start(r, "audit", "commented", i, Owner)
    <3>1. Checked("audit", H("commented", i, Owner))
      BY <1>0, <2>1 DEF Checked, Inserts
    <3> QED
      BY <1>1, <2>2, <3>1 DEF Labels, Actions, Orgs
  <2>3. CASE /\ ~ownsResource(caller) /\ Shared(caller.org)
             /\ Start(r, "connection", "commented", i, caller.org)
    <3>1. Checked("connection", H("commented", i, caller.org))
      BY <1>0, <2>1, <2>3 DEF Checked, Inserts, ownsResource
    <3> QED
      BY <1>1, <1>3, <2>3, <3>1 DEF Labels, Actions
  <2> QED
    BY <1>9, <2>2, <2>3 DEF createComment, Resolve
<1>10. ASSUME NEW i \in Ids, createAttachment(r, caller, i)
       PROVE  \E m \in Labels \ {"idle"}, l \in Handlers : Joins(r, m, l) /\ Checked(m, l)
  <2>1. Start(r, "audit", "attached", i, Owner) /\ resource = "there" /\ Fresh(i)
    BY <1>10 DEF createAttachment
  <2>2. Checked("audit", H("attached", i, Owner))
    BY <1>0, <2>1 DEF Checked, Inserts
  <2> QED
    BY <1>1, <2>1, <2>2 DEF Labels, Actions, Orgs
<1> QED
  BY <1>2, <1>4, <1>5, <1>6, <1>7, <1>8, <1>9, <1>10

(* Where a handler that does not finish goes next, and on what condition.  *)
Proceeds(r) ==
    /\ local' = local
    /\ UNCHANGED <<resource, row>>
    /\ \/ /\ pc[r] = "connection" /\ Approved(local[r].org)
          /\ \/ local[r].event.action = "shared" /\ pc'[r] = "duplicate"
             \/ local[r].event.action = "commented" /\ pc'[r] = "audit"
             \/ local[r].event.action = "viewed" /\ pc'[r] = "answer"
       \/ pc[r] = "duplicate" /\ ~Shared(local[r].org) /\ pc'[r] = "audit"
       \/ /\ pc[r] = "audit" /\ local[r].event \in audit'
          /\ pc'[r] = IF local[r].event.action = "attached" THEN "file" ELSE "write"
       \/ pc[r] = "file" /\ local[r].event.id \in files' /\ pc'[r] = "write"

(* How a handler finishes: without a write, or with its write. *)
Leaves(r) == pc'[r] = "idle" /\ local' = [local EXCEPT ![r] = NoHandler]

Writes(r) == /\ pc[r] = "write"
             /\ applied' = applied \cup {local[r].event}
             /\ WriteResource(r) \/ WriteRow(r) \/ WriteRevoked(r) \/ WriteDelete(r)

(* Every other action moves one slot that is taken.                        *)
LEMMA AdvanceMoves ==
    ASSUME TypeOK, RightPlace, NEW r \in Requests, Advance(r)
    PROVE  /\ Busy(r)
           /\ pc' = [pc EXCEPT ![r] = pc'[r]]
           /\ pc'[r] \in Labels
           /\ \A q \in Requests : q # r => pc'[q] = pc[q] /\ local'[q] = local[q]
           /\ doubled' = doubled
           /\ audit \subseteq audit'
           /\ audit' \subseteq audit \cup {local[r].event}
           /\ files \subseteq files'
           /\ files' = files \/ (pc[r] = "file" /\ files' = files \cup {local[r].event.id})
           /\ \/ Proceeds(r) /\ UNCHANGED applied
              \/ Leaves(r) /\ UNCHANGED <<resource, row, applied>>
              \/ Leaves(r) /\ Writes(r)
<1>0. /\ pc \in [Requests -> Labels]
      /\ local \in [Requests -> Handlers \cup {NoHandler}]
  BY DEF TypeOK, Labels
<1>1. ASSUME NEW label \in Labels, Goto(r, label)
      PROVE  /\ pc' = [pc EXCEPT ![r] = pc'[r]]
             /\ pc'[r] = label
             /\ \A q \in Requests : q # r => pc'[q] = pc[q] /\ local'[q] = local[q]
             /\ doubled' = doubled
             /\ label # "idle" => local' = local
             /\ label = "idle" => local' = [local EXCEPT ![r] = NoHandler]
  BY <1>0, <1>1 DEF Goto
<1>2. CASE Connected(r)
  <2>1. local[r].event.action \in {"shared", "commented", "viewed"}
    BY <1>2 DEF Connected, RightPlace, Busy
  <2>2. Granted(local[r].event.action) \in {"duplicate", "audit", "answer"}
    BY <2>1 DEF Granted
  <2> QED
    BY <1>1, <1>2, <2>1, <2>2 DEF Connected, Granted, Proceeds, rows, Busy, Labels
<1>3. CASE Denied(r) \/ Answer(r)
  BY <1>1, <1>3 DEF Denied, Answer, Leaves, rows, Busy, Labels
<1>4. CASE NoDuplicate(r)
  BY <1>1, <1>4 DEF NoDuplicate, Leaves, Proceeds, rows, Busy, Labels
<1>5. CASE logAudit(r)
  BY <1>1, <1>5 DEF logAudit, Proceeds, rows, Busy, Labels
<1>6. CASE AuditFails(r)
  BY <1>1, <1>6 DEF AuditFails, Leaves, rows, Busy, Labels
<1>7. CASE WriteFile(r)
  BY <1>1, <1>7 DEF WriteFile, Proceeds, Busy, Labels
<1>8. CASE pc[r] = "write" /\ (WriteResource(r) \/ WriteRow(r) \/ WriteRevoked(r) \/ WriteDelete(r))
  <2>1. Written(r)
    BY <1>8 DEF WriteResource, WriteRow, WriteRevoked, WriteDelete
  <2> QED
    BY <1>1, <1>8, <2>1 DEF Written, Writes, Leaves, Busy, Labels
<1>9. CASE Crash(r)
  BY <1>1, <1>9 DEF Crash, Leaves, rows, Labels
<1> QED
  BY <1>2, <1>3, <1>4, <1>5, <1>6, <1>7, <1>8, <1>9 DEF Advance

(* Whatever identity-service does: a row stays a row, and a pair whose     *)
(* connection was approved, or is contended, stays such a pair.            *)
LEMMA IdentityMoves ==
    ASSUME TypeOK, Identity!Next
    PROVE  /\ conn' \in [Conns -> [status : Identity!Statuses,
                                   from : Orgs \cup {NoOrg}, to : Orgs \cup {NoOrg}]]
           /\ contended' \subseteq SUBSET Orgs
           /\ \A p \in Orgs : Backed(p) => Backed(p)'
<1>0. /\ conn \in [Conns -> [status : Identity!Statuses,
                             from : Orgs \cup {NoOrg}, to : Orgs \cup {NoOrg}]]
      /\ contended \subseteq SUBSET Orgs
  BY DEF TypeOK
<1>1. ASSUME NEW c \in Conns, Identity!Approve(c) \/ Identity!Revoke(c)
      PROVE  /\ conn' \in [Conns -> [status : Identity!Statuses,
                                     from : Orgs \cup {NoOrg}, to : Orgs \cup {NoOrg}]]
             /\ contended' = contended
             /\ \A d \in Conns : /\ conn'[d].from = conn[d].from
                                 /\ conn'[d].to = conn[d].to
                                 /\ conn[d].status \in {"APPROVED", "REVOKED"}
                                       => conn'[d].status \in {"APPROVED", "REVOKED"}
  BY <1>0, <1>1 DEF Identity!Approve, Identity!Revoke, Identity!Statuses
<1>2. ASSUME NEW c \in Conns, NEW a \in Orgs, NEW b \in Orgs,
             \/ Identity!Request(c, a, b)
             \/ \E s \in Identity!Statuses \ {"ABSENT"} : Identity!Disordered(c, a, b, s)
      PROVE  /\ conn' \in [Conns -> [status : Identity!Statuses,
                                     from : Orgs \cup {NoOrg}, to : Orgs \cup {NoOrg}]]
             /\ contended' = contended
             /\ \A p \in Orgs : Backed(p) => Backed(p)'
  <2>1. PICK s \in Identity!Statuses :
           /\ conn' = [conn EXCEPT ![c] = Identity!Row(s, a, b)]
           /\ contended' = contended
           /\ \/ conn[c] = Identity!NoRow
              \/ {a, b} \in contended /\ conn[c].from = a /\ conn[c].to = b
    BY <1>2 DEF Identity!Request, Identity!Disordered, Identity!Statuses
  <2>2. Identity!Row(s, a, b) \in [status : Identity!Statuses,
                                   from : Orgs \cup {NoOrg}, to : Orgs \cup {NoOrg}]
    BY DEF Identity!Row
  <2>3. conn' \in [Conns -> [status : Identity!Statuses,
                             from : Orgs \cup {NoOrg}, to : Orgs \cup {NoOrg}]]
    BY <1>0, <2>1, <2>2
  <2>4. ASSUME NEW p \in Orgs, Backed(p) PROVE Backed(p)'
    <3>1. CASE {Owner, p} \in contended
      BY <2>1, <3>1 DEF Backed
    <3>2. ASSUME {Owner, p} \notin contended PROVE Backed(p)'
      <4>1. PICK d \in Conns : /\ Identity!Pair(d) = {Owner, p}
                               /\ conn[d].status \in {"APPROVED", "REVOKED"}
        BY <2>4, <3>2 DEF Backed
      <4>2. d # c
        BY <2>1, <3>2, <4>1 DEF Identity!NoRow, Identity!Pair
      <4>3. conn'[d] = conn[d]
        BY <1>0, <2>1, <4>2
      <4> QED
        BY <4>1, <4>3 DEF Backed, Identity!Pair
    <3> QED
      BY <3>1, <3>2
  <2> QED
    BY <2>1, <2>3, <2>4
<1>3. ASSUME NEW a \in Orgs, NEW b \in Orgs, Identity!Contend(a, b)
      PROVE  conn' = conn /\ contended' = contended \cup {{a, b}}
  BY <1>3 DEF Identity!Contend
<1>4. CASE \E c \in Conns : Identity!Approve(c) \/ Identity!Revoke(c)
  <2>1. PICK c \in Conns : Identity!Approve(c) \/ Identity!Revoke(c)
    BY <1>4
  <2>2. \A p \in Orgs : Backed(p) => Backed(p)'
    BY <1>1, <2>1 DEF Backed, Identity!Pair
  <2> QED
    BY <1>0, <1>1, <2>1, <2>2
<1>5. CASE \E a, b \in Orgs : Identity!Contend(a, b)
  BY <1>0, <1>3, <1>5 DEF Backed, Identity!Pair
<1> QED
  BY <1>0, <1>2, <1>4, <1>5 DEF Identity!Next

-----------------------------------------------------------------------------
(* TypeInv is inductive.                                                   *)

(* The part of a row's and a handler's types that their ids need.          *)
LEMMA WritesTyped ==
    ASSUME TypeInv, NEW r \in Requests, Busy(r), Writes(r)
    PROVE  /\ resource' \in {"none", "there", "deleted"}
           /\ row' \in [Ids -> Rows \cup {Absent}]
           /\ applied' \subseteq Events
           /\ \A i \in Ids : i # local[r].event.id => row'[i] = row[i] \/ row'[i] = Absent
           /\ \A i \in Ids : row[i] # Absent /\ row[i].kind = "share" =>
                                 row'[i] = Absent \/ row'[i].kind = "share"
<1>0. /\ local[r] \in Handlers
      /\ row \in [Ids -> Rows \cup {Absent}]
      /\ resource \in {"none", "there", "deleted"}
      /\ applied \subseteq Events
      /\ local[r].event.action = "shared" => local[r].org \in Partners
  BY DEF TypeInv, TypeOK
<1>1. Absent \notin Rows
  BY SharingAssumption DEF Rows, Orgs
<1>2. applied' \subseteq Events
  BY <1>0 DEF Writes, Handlers
<1>3. CASE WriteResource(r)
  BY <1>0, <1>2, <1>3 DEF WriteResource
<1>4. CASE WriteRow(r)
  <2> DEFINE l == local[r]
             new == [kind |-> RowKind[l.event.action], org |-> l.org, revoked |-> FALSE]
  <2>1. /\ l.event.action \in Inserts
        /\ row' = [row EXCEPT ![l.event.id] = new]
        /\ resource' = resource
    BY <1>4 DEF WriteRow, RowKind, Inserts
  <2>2. l.event.id \in Ids /\ row[l.event.id] = Absent
    BY <2>1 DEF TypeInv, RightPlace, OwnId
  <2>3. /\ l.org \in Orgs
        /\ l.event.action = "attached" => l.org = Owner
    BY <1>0, <2>1 DEF Handlers, TypeInv, RightPlace
  <2>4. new \in Rows
    BY <1>0, <2>1, <2>3 DEF Rows, RowKind, Inserts, Orgs
  <2> HIDE DEF new
  <2> QED
    BY <1>0, <1>2, <2>1, <2>2, <2>4
<1>5. CASE WriteRevoked(r)
  <2> DEFINE i == local[r].event.id
  <2>1. /\ row[i] # Absent
        /\ row' = [row EXCEPT ![i].revoked = TRUE]
        /\ resource' = resource
        /\ local[r].event.action = "shareRevoked"
    BY <1>5 DEF WriteRevoked
  <2>2. i \in Ids /\ row[i].kind = "share"
    BY <2>1 DEF TypeInv, RightPlace, RevokesAShare
  <2>3. row[i] \in [kind : {"share"}, org : Partners, revoked : BOOLEAN]
    BY <1>0, <2>1, <2>2 DEF Rows
  <2>4. [row[i] EXCEPT !.revoked = TRUE] \in [kind : {"share"}, org : Partners, revoked : BOOLEAN]
    BY <2>3
  <2>5. row'[i] \in [kind : {"share"}, org : Partners, revoked : BOOLEAN]
    BY <1>0, <2>1, <2>2, <2>4
  <2>6. \A j \in Ids : j # i => row'[j] = row[j]
    BY <1>0, <2>1, <2>2
  <2>7. row' \in [Ids -> Rows \cup {Absent}]
    BY <1>0, <2>1, <2>2, <2>4 DEF Rows
  <2> QED
    BY <1>0, <1>2, <2>1, <2>5, <2>6, <2>7
<1>6. CASE WriteDelete(r)
  BY <1>0, <1>2, <1>6 DEF WriteDelete
<1> QED
  BY <1>3, <1>4, <1>5, <1>6 DEF Writes

(* A request that begins is typed.                                         *)
LEMMA BeginTyped ==
    ASSUME TypeInv, NEW r \in Requests, Begin(r), UNCHANGED <<conn, contended>>, closed' \subseteq Requests
    PROVE  TypeInv'
<1>1. PICK label \in Labels \ {"idle"}, l \in Handlers : Joins(r, label, l) /\ Checked(label, l)
  BY BeginJoins DEF TypeInv
<1>2. TypeOK'
  <2>1. /\ pc' \in [Requests -> Labels]
        /\ local' \in [Requests -> Handlers \cup {NoHandler}]
    BY <1>1 DEF TypeInv, TypeOK, Joins, Labels
  <2>2. \A q \in Requests :
           IF pc'[q] # "idle"
           THEN local'[q] \in Handlers /\ (local'[q].event.action = "shared" => local'[q].org \in Partners)
           ELSE local'[q] = NoHandler
    BY <1>1 DEF TypeInv, TypeOK, Joins, Checked, Busy
  <2>3. doubled' \subseteq Partners
    BY <1>1 DEF TypeInv, TypeOK, Joins, Checked
  <2> QED
    BY <1>1, <2>1, <2>2, <2>3 DEF TypeInv, TypeOK, Joins, Busy, Labels, Identity!Statuses
<1>3. RightPlace'
  BY <1>1 DEF TypeInv, RightPlace, Joins, Checked, Busy, Labels
<1>4. \A i \in Ids : Fresh(i) => /\ row[i] = Absent
                                 /\ \A q \in Requests : Busy(q) => local[q].event.id # i
  BY DEF Fresh
<1>5. Absent \notin Rows
  BY SharingAssumption DEF Rows, Orgs
<1>6. OwnId'
  <2>1. \A q \in Requests \ {r} : Busy(q) /\ local[q].event.action \in Inserts => local[q].event.id # l.event.id
    <3> SUFFICES ASSUME NEW q \in Requests \ {r}, Busy(q), local[q].event.action \in Inserts,
                        local[q].event.id = l.event.id
                 PROVE  FALSE
      OBVIOUS
    <3>1. l.event.id \in Ids /\ row[l.event.id] = Absent
      BY DEF TypeInv, RightPlace, OwnId
    <3>2. l.event.action \notin Inserts
      BY <1>1, <1>4, <3>1 DEF Checked
    <3>3. l.event.action = "shareRevoked"
      BY <1>1, <3>1, <3>2 DEF Checked
    <3>4. PICK p \in Partners : row[l.event.id] = [kind |-> "share", org |-> p, revoked |-> FALSE]
      BY <1>1, <3>3 DEF Checked, Share
    <3> QED
      BY <3>1, <3>4, <1>5 DEF Rows
  <2>2. l.event.action \in Inserts =>
           row[l.event.id] = Absent /\ \A q \in Requests : Busy(q) => local[q].event.id # l.event.id
    BY <1>1, <1>4 DEF Checked
  <2> QED
    BY <1>1, <2>1, <2>2 DEF TypeInv, OwnId, Joins, Busy
<1>7. RevokesAShare'
  <2>1. ASSUME l.event.action = "shareRevoked" PROVE row[l.event.id].kind = "share"
    <3>1. PICK p \in Partners : Share(l.event.id, p)
      BY <1>1, <2>1 DEF Checked
    <3>2. row[l.event.id] = [kind |-> "share", org |-> p, revoked |-> FALSE]
      BY <3>1 DEF Share
    <3> QED
      BY <3>2
  <2> QED
    BY <1>1, <2>1 DEF TypeInv, RevokesAShare, Joins, Busy
<1> QED
  BY <1>2, <1>3, <1>6, <1>7 DEF TypeInv

(* Every other action keeps the types.                                     *)
LEMMA AdvanceTyped ==
    ASSUME TypeInv, NEW r \in Requests, Advance(r), UNCHANGED <<conn, contended>>, closed' \subseteq Requests
    PROVE  TypeInv'
<1> USE DEF TypeInv
<1>1. /\ Busy(r)
      /\ pc' = [pc EXCEPT ![r] = pc'[r]]
      /\ pc'[r] \in Labels
      /\ \A q \in Requests : q # r => pc'[q] = pc[q] /\ local'[q] = local[q]
      /\ doubled' = doubled
      /\ audit' \subseteq audit \cup {local[r].event}
      /\ files' = files \/ (pc[r] = "file" /\ files' = files \cup {local[r].event.id})
      /\ \/ Proceeds(r) /\ UNCHANGED applied
         \/ Leaves(r) /\ UNCHANGED <<resource, row, applied>>
         \/ Leaves(r) /\ Writes(r)
  BY AdvanceMoves
<1>2. local[r] \in Handlers /\ (pc[r] = "file" => local[r].event.id \in Ids)
  BY <1>1 DEF TypeOK, RightPlace, Inserts
<1>3. /\ resource' \in {"none", "there", "deleted"}
      /\ row' \in [Ids -> Rows \cup {Absent}]
      /\ applied' \subseteq Events
      /\ \A i \in Ids : i # local[r].event.id => row'[i] = row[i] \/ row'[i] = Absent
      /\ \A i \in Ids : row[i] # Absent /\ row[i].kind = "share" =>
                            row'[i] = Absent \/ row'[i].kind = "share"
  BY <1>1, WritesTyped DEF TypeOK, Proceeds
<1>4. \/ pc'[r] # "idle" /\ local' = local /\ UNCHANGED <<resource, row>>
      \/ pc'[r] = "idle" /\ local' = [local EXCEPT ![r] = NoHandler]
  BY <1>1 DEF Proceeds, Leaves
<1>5. TypeOK'
  <2>1. /\ pc' \in [Requests -> Labels]
        /\ local' \in [Requests -> Handlers \cup {NoHandler}]
    BY <1>1, <1>4 DEF TypeOK, Labels
  <2>2. \A q \in Requests :
           IF pc'[q] # "idle"
           THEN local'[q] \in Handlers /\ (local'[q].event.action = "shared" => local'[q].org \in Partners)
           ELSE local'[q] = NoHandler
    BY <1>1, <1>4 DEF TypeOK, Busy
  <2>3. audit' \subseteq Events /\ files' \subseteq Ids /\ doubled' \subseteq Partners
    BY <1>1, <1>2 DEF TypeOK, Handlers
  <2> QED
    BY <1>3, <2>1, <2>2, <2>3 DEF TypeOK, Busy, Labels, Identity!Statuses
<1>6. RightPlace'
  BY <1>1, <1>4 DEF RightPlace, Proceeds, Leaves, Busy, Labels
<1>7. OwnId'
  <2> SUFFICES ASSUME NEW q \in Requests, pc'[q] # "idle", local'[q].event.action \in Inserts
               PROVE  /\ row'[local'[q].event.id] = Absent
                      /\ \A s \in Requests : pc'[s] # "idle" /\ s # q => local'[s].event.id # local'[q].event.id
    BY DEF OwnId, Busy
  <2>1. \A s \in Requests : pc'[s] # "idle" => Busy(s) /\ local'[s] = local[s]
    BY <1>1, <1>4 DEF Busy
  <2>2. /\ row[local[q].event.id] = Absent
        /\ local[q].event.id \in Ids
        /\ \A s \in Requests : Busy(s) /\ s # q => local[s].event.id # local[q].event.id
    BY <2>1 DEF OwnId, RightPlace
  <2>3. CASE q = r
    BY <1>4, <2>1, <2>2, <2>3
  <2>4. CASE q # r
    BY <1>1, <1>3, <2>1, <2>2, <2>4
  <2> QED
    BY <2>3, <2>4
<1>8. RevokesAShare'
  <2> SUFFICES ASSUME NEW q \in Requests, pc'[q] # "idle", local'[q].event.action = "shareRevoked"
               PROVE  row'[local'[q].event.id] = Absent \/ row'[local'[q].event.id].kind = "share"
    BY DEF RevokesAShare, Busy
  <2>1. Busy(q) /\ local'[q] = local[q]
    BY <1>1, <1>4 DEF Busy
  <2>2. /\ local[q].event.id \in Ids
        /\ row[local[q].event.id] = Absent \/ row[local[q].event.id].kind = "share"
    BY <2>1 DEF RevokesAShare, RightPlace
  <2>3. CASE q = r
    BY <1>4, <2>1, <2>2, <2>3
  <2>4. CASE q # r /\ local[q].event.id = local[r].event.id
    <3>1. local[r].event.action \notin Inserts
      BY <1>1, <2>1, <2>4 DEF OwnId
    <3>2. \/ UNCHANGED row
          \/ WriteRow(r) \/ WriteRevoked(r) \/ WriteDelete(r)
      BY <1>1 DEF Proceeds, Writes, WriteResource
    <3>3. row'[local[q].event.id] = row[local[q].event.id]
             \/ row'[local[q].event.id] = Absent
             \/ row[local[q].event.id] # Absent
      BY <2>2, <2>4, <3>1, <3>2 DEF WriteRow, WriteRevoked, WriteDelete, Inserts, RowKind
    <3> QED
      BY <1>3, <2>1, <2>2, <3>3
  <2>5. CASE q # r /\ local[q].event.id # local[r].event.id
    BY <1>3, <2>1, <2>2, <2>5
  <2> QED
    BY <2>3, <2>4, <2>5
<1> QED
  BY <1>5, <1>6, <1>7, <1>8

(* TypeInv is inductive,                                                   *)
LEMMA NextTypes == TypeInv /\ [Next]_vars => TypeInv'
<1> SUFFICES ASSUME TypeInv, [Next]_vars PROVE TypeInv'
  OBVIOUS
<1>1. CASE UNCHANGED vars
  BY <1>1 DEF vars, TypeInv, TypeOK, RightPlace, OwnId, RevokesAShare, Busy
<1>2. CASE Next
  <2>1. closed' \subseteq Requests
    BY <1>2 DEF Next, ClosedNext
  <2>2. CASE \E r \in Requests : (Begin(r) \/ Advance(r)) /\ UNCHANGED <<conn, contended>>
    BY <2>1, <2>2, BeginTyped, AdvanceTyped
  <2>3. CASE Identity!Next /\ UNCHANGED <<rows, audit, pc, local, doubled>>
    <3>1. /\ conn' \in [Conns -> [status : Identity!Statuses,
                                  from : Orgs \cup {NoOrg}, to : Orgs \cup {NoOrg}]]
          /\ contended' \subseteq SUBSET Orgs
      BY <2>3, IdentityMoves DEF TypeInv
    <3> QED
      BY <2>1, <2>3, <3>1 DEF TypeInv, TypeOK, RightPlace, OwnId, RevokesAShare, Busy, rows
  <2> QED
    BY <1>2, <2>2, <2>3 DEF Next
<1> QED
  BY <1>1, <1>2

(* and holds of every reachable state.                                     *)
LEMMA TypesHold == Spec => []TypeInv
<1>1. Init => TypeInv
  <2>1. Init => TypeOK
    BY DEF Init, TypeOK, Identity!Init, Identity!NoRow, Identity!Statuses, Busy
  <2> QED
    BY <2>1 DEF Init, TypeInv, RightPlace, OwnId, RevokesAShare, Busy
<1> QED
  BY <1>1, NextTypes, PTL DEF Spec

(* Every variable of every reachable state has its type: in particular a   *)
(* share is of a partner and never of the owner, and only the owner has    *)
(* attachments.                                                            *)
THEOREM TypeCorrect == Spec => []TypeOK
BY TypesHold, PTL DEF TypeInv

-----------------------------------------------------------------------------
(* The trail and the files.                                                *)

(* What a step other than identity-service's does to the trail.            *)
LEMMA TrailMoves ==
    ASSUME TypeInv, TrailInv, NEW r \in Requests, Begin(r) \/ Advance(r)
    PROVE  /\ TrailInv'
           /\ [Trail!Next]_(Trail!vars)
<1> USE DEF TypeInv
<1>1. CASE Begin(r)
  <2>1. PICK label \in Labels \ {"idle"}, l \in Handlers : Joins(r, label, l) /\ Checked(label, l)
    BY <1>1, BeginJoins
  <2>2. label \notin {"file", "write"}
    BY <2>1 DEF Checked
  <2> QED
    BY <2>1, <2>2
    DEF TrailInv, LoggedBeforeWrite, FileBeforeRow, AttachmentsOnDisk, Joins, Trail!vars
<1>2. CASE Advance(r)
  <2>1. /\ Busy(r)
        /\ pc'[r] \in Labels
        /\ \A q \in Requests : q # r => pc'[q] = pc[q] /\ local'[q] = local[q]
        /\ audit \subseteq audit'
        /\ audit' \subseteq audit \cup {local[r].event}
        /\ files \subseteq files'
        /\ \/ Proceeds(r) /\ UNCHANGED applied
           \/ Leaves(r) /\ UNCHANGED <<resource, row, applied>>
           \/ Leaves(r) /\ Writes(r)
    BY <1>2, AdvanceMoves
  <2>2. local[r] \in Handlers /\ local[r].event \in Events
    BY <2>1 DEF TypeOK, Handlers
  <2>3. LoggedBeforeWrite'
    <3>1. pc'[r] \in {"file", "write"} => local'[r] = local[r] /\ local[r].event \in audit'
      BY <2>1 DEF Proceeds, Leaves, TrailInv, LoggedBeforeWrite, RightPlace, Busy
    <3> QED
      BY <2>1, <3>1 DEF TrailInv, LoggedBeforeWrite
  <2>4. FileBeforeRow'
    <3>1. pc'[r] = "write" /\ local'[r].event.action = "attached" => local'[r].event.id \in files'
      BY <2>1 DEF Proceeds, Leaves, RightPlace, Busy
    <3> QED
      BY <2>1, <3>1 DEF TrailInv, FileBeforeRow
  <2>5. AttachmentsOnDisk'
    <3> SUFFICES ASSUME NEW i \in Ids, row'[i] # Absent, row'[i].kind = "attachment"
                 PROVE  i \in files
      BY <2>1 DEF AttachmentsOnDisk
    <3>1. CASE row'[i] = row[i]
      BY <3>1 DEF TrailInv, AttachmentsOnDisk
    <3>2. CASE row'[i] # row[i]
      <4>1. WriteRow(r) \/ WriteRevoked(r) \/ WriteDelete(r)
        BY <2>1, <3>2 DEF Proceeds, Writes, WriteResource
      <4>2. CASE WriteRow(r)
        <5>1. /\ i = local[r].event.id
              /\ row'[i].kind = RowKind[local[r].event.action]
              /\ local[r].event.action \in Inserts
          BY <3>2, <4>2 DEF WriteRow, TypeOK, RowKind, Inserts
        <5>2. local[r].event.action = "attached"
          BY <5>1 DEF RowKind, Inserts
        <5>3. pc[r] = "write"
          BY <2>1, <3>2 DEF Proceeds, Writes
        <5> QED
          BY <5>1, <5>2, <5>3 DEF TrailInv, FileBeforeRow
      <4>3. CASE WriteRevoked(r)
        <5>1. row[i] # Absent /\ row'[i].kind = row[i].kind
          BY <3>2, <4>3 DEF WriteRevoked, TypeOK
        <5> QED
          BY <5>1 DEF TrailInv, AttachmentsOnDisk
      <4>4. CASE WriteDelete(r)
        BY <4>4 DEF WriteDelete
      <4> QED
        BY <4>1, <4>2, <4>3, <4>4
    <3> QED
      BY <3>1, <3>2
  <2>6. \/ audit' = audit
        \/ audit' = audit \cup {local[r].event}
    BY <2>1
  <2>7. \/ applied' = applied
        \/ /\ applied' = applied \cup {local[r].event}
           /\ local[r].event \in audit
           /\ audit' = audit
    <3>1. CASE Writes(r)
      BY <2>1, <3>1 DEF Writes, TrailInv, LoggedBeforeWrite, WriteResource, WriteRow,
                        WriteRevoked, WriteDelete, Written
    <3> QED
      BY <2>1, <3>1 DEF Proceeds
  <2>8. [Trail!Next]_(Trail!vars)
    BY <2>2, <2>6, <2>7 DEF Trail!Next, Trail!Log, Trail!Apply, Trail!vars
  <2> QED
    BY <2>3, <2>4, <2>5, <2>8 DEF TrailInv
<1> QED
  BY <1>1, <1>2

(* Every step keeps TrailInv, and is a step of AuditFirst or leaves its    *)
(* variables alone.                                                        *)
LEMMA TrailStep ==
    ASSUME TypeInv, TrailInv, [Next]_vars
    PROVE  TrailInv' /\ [Trail!Next]_(Trail!vars)
<1>1. CASE \E r \in Requests : Begin(r) \/ Advance(r)
  BY <1>1, TrailMoves
<1>2. CASE UNCHANGED <<rows, audit, pc, local>>
  BY <1>2 DEF rows, TrailInv, LoggedBeforeWrite, FileBeforeRow, AttachmentsOnDisk, Trail!vars
<1> QED
  BY <1>1, <1>2 DEF Next, vars, rows

(* The first state.                                                        *)
LEMMA TrailInit == Init => TrailInv /\ Trail!Init
BY DEF Init, TrailInv, LoggedBeforeWrite, FileBeforeRow, AttachmentsOnDisk, Trail!Init

(* Every attachment has its file, whatever fails or is deleted meanwhile.  *)
THEOREM AttachmentsHaveFiles == Spec => []AttachmentsOnDisk
BY TrailInit, TrailStep, TypesHold, PTL DEF Spec, TrailInv

(* The handlers implement the promise of the audit trail: no row of the    *)
(* resource, its shares, comments and attachments is written whose event   *)
(* was not recorded before.                                                *)
THEOREM AuditFirstImplemented == Spec => AuditedFirst
<1>1. Trail!Spec <=> Trail!Init /\ [][Trail!Next]_(Trail!vars)
  BY DEF Trail!Spec
<1> QED
  BY <1>1, TrailInit, TrailStep, TypesHold, PTL DEF Spec, AuditedFirst

-----------------------------------------------------------------------------
(* The shares.                                                             *)

(* A row that is not there is no share.                                    *)
LEMMA AbsentIsNoShare ==
    ASSUME NEW p \in Partners
    PROVE  Absent # [kind |-> "share", org |-> p, revoked |-> FALSE]
<1>1. [kind |-> "share", org |-> p, revoked |-> FALSE]
         \in [kind : {"share", "comment", "attachment"}, org : Partners \cup {Owner}, revoked : BOOLEAN]
  OBVIOUS
<1> QED
  BY <1>1, SharingAssumption

(* Only a createShare makes a share active, for its partner and at its id. *)
LEMMA NewShares ==
    ASSUME TypeInv, NEW r \in Requests, Advance(r), NEW i \in Ids, NEW p \in Partners,
           Share(i, p)', ~Share(i, p)
    PROVE  /\ Sharing(r)
           /\ pc[r] = "write"
           /\ local[r].org = p
           /\ local[r].event.id = i
           /\ Leaves(r)
<1> USE DEF TypeInv
<1>1. row'[i] = [kind |-> "share", org |-> p, revoked |-> FALSE] /\ row'[i] # row[i]
  BY DEF Share
<1>2. Absent # [kind |-> "share", org |-> p, revoked |-> FALSE]
  BY AbsentIsNoShare
<1>3. Writes(r) /\ Leaves(r)
  BY <1>1, AdvanceMoves DEF Proceeds
<1>4. Busy(r) /\ local[r] \in Handlers
  BY <1>3 DEF Writes, Busy, TypeOK
<1>5. WriteRow(r) \/ WriteRevoked(r) \/ WriteDelete(r)
  BY <1>1, <1>3 DEF Writes, WriteResource
<1>6. ASSUME WriteRevoked(r) PROVE FALSE
  <2>1. row'[i] = [row[i] EXCEPT !.revoked = TRUE] /\ local[r].event.id = i
    BY <1>1, <1>6 DEF WriteRevoked, TypeOK
  <2>2. row[i] \in Rows /\ row[i].kind = "share"
    BY <1>4, <1>6, <2>1 DEF RevokesAShare, WriteRevoked, TypeOK
  <2>3. row'[i].revoked = TRUE
    BY <2>1, <2>2 DEF Rows
  <2> QED
    BY <1>1, <2>3
<1>7. ~WriteDelete(r)
  BY <1>1, <1>2 DEF WriteDelete
<1>8. CASE WriteRow(r)
  <2>1. /\ i = local[r].event.id
        /\ row'[i] = [kind |-> RowKind[local[r].event.action], org |-> local[r].org, revoked |-> FALSE]
        /\ local[r].event.action \in Inserts
    BY <1>1, <1>8 DEF WriteRow, TypeOK, RowKind, Inserts
  <2>2. RowKind[local[r].event.action] = "share" /\ local[r].org = p
    BY <1>1, <2>1
  <2>3. local[r].event.action = "shared"
    BY <2>1, <2>2 DEF RowKind, Inserts
  <2> QED
    BY <1>3, <1>4, <2>1, <2>2, <2>3 DEF Sharing, Writes
<1> QED
  BY <1>5, <1>6, <1>7, <1>8

(* Every step keeps ShareInv.                                              *)
LEMMA ShareMoves ==
    ASSUME TypeInv, ShareInv, NEW r \in Requests, Begin(r) \/ Advance(r)
    PROVE  ShareInv'
<1> USE DEF TypeInv
<1>1. CASE Begin(r)
  <2>1. PICK label \in Labels \ {"idle"}, l \in Handlers : Joins(r, label, l) /\ Checked(label, l)
    BY <1>1, BeginJoins
  <2>2. doubled \subseteq doubled'
    BY <2>1 DEF Joins
  <2>3. OneSharer'
    BY <2>1, <2>2 DEF ShareInv, OneSharer, Sharing, Joins, Busy
  <2>4. l.event.action = "shared" => label \notin {"audit", "write"}
    BY <2>1 DEF Checked
  <2>5. FoundNoShare'
    BY <2>1, <2>2, <2>4 DEF ShareInv, FoundNoShare, Sharing, Joins, Busy, Shared, Share
  <2>6. OneActiveShare'
    BY <2>1, <2>2 DEF ShareInv, OneActiveShare, Share, Joins
  <2> QED
    BY <2>3, <2>5, <2>6 DEF ShareInv
<1>2. CASE Advance(r)
  <2>1. /\ Busy(r)
        /\ \A q \in Requests : q # r => pc'[q] = pc[q] /\ local'[q] = local[q]
        /\ doubled' = doubled
        /\ \/ Proceeds(r)
           \/ Leaves(r)
    BY <1>2, AdvanceMoves
  <2>2. \A q \in Requests : pc'[q] # "idle" => Busy(q) /\ local'[q] = local[q]
    BY <2>1 DEF Proceeds, Leaves, Busy, TypeOK
  <2>3. OneSharer'
    BY <2>1, <2>2 DEF ShareInv, OneSharer, Sharing, Busy
  <2>4. FoundNoShare'
    <3> SUFFICES ASSUME NEW q \in Requests, pc'[q] \in {"audit", "write"},
                        local'[q].event.action = "shared", local'[q].org \notin doubled',
                        NEW i \in Ids, Share(i, local[q].org)'
                 PROVE  FALSE
      <4>1. \A q \in Requests : pc'[q] \in {"audit", "write"} => local'[q] = local[q]
        BY <2>2
      <4> QED
        BY <4>1 DEF FoundNoShare, Sharing, Shared, Busy
    <3>1. Busy(q) /\ local'[q] = local[q] /\ local[q].org \in Partners /\ Sharing(q)
      BY <2>2 DEF RightPlace, Sharing
    <3>2. ~Share(i, local[q].org)
      <4>1. CASE q = r
        <5>1. Proceeds(r)
          BY <2>1, <4>1 DEF Leaves
        <5>2. CASE pc[r] = "duplicate"
          BY <4>1, <5>1, <5>2 DEF Proceeds, Shared
        <5>3. CASE pc[r] \in {"audit", "write"}
          BY <2>1, <3>1, <4>1, <5>3 DEF ShareInv, FoundNoShare, Shared
        <5> QED
          BY <3>1, <4>1, <5>1, <5>2, <5>3 DEF Proceeds, RightPlace, Sharing
      <4>2. CASE q # r
        BY <2>1, <3>1, <4>2 DEF ShareInv, FoundNoShare, Shared
      <4> QED
        BY <4>1, <4>2
    <3>3. /\ Sharing(r) /\ local[r].org = local[q].org /\ Leaves(r)
      BY <1>2, <3>1, <3>2, NewShares
    <3>4. q = r
      BY <2>1, <3>1, <3>3 DEF ShareInv, OneSharer
    <3> QED
      BY <3>3, <3>4 DEF Leaves
  <2>5. OneActiveShare'
    <3> SUFFICES ASSUME NEW i \in Ids, NEW j \in Ids, NEW p \in Partners, p \notin doubled,
                        Share(i, p)', Share(j, p)', i # j
                 PROVE  FALSE
      BY <2>1 DEF OneActiveShare
    <3>1. ASSUME NEW a \in Ids, Share(a, p)', ~Share(a, p)
          PROVE  ~Shared(p) /\ local[r].event.id = a
      <4>1. Sharing(r) /\ pc[r] = "write" /\ local[r].org = p /\ local[r].event.id = a
        BY <1>2, <3>1, NewShares
      <4> QED
        BY <4>1 DEF ShareInv, FoundNoShare
    <3> QED
      BY <3>1 DEF ShareInv, OneActiveShare, Shared
  <2> QED
    BY <2>3, <2>4, <2>5 DEF ShareInv
<1> QED
  BY <1>1, <1>2

(* At most one active share per partner, unless two createShares for it    *)
(* overlapped: whatever else happens between createShare's look for a      *)
(* duplicate and its insert.                                               *)
THEOREM SharesAreSingle == Spec => []OneActiveShare
<1>1. Init => ShareInv
  <2>1. ASSUME Init, NEW i \in Ids, NEW p \in Partners PROVE ~Share(i, p)
    BY <2>1, AbsentIsNoShare DEF Init, Share
  <2> QED
    BY <2>1 DEF Init, ShareInv, OneSharer, FoundNoShare, OneActiveShare, Sharing, Busy
<1>2. TypeInv /\ ShareInv /\ [Next]_vars => ShareInv'
  <2> SUFFICES ASSUME TypeInv, ShareInv, [Next]_vars PROVE ShareInv'
    OBVIOUS
  <2>1. CASE \E r \in Requests : Begin(r) \/ Advance(r)
    BY <2>1, ShareMoves
  <2>2. CASE UNCHANGED <<row, pc, local, doubled>>
    BY <2>2 DEF ShareInv, OneSharer, FoundNoShare, OneActiveShare, Sharing, Busy, Shared, Share
  <2> QED
    BY <2>1, <2>2 DEF Next, vars, rows
<1> QED
  BY <1>1, <1>2, TypesHold, PTL DEF Spec, ShareInv

-----------------------------------------------------------------------------
(* The guests.                                                             *)

(* Rows of shares leave only with the resource.                            *)
LEMMA SharesStay ==
    ASSUME TypeInv, NEW r \in Requests, Begin(r) \/ Advance(r), NEW p \in Orgs, EverShared(p)
    PROVE  \/ resource' = "deleted" /\ \A i \in Ids : row'[i] = Absent
           \/ EverShared(p)'
<1> USE DEF TypeInv
<1>1. PICK j \in Ids : row[j] # Absent /\ row[j].kind = "share" /\ row[j].org = p
  BY DEF EverShared
<1>2. CASE row'[j] = row[j]
  BY <1>1, <1>2 DEF EverShared
<1>3. CASE row'[j] # row[j]
  <2>1. Advance(r)
    <3>1. ASSUME Begin(r) PROVE FALSE
      BY <1>3, <3>1, BeginJoins DEF Joins
    <3> QED
      BY <3>1
  <2>2. Writes(r)
    BY <1>3, <2>1, AdvanceMoves DEF Proceeds
  <2>3. Busy(r)
    BY <2>2 DEF Writes, Busy
  <2>4. CASE WriteRow(r)
    BY <1>1, <1>3, <2>3, <2>4 DEF WriteRow, RowKind, Inserts, OwnId, TypeOK
  <2>5. CASE WriteRevoked(r)
    <3>1. row'[j] = [row[j] EXCEPT !.revoked = TRUE]
      BY <1>3, <2>5 DEF WriteRevoked, TypeOK
    <3>2. row[j] \in Rows
      BY <1>1 DEF TypeOK
    <3>3. row'[j].kind = row[j].kind /\ row'[j].org = row[j].org
          /\ row'[j] \in [kind : {"share", "comment", "attachment"},
                          org : Partners \cup {Owner}, revoked : BOOLEAN]
      BY <3>1, <3>2 DEF Rows, Orgs
    <3>4. row'[j] # Absent
      BY <3>3, SharingAssumption
    <3> QED
      BY <1>1, <3>3, <3>4 DEF EverShared
  <2>6. CASE WriteDelete(r)
    BY <2>6 DEF WriteDelete
  <2> QED
    BY <1>3, <2>2, <2>4, <2>5, <2>6 DEF Writes, WriteResource
<1> QED
  BY <1>2, <1>3

(* A row that appears is the inserting handler's; a row that stays keeps   *)
(* its organization.                                                       *)
LEMMA NewRows ==
    ASSUME TypeInv, NEW r \in Requests, Advance(r), NEW i \in Ids, row'[i] # Absent
    PROVE  \/ row[i] # Absent /\ row'[i].org = row[i].org
           \/ /\ pc[r] = "write"
              /\ resource = "there"
              /\ local[r].event.action \in Inserts
              /\ row'[i].org = local[r].org
              /\ row'[i].kind = RowKind[local[r].event.action]
<1> USE DEF TypeInv
<1>1. CASE row'[i] = row[i]
  BY <1>1
<1>2. CASE row'[i] # row[i]
  <2>1. Writes(r)
    BY <1>2, AdvanceMoves DEF Proceeds
  <2>2. CASE WriteRow(r)
    BY <1>2, <2>1, <2>2 DEF WriteRow, RowKind, Inserts, TypeOK, Writes
  <2>3. CASE WriteRevoked(r)
    BY <1>2, <2>3 DEF WriteRevoked, TypeOK
  <2>4. CASE WriteDelete(r)
    BY <2>4 DEF WriteDelete
  <2> QED
    BY <1>2, <2>1, <2>2, <2>3, <2>4 DEF Writes, WriteResource
<1> QED
  BY <1>1, <1>2

(* A connection that is approved is one that was approved.                 *)
LEMMA ApprovedIsBacked ==
    ASSUME NEW p, Approved(p)
    PROVE  Backed(p)
BY DEF Approved, Backed

(* Every step of a handler keeps GuestInv,                                 *)
LEMMA GuestMoves ==
    ASSUME TypeInv, GuestInv, NEW r \in Requests, Begin(r) \/ Advance(r),
           UNCHANGED <<conn, contended>>
    PROVE  GuestInv'
<1> USE DEF TypeInv
<1>0. \A p \in Orgs : Backed(p)' <=> Backed(p)
  BY DEF Backed, Identity!Pair
<1>a. \A q \in Requests : Busy(q) => local[q].org \in Orgs
  BY DEF TypeOK, Handlers
<1>1. CASE Begin(r)
  <2>1. PICK label \in Labels \ {"idle"}, l \in Handlers : Joins(r, label, l) /\ Checked(label, l)
    BY <1>1, BeginJoins
  <2>a. CreatesAlone'
    BY <2>1 DEF GuestInv, CreatesAlone, Joins, Checked, Busy
  <2>2. GuestHasShare'
    <3>1. l.event.action = "commented" /\ l.org # Owner => EverShared(l.org)
      <4> SUFFICES ASSUME l.event.action = "commented", l.org # Owner PROVE EverShared(l.org)
        OBVIOUS
      <4>1. PICK i \in Ids : row[i] = [kind |-> "share", org |-> l.org, revoked |-> FALSE]
        BY <2>1 DEF Checked, Shared, Share
      <4>2. l.org \in Partners
        BY DEF Handlers, Orgs
      <4> QED
        BY <4>1, <4>2, AbsentIsNoShare DEF EverShared
    <3> QED
      BY <2>1, <3>1 DEF GuestInv, GuestHasShare, Joins, Busy, EverShared
  <2>3. GuestIsBacked'
    <3>1. label \notin {"duplicate", "write"}
      BY <2>1 DEF Checked
    <3>2. label = "audit" /\ l.event.action \in Inserts => l.org = Owner
      BY <2>1 DEF Checked, Inserts
    <3>3. \A q \in Requests \ {r} : pc'[q] = pc[q] /\ local'[q] = local[q]
      BY <2>1 DEF Joins
    <3>4. pc'[r] = label /\ local'[r] = l
      BY <2>1 DEF Joins
    <3> QED
      BY <1>0, <1>a, <3>1, <3>2, <3>3, <3>4 DEF GuestInv, GuestIsBacked, Busy
  <2>4. GuestRowsRestOnSharing'
    <3>1. UNCHANGED <<row, conn, contended>>
      BY <2>1 DEF Joins
    <3> QED
      BY <3>1 DEF GuestInv, GuestRowsRestOnSharing, Identity!Pair
  <2> QED
    BY <2>a, <2>2, <2>3, <2>4 DEF GuestInv
<1>2. CASE Advance(r)
  <2>1. /\ Busy(r)
        /\ pc'[r] \in Labels
        /\ \A q \in Requests : q # r => pc'[q] = pc[q] /\ local'[q] = local[q]
        /\ \/ Proceeds(r)
           \/ Leaves(r) /\ UNCHANGED <<resource, row>>
           \/ Leaves(r) /\ Writes(r)
    BY <1>2, AdvanceMoves
  <2>2. \A q \in Requests : pc'[q] # "idle" => Busy(q) /\ local'[q] = local[q]
    BY <2>1 DEF Proceeds, Leaves, Busy, TypeOK
  <2>a. CreatesAlone'
    <3> SUFFICES ASSUME NEW q \in Requests, pc'[q] # "idle", local'[q].event.action = "created"
                 PROVE  resource' = "none" /\ \A s \in Requests : pc'[s] # "idle" => s = q
      BY DEF CreatesAlone, Busy
    <3>1. Busy(q) /\ local[q].event.action = "created"
      BY <2>2
    <3>2. resource = "none" /\ \A s \in Requests : Busy(s) => s = q
      BY <3>1 DEF GuestInv, CreatesAlone
    <3>3. Proceeds(r)
      BY <2>1, <3>2 DEF Leaves
    <3> QED
      BY <2>2, <3>2, <3>3 DEF Proceeds
  <2>3. GuestHasShare'
    <3> SUFFICES ASSUME NEW q \in Requests, NEW p \in Orgs,
                        pc'[q] # "idle", local[q].event.action = "commented",
                        local[q].org = p, p # Owner
                 PROVE  resource' = "deleted" \/ EverShared(p)'
      <4>1. \A q \in Requests : pc'[q] # "idle" => local'[q] = local[q] /\ local[q].org \in Orgs
        BY <2>2, <1>a
      <4> QED
        BY <4>1 DEF GuestHasShare, Busy, EverShared
    <3>1. Busy(q)
      BY <2>2
    <3>2. CASE EverShared(p)
      BY <1>2, <3>2, SharesStay
    <3>3. CASE resource = "deleted"
      <4>1. ~WriteResource(r)
        BY <2>1, <3>3 DEF GuestInv, CreatesAlone, WriteResource
      <4> QED
        BY <2>1, <3>3, <4>1 DEF Proceeds, Writes, WriteRow, WriteRevoked, WriteDelete
    <3> QED
      BY <3>1, <3>2, <3>3 DEF GuestInv, GuestHasShare
  <2>4. GuestIsBacked'
    <3> SUFFICES ASSUME NEW q \in Requests, pc'[q] \in {"duplicate", "audit", "write"},
                        local[q].event.action \in Inserts, local[q].org # Owner
                 PROVE  Backed(local[q].org)
      <4>1. \A q \in Requests : pc'[q] # "idle" => local'[q] = local[q] /\ local[q].org \in Orgs
        BY <2>2, <1>a
      <4> QED
        BY <1>0, <4>1 DEF GuestIsBacked
    <3>1. CASE q = r /\ pc[r] = "connection"
      BY <2>1, <3>1, ApprovedIsBacked DEF Proceeds, Leaves
    <3>2. CASE q = r /\ pc[r] # "connection"
      <4>1. pc[r] \in {"duplicate", "audit", "write"}
        BY <2>1, <2>2, <3>2 DEF Proceeds, Leaves, RightPlace, Busy
      <4> QED
        BY <3>2, <4>1 DEF GuestInv, GuestIsBacked
    <3>3. CASE q # r
      BY <2>1, <3>3 DEF GuestInv, GuestIsBacked
    <3> QED
      BY <3>1, <3>2, <3>3
  <2>5. GuestRowsRestOnSharing'
    <3> SUFFICES ASSUME NEW i \in Ids, NEW p, row'[i] # Absent, row'[i].org = p, p # Owner
                 PROVE  EverShared(p)' /\ Backed(p)
      BY DEF GuestRowsRestOnSharing, EverShared, Backed, Identity!Pair
    <3>1. \/ row[i] # Absent /\ row[i].org = p
          \/ /\ pc[r] = "write"
             /\ resource = "there"
             /\ local[r].event.action \in Inserts
             /\ local[r].org = p
             /\ row'[i].kind = RowKind[local[r].event.action]
      BY <1>2, NewRows
    <3>2. CASE row[i] # Absent /\ row[i].org = p
      <4>1. EverShared(p) /\ Backed(p)
        BY <3>2 DEF GuestInv, GuestRowsRestOnSharing, EverShared, Backed
      <4>2. p \in Orgs
        <5>1. row[i] \in Rows
          BY <3>2 DEF TypeOK
        <5> QED
          BY <3>2, <5>1 DEF Rows, Orgs
      <4> QED
        BY <1>2, <4>1, <4>2, SharesStay
    <3>3. CASE /\ pc[r] = "write"
               /\ resource = "there"
               /\ local[r].event.action \in Inserts
               /\ local[r].org = p
               /\ row'[i].kind = RowKind[local[r].event.action]
      <4>1. Backed(p) /\ p \in Orgs
        BY <1>a, <2>1, <3>3 DEF GuestInv, GuestIsBacked
      <4>2. CASE local[r].event.action = "shared"
        BY <3>3, <4>1, <4>2 DEF EverShared, RowKind
      <4>3. CASE local[r].event.action = "commented"
        <5>1. EverShared(p)
          BY <2>1, <3>3, <4>3 DEF GuestInv, GuestHasShare
        <5> QED
          BY <1>2, <4>1, <5>1, SharesStay
      <4>4. local[r].event.action # "attached"
        BY <2>1, <3>3 DEF RightPlace
      <4> QED
        BY <3>3, <4>1, <4>2, <4>3, <4>4 DEF Inserts
    <3> QED
      BY <3>1, <3>2, <3>3
  <2> QED
    BY <2>a, <2>3, <2>4, <2>5 DEF GuestInv
<1> QED
  BY <1>1, <1>2

(* and so does every step of identity-service.                             *)
LEMMA GuestMovesOfIdentity ==
    ASSUME TypeInv, GuestInv, Identity!Next, UNCHANGED <<rows, pc, local>>
    PROVE  GuestInv'
<1>1. \A p \in Orgs : Backed(p) => Backed(p)'
  BY IdentityMoves DEF TypeInv
<1>2. CreatesAlone' /\ GuestHasShare'
  BY DEF GuestInv, CreatesAlone, GuestHasShare, Busy, rows, EverShared
<1>3. GuestIsBacked'
  <2>1. \A q \in Requests : pc[q] # "idle" => local[q].org \in Orgs
    BY DEF TypeInv, TypeOK, Handlers, Busy
  <2>2. UNCHANGED <<pc, local>>
    OBVIOUS
  <2> QED
    BY <1>1, <2>1, <2>2 DEF GuestInv, GuestIsBacked
<1>4. GuestRowsRestOnSharing'
  <2> SUFFICES ASSUME NEW i \in Ids, NEW p, row[i] # Absent, row[i].org = p, p # Owner
               PROVE  EverShared(p) /\ Backed(p)'
    BY DEF GuestRowsRestOnSharing, EverShared, Backed, rows, Identity!Pair
  <2>1. EverShared(p) /\ Backed(p)
    BY DEF GuestInv, GuestRowsRestOnSharing, EverShared, Backed
  <2>2. p \in Orgs
    BY DEF TypeInv, TypeOK, Rows, Orgs
  <2> QED
    BY <1>1, <2>1, <2>2
<1> QED
  BY <1>2, <1>3, <1>4 DEF GuestInv

(* Whatever a guest organization has written rests on a share with it, and *)
(* every share on a connection that was approved, although three services  *)
(* write the three and any of them may since have been revoked.            *)
THEOREM GuestsAreShared == Spec => []GuestRowsRestOnSharing
<1>1. Init => GuestInv
  BY DEF Init, GuestInv, CreatesAlone, GuestHasShare, GuestIsBacked, GuestRowsRestOnSharing, Busy
<1>2. TypeInv /\ GuestInv /\ [Next]_vars => GuestInv'
  <2> SUFFICES ASSUME TypeInv, GuestInv, [Next]_vars PROVE GuestInv'
    OBVIOUS
  <2>1. CASE \E r \in Requests : (Begin(r) \/ Advance(r)) /\ UNCHANGED <<conn, contended>>
    BY <2>1, GuestMoves
  <2>2. CASE Identity!Next /\ UNCHANGED <<rows, pc, local>>
    BY <2>2, GuestMovesOfIdentity
  <2>3. CASE UNCHANGED vars
    BY <2>3 DEF GuestInv, CreatesAlone, GuestHasShare, GuestIsBacked, GuestRowsRestOnSharing, Busy, Backed,
                EverShared, Identity!Pair, vars
  <2> QED
    BY <2>1, <2>2, <2>3 DEF Next
<1> QED
  BY <1>1, <1>2, TypesHold, PTL DEF Spec, GuestInv

(* Nothing is shared with, shown to or written by an organization in a     *)
(* request during whose whole life it had no APPROVED connection: only the *)
(* answer "approved" lets a guest's handler past the call of               *)
(* identity-service.                                                       *)
THEOREM GuestsAreConnected == Spec => []NothingWithoutConnection
<1>1. Init => NothingWithoutConnection
  BY DEF Init, NothingWithoutConnection
<1>2. TypeInv /\ NothingWithoutConnection /\ [Next]_vars => NothingWithoutConnection'
  <2> SUFFICES ASSUME TypeInv, NothingWithoutConnection, [Next]_vars
               PROVE  NothingWithoutConnection'
    OBVIOUS
  <2>1. CASE UNCHANGED vars
    BY <2>1 DEF vars, NothingWithoutConnection
  <2>2. CASE Next
    <3> SUFFICES ASSUME NEW q \in Requests, NEW p \in Partners, q \in closed',
                        local'[q].org = p,
                        local'[q].event.action \in {"shared", "commented", "viewed"}
                 PROVE  pc'[q] = "connection"
      <4>1. \A q \in closed' : q \in Requests /\ pc'[q] # "idle"
        BY <2>2 DEF Next, ClosedNext
      <4>2. TypeOK'
        BY <2>2, NextTypes DEF TypeInv
      <4>3. \A q \in closed' : local'[q].org \in Orgs
        BY <4>1, <4>2 DEF TypeOK, Busy, Handlers
      <4> QED
        BY <4>1, <4>3 DEF NothingWithoutConnection, Orgs
    <3>1. /\ pc'[q] # "idle"
          /\ Busy(q) => q \in closed
          /\ ~Approved(p)'
      BY <2>2 DEF Next, ClosedNext
    <3>2. p # Owner
      BY SharingAssumption
    <3>3. ASSUME NEW r \in Requests, Begin(r) PROVE pc'[q] = "connection"
      <4>1. PICK label \in Labels \ {"idle"}, l \in Handlers : Joins(r, label, l) /\ Checked(label, l)
        BY <3>3, BeginJoins DEF TypeInv
      <4>2. CASE q = r
        BY <3>2, <4>1, <4>2 DEF Joins, Checked
      <4>3. CASE q # r
        BY <3>1, <3>2, <4>1, <4>3 DEF Joins, NothingWithoutConnection, Busy
      <4> QED
        BY <4>2, <4>3
    <3>4. ASSUME NEW r \in Requests, Advance(r), UNCHANGED <<conn, contended>>
          PROVE  pc'[q] = "connection"
      <4>1. /\ Busy(r)
            /\ \A s \in Requests : s # r => pc'[s] = pc[s] /\ local'[s] = local[s]
            /\ Proceeds(r) \/ Leaves(r)
        BY <3>4, AdvanceMoves DEF TypeInv
      <4>2. CASE q # r
        BY <3>1, <3>2, <4>1, <4>2 DEF NothingWithoutConnection, Busy
      <4>3. ASSUME q = r PROVE FALSE
        <5>1. Proceeds(r) /\ local'[r] = local[r]
          BY <3>1, <4>1, <4>3 DEF Leaves, Proceeds
        <5>2. pc[r] = "connection"
          BY <3>1, <3>2, <4>1, <4>3, <5>1 DEF NothingWithoutConnection
        <5>3. Approved(p)
          BY <4>3, <5>1, <5>2 DEF Proceeds
        <5>4. Approved(p)' <=> Approved(p)
          BY <3>4 DEF Approved, Identity!Pair
        <5> QED
          BY <3>1, <5>3, <5>4
      <4> QED
        BY <4>2, <4>3
    <3>5. CASE UNCHANGED <<pc, local>>
      BY <3>1, <3>2, <3>5 DEF NothingWithoutConnection, Busy
    <3> QED
      BY <2>2, <3>3, <3>4, <3>5 DEF Next
  <2> QED
    BY <2>1, <2>2
<1> QED
  BY <1>1, <1>2, TypesHold, PTL DEF Spec
=============================================================================
