--------------------------- MODULE PRWorkflowProofs ---------------------------
(***************************************************************************)
(* Proofs about PRWorkflow, for any users, contents, bodies of requests    *)
(* and number of concurrently running handlers.                            *)
(*                                                                         *)
(* The argument has three layers, each inductive given the one before.     *)
(*  - What a handler's local variables are at each of its labels, whatever *)
(*    runs beside it (Carries): which event it has logged, which status it *)
(*    is about to write, whether it has written.                           *)
(*  - What holds of the rows under any interleaving (RowsInv): no handler  *)
(*    of an existing PR runs before it exists, and the version numbers are *)
(*    1..n for some n, also with the number a handler has yet to use.      *)
(*  - What holds as long as handlers come one at a time (AloneInv): what a *)
(*    handler has in hand is the row, and at each label it is known what   *)
(*    the handler still has to repair before it ends.                      *)
(***************************************************************************)
EXTENDS PRWorkflow, FiniteSetTheorems, TLAPS

CreateLabels == {"createAudit", "create"}

(* The labels of an updatePR before its last write. *)
UpdateLabels == {"draftEdit", "lastVersion", "addVersion", "edit", "required", "count",
                 "statusAudit", "status"}

(* The local variables l of a handler that is at label.                    *)
Carries(label, l) ==
    /\ l.patch.status \in {Keep, "IN_REVIEW", "REJECTED", "MERGED"}
    /\ label \in CreateLabels => l.to = "DRAFT"
    /\ label \in {"deleteAudit", "delete"} => l.to = "DELETED"
    /\ label \in {"flipAudit", "flip"} => l.to \in {"IN_REVIEW", "APPROVED"}
    /\ label = "reviewAudit" => l.to = "IN_REVIEW"
    /\ label \in UpdateLabels /\ l.patch.status # Keep => l.to = l.patch.status
    /\ label \in {"statusAudit", "status"} => l.patch.status # Keep
    /\ label \in {"draftEdit", "lastVersion", "addVersion", "edit"} => l.patch.content # Keep
    /\ label = "required" => l.patch.required # Keep
    /\ label \in {"create", "flip", "status", "delete"} => l.logged = l.to
    /\ label = "force" \/ (label = "review" /\ l.verdict = "CHANGES_REQUESTED")
          => l.logged = "IN_REVIEW"
    /\ label \in {"edit", "baseline", "count", "flipAudit", "flip", "force"} => l.wrote
    /\ label = "addVersion" => l.number # 0
    /\ label = "assign" => l.who \in Reviewers
    /\ label \in {"reviewAudit", "review"} => l.verdict # "NONE" /\ l.patch = NoPatch

HandlersCarry == \A r \in Requests : Busy(r) => Carries(pc[r], local[r])

TypeInv == TypeOK /\ HandlersCarry

-----------------------------------------------------------------------------
(* What a label may be, with its local variables.                          *)
Fits(label, l) == label # "idle" => l \in Handlers /\ Carries(label, l)

(* The state of the handlers after one of them starts or goes on.          *)
LEMMA GotoFits ==
    ASSUME TypeInv, NEW r \in Requests, NEW label \in Labels, NEW l, Fits(label, l),
           pc' = [pc EXCEPT ![r] = label],
           local' = [local EXCEPT ![r] = IF label = "idle" THEN NoHandler ELSE l]
    PROVE  /\ pc' \in [Requests -> Labels]
           /\ local' \in [Requests -> Handlers \cup {NoHandler}]
           /\ \A q \in Requests : IF Busy(q)' THEN local'[q] \in Handlers
                                              ELSE local'[q] = NoHandler
           /\ HandlersCarry'
<1>1. /\ pc' \in [Requests -> Labels]
      /\ pc'[r] = label
      /\ \A q \in Requests \ {r} : pc'[q] = pc[q]
  BY DEF TypeInv, TypeOK
<1>2. /\ local' \in [Requests -> Handlers \cup {NoHandler}]
      /\ local'[r] = IF label = "idle" THEN NoHandler ELSE l
      /\ \A q \in Requests \ {r} : local'[q] = local[q]
  BY DEF TypeInv, TypeOK, Fits
<1>3. \A q \in Requests : IF Busy(q)' THEN local'[q] \in Handlers ELSE local'[q] = NoHandler
  BY <1>1, <1>2 DEF TypeInv, TypeOK, Fits, Busy
<1>4. ASSUME NEW q \in Requests, Busy(q)' PROVE Carries(pc'[q], local'[q])
  <2>1. CASE q = r
    BY <1>1, <1>2, <1>4, <2>1 DEF Fits, Busy
  <2>2. CASE q # r
    BY <1>1, <1>2, <1>4, <2>2 DEF TypeInv, HandlersCarry, Busy
  <2> QED
    BY <2>1, <2>2
<1>5. HandlersCarry'
  BY <1>4 DEF HandlersCarry, Carries
<1> QED
  BY <1>1, <1>2, <1>3, <1>5

(* The tables are typed after a step.                                      *)
RowsTyped ==
    /\ pr \in PRRows
    /\ latest \in [Users -> {"APPROVED", "CHANGES_REQUESTED", "NONE"}]
    /\ assigned \subseteq Reviewers
    /\ versions \in Seq([number : Nat \ {0}, content : Contents])

(* A slot that goes on keeps its type,                                     *)
LEMMA GotoTyped ==
    ASSUME TypeInv, NEW r \in Requests, NEW label \in Labels, NEW l, Fits(label, l),
           Goto(r, label, l), RowsTyped'
    PROVE  TypeInv'
<1>1. contended' = contended /\ interrupted' = interrupted
  BY DEF Goto
<1> QED
  BY <1>1, GotoFits DEF Goto, TypeInv, TypeOK, RowsTyped

(* and so has one that starts.                                             *)
LEMMA StartTyped ==
    ASSUME TypeInv, NEW r \in Requests, NEW label \in Labels \ {"idle"}, NEW l, Fits(label, l),
           Start(r, label, l)
    PROVE  TypeInv'
<1>1. contended' \in BOOLEAN /\ interrupted' = interrupted /\ UNCHANGED db
  BY DEF Start, TypeInv, TypeOK
<1>2. local' = [local EXCEPT ![r] = IF label = "idle" THEN NoHandler ELSE l]
  BY DEF Start
<1> QED
  BY <1>1, <1>2, GotoFits DEF Start, TypeInv, TypeOK, RowsTyped, db

(* What the handlers start with.                                           *)
LEMMA BegunTyped ==
    ASSUME TypeInv, NEW who \in Users, NEW patch \in AllPatches,
           NEW verdict \in {"APPROVED", "CHANGES_REQUESTED", "NONE"},
           NEW to \in Statuses \cup {"NONE", "DELETED"}
    PROVE  Begun(who, patch, verdict, to) \in Handlers
BY DEF Begun, Handlers, TypeInv, TypeOK

(* The patch of a handler that has none is one.                            *)
LEMMA NoPatchTyped == NoPatch \in AllPatches
BY DEF NoPatch, AllPatches

(* updatePR's first label: there is always something to do.                *)
LEMMA UpdateStarts ==
    ASSUME TypeInv, NEW who \in Users, NEW patch \in Patches, patch # NoPatch,
           patch.status # Keep => patch.status \in ALLOWED_TRANSITIONS(pr.status),
           NEW l, l = Begun(who, patch, "NONE", IF patch.status = Keep THEN "NONE" ELSE patch.status),
           NEW first, first = IF patch.content = Keep THEN AfterContent(l)
                              ELSE IF pr.status = "DRAFT" THEN "draftEdit" ELSE "lastVersion"
    PROVE  /\ first \in {"draftEdit", "lastVersion", "required", "statusAudit"}
           /\ Fits(first, l)
<1>1. patch \in AllPatches
  BY PRAssumption
<1>2. patch.status \in {Keep, "IN_REVIEW", "REJECTED", "MERGED"}
  BY PRAssumption DEF ALLOWED_TRANSITIONS, TypeInv, TypeOK, PRRows, Statuses
<1>3. l \in Handlers
  BY <1>1, <1>2, BegunTyped DEF Statuses
<1>4. l.patch = patch /\ l.to = IF patch.status = Keep THEN "NONE" ELSE patch.status
  BY DEF Begun
<1>5. patch.content # Keep \/ patch.required # Keep \/ patch.status # Keep
  BY <1>1 DEF AllPatches, NoPatch
<1>6. /\ first \in {"draftEdit", "lastVersion", "required", "statusAudit"}
      /\ first \in {"draftEdit", "lastVersion"} => patch.content # Keep
      /\ first = "required" => patch.required # Keep
      /\ first = "statusAudit" => patch.status # Keep
  BY <1>4, <1>5 DEF AfterContent, AfterRequired
<1> QED
  BY <1>2, <1>3, <1>4, <1>6 DEF Fits, Carries, CreateLabels, UpdateLabels

(* Every request that begins keeps the types.                              *)
LEMMA BeginTyped ==
    ASSUME TypeInv, NEW r \in Requests, Begin(r)
    PROVE  TypeInv'
<1> USE DEF Labels, AuditLabels
<1>1. ASSUME NEW a \in Admins, BeginCreate(r, a) PROVE TypeInv'
  <2>1. Fits("createAudit", Begun(a, NoPatch, "NONE", "DRAFT"))
    BY BegunTyped, NoPatchTyped
    DEF Fits, Carries, CreateLabels, UpdateLabels, Begun, NoPatch, Users, Statuses
  <2> QED
    BY <1>1, <2>1, StartTyped DEF BeginCreate
<1>2. ASSUME NEW a \in Admins, deletePR(r, a) PROVE TypeInv'
  <2>1. Fits("deleteAudit", Begun(a, NoPatch, "NONE", "DELETED"))
    BY BegunTyped, NoPatchTyped
    DEF Fits, Carries, CreateLabels, UpdateLabels, Begun, NoPatch, Users, Statuses
  <2> QED
    BY <1>2, <2>1, StartTyped DEF deletePR
<1>3. ASSUME NEW a \in Admins, NEW p \in Patches, updatePR(r, a, p) PROVE TypeInv'
  <2> DEFINE l == Begun(a, p, "NONE", IF p.status = Keep THEN "NONE" ELSE p.status)
             first == IF p.content = Keep THEN AfterContent(l)
                      ELSE IF pr.status = "DRAFT" THEN "draftEdit" ELSE "lastVersion"
  <2>1. first \in {"draftEdit", "lastVersion", "required", "statusAudit"} /\ Fits(first, l)
    BY <1>3, UpdateStarts DEF updatePR, Users
  <2>2. Start(r, first, l)
    BY <1>3 DEF updatePR
  <2> QED
    BY <2>1, <2>2, StartTyped
<1>4. ASSUME NEW u \in Users, NEW v \in {"APPROVED", "CHANGES_REQUESTED"}, submitReview(r, u, v)
      PROVE  TypeInv'
  <2> DEFINE l == Begun(u, NoPatch, v, "IN_REVIEW")
             first == IF v = "CHANGES_REQUESTED" THEN "reviewAudit" ELSE "review"
  <2>1. Fits(first, l)
    BY BegunTyped, NoPatchTyped
    DEF Fits, Carries, CreateLabels, UpdateLabels, Begun, NoPatch, Users, Statuses
  <2>2. Start(r, first, l)
    BY <1>4 DEF submitReview
  <2> QED
    BY <2>1, <2>2, StartTyped
<1>5. ASSUME NEW a \in Admins, NEW u \in Reviewers, addReviewer(r, a, u) PROVE TypeInv'
  <2>1. Fits("assign", Begun(u, NoPatch, "NONE", "NONE"))
    BY BegunTyped, NoPatchTyped
    DEF Fits, Carries, CreateLabels, UpdateLabels, Begun, NoPatch, Users, Statuses
  <2> QED
    BY <1>5, <2>1, StartTyped DEF addReviewer
<1> QED
  BY <1>1, <1>2, <1>3, <1>4, <1>5 DEF Begin

-----------------------------------------------------------------------------
(* An updatePR between two of its writes goes on with what the body asks.  *)
LEMMA AfterFits ==
    ASSUME NEW l \in Handlers,
           l.patch.status \in {Keep, "IN_REVIEW", "REJECTED", "MERGED"},
           l.patch.status # Keep => l.to = l.patch.status
    PROVE  /\ AfterRequired(l) \in {"idle", "statusAudit"}
           /\ Fits(AfterRequired(l), l)
           /\ AfterContent(l) \in {"idle", "statusAudit", "required"}
           /\ Fits(AfterContent(l), l)
<1>1. Fits(AfterRequired(l), l)
  BY DEF AfterRequired, Fits, Carries, CreateLabels, UpdateLabels
<1>2. l.patch.required # Keep => Fits("required", l)
  BY DEF Fits, Carries, CreateLabels, UpdateLabels
<1>3. AfterContent(l) \in {"idle", "statusAudit", "required"} /\ Fits(AfterContent(l), l)
  BY <1>1, <1>2 DEF AfterContent, AfterRequired
<1> QED
  BY <1>1, <1>3 DEF AfterRequired

(* The row with a patch applied is a row.                                  *)
LEMMA UpdatedTyped ==
    ASSUME NEW l \in Handlers, NEW row \in PRRows
    PROVE  /\ Updated(l, row) \in Handlers
           /\ Updated(l, row) = [l EXCEPT !.cur = row, !.wrote = TRUE]
           /\ Updated(l, row).cur = row /\ Updated(l, row).wrote = TRUE
           /\ \A f \in {"patch", "who", "verdict", "number", "to", "logged"} :
                 Updated(l, row)[f] = l[f]
           /\ Updated(l, row).patch = l.patch /\ Updated(l, row).to = l.to
           /\ Updated(l, row).logged = l.logged
           /\ AfterContent(Updated(l, row)) = AfterContent(l)
           /\ AfterRequired(Updated(l, row)) = AfterRequired(l)
BY DEF Updated, Handlers, AfterContent, AfterRequired

(* A handler that waits for its audit call, and one that stops.            *)
LEMMA LogTyped ==
    ASSUME TypeInv, NEW r \in Requests, NEW label, NEW next,
           LogThen(r, label, next),
           <<label, next>> \in {<<"createAudit", "create">>, <<"flipAudit", "flip">>,
                                <<"statusAudit", "status">>, <<"reviewAudit", "review">>,
                                <<"deleteAudit", "delete">>}
    PROVE  TypeInv'
<1> DEFINE l == local[r]
<1>1. pc[r] = label /\ l \in Handlers /\ Carries(label, l)
  BY DEF LogThen, TypeInv, TypeOK, HandlersCarry, Busy
<1>2. [l EXCEPT !.logged = l.to] \in Handlers
  BY <1>1 DEF Handlers
<1>3. Fits(next, [l EXCEPT !.logged = l.to])
  BY <1>1, <1>2 DEF Fits, Carries, CreateLabels, UpdateLabels, Handlers
<1>4. RowsTyped' /\ next \in Labels
  BY DEF LogThen, RowsTyped, TypeInv, TypeOK, db, Labels, AuditLabels
<1> QED
  BY <1>3, <1>4, GotoTyped DEF LogThen

(* A slot that ends is typed.                                              *)
LEMMA StopTyped ==
    ASSUME TypeInv, NEW r \in Requests, AuditFails(r) \/ Crash(r)
    PROVE  TypeInv'
<1>1. Stop(r) /\ Busy(r)
  BY DEF AuditFails, Crash, Busy, AuditLabels
<1>2. interrupted' \in BOOLEAN /\ contended' \in BOOLEAN /\ RowsTyped'
  BY <1>1 DEF Stop, TypeInv, TypeOK, RowsTyped, db, Handlers
<1>3. Fits("idle", NoHandler) /\ "idle" \in Labels
  BY DEF Fits, Labels
<1>4. pc' = [pc EXCEPT ![r] = "idle"] /\ local' = [local EXCEPT ![r] = NoHandler]
  BY <1>1 DEF Stop
<1>5. HandlersCarry' /\ pc' \in [Requests -> Labels]
      /\ local' \in [Requests -> Handlers \cup {NoHandler}]
      /\ \A q \in Requests : IF Busy(q)' THEN local'[q] \in Handlers ELSE local'[q] = NoHandler
  BY <1>3, <1>4, GotoFits
<1> QED
  BY <1>2, <1>5 DEF TypeInv, TypeOK, RowsTyped

-----------------------------------------------------------------------------
(* The steps of updatePR.                                                  *)
LEMMA RowTyped ==
    ASSUME TypeInv
    PROVE  /\ \A s \in Statuses \cup {"DELETED"} : [pr EXCEPT !.status = s] \in PRRows
           /\ \A n \in 1..MaxRequired : [pr EXCEPT !.required = n] \in PRRows
           /\ \A c \in Contents : [pr EXCEPT !.content = c] \in PRRows
BY DEF TypeInv, TypeOK, PRRows

(* What a patch gives has its type.                                        *)
LEMMA PatchTyped ==
    ASSUME NEW l \in Handlers
    PROVE  /\ l.patch.content # Keep => l.patch.content \in Contents
           /\ l.patch.required # Keep => l.patch.required \in 1..MaxRequired
BY DEF Handlers, AllPatches

(* The content of a DRAFT, or of a PR with its new version.                *)
LEMMA EditTyped ==
    ASSUME TypeInv, NEW r \in Requests, DraftEdit(r) \/ Edit(r)
    PROVE  TypeInv'
<1> DEFINE l == local[r]
<1>1. l \in Handlers /\ Carries(pc[r], l) /\ pc[r] \in {"draftEdit", "edit"}
  BY DEF DraftEdit, Edit, TypeInv, TypeOK, HandlersCarry, Busy
<1>2. l.patch.content \in Contents
  BY <1>1, PatchTyped DEF Carries
<1>3. pr' = [pr EXCEPT !.content = l.patch.content] /\ pr' \in PRRows
  BY <1>2, RowTyped DEF DraftEdit, Edit
<1>4. RowsTyped'
  BY <1>3 DEF DraftEdit, Edit, TypeInv, TypeOK, RowsTyped
<1>5. Goto(r, AfterContent(l), Updated(l, pr'))
  BY DEF DraftEdit, Edit
<1>6. Updated(l, pr') \in Handlers /\ AfterContent(Updated(l, pr')) = AfterContent(l)
      /\ Updated(l, pr').patch = l.patch /\ Updated(l, pr').to = l.to
  BY <1>1, <1>3, UpdatedTyped
<1>7. AfterContent(l) \in {"idle", "statusAudit", "required"}
      /\ Fits(AfterContent(l), Updated(l, pr'))
  <2> DEFINE u == Updated(l, pr')
  <2> HIDE DEF u
  <2>1. u.patch.status \in {Keep, "IN_REVIEW", "REJECTED", "MERGED"}
        /\ (u.patch.status # Keep => u.to = u.patch.status)
    BY <1>1, <1>6 DEF Carries, UpdateLabels, u
  <2>2. u \in Handlers /\ AfterContent(u) = AfterContent(l)
    BY <1>6 DEF u
  <2>3. AfterContent(u) \in {"idle", "statusAudit", "required"} /\ Fits(AfterContent(u), u)
    BY <2>1, <2>2, AfterFits
  <2> QED
    BY <2>2, <2>3 DEF u
<1>8. AfterContent(l) \in Labels
  BY <1>7 DEF Labels, AuditLabels
<1> QED
  BY <1>4, <1>5, <1>7, <1>8, GotoTyped

(* A finite set of numbers that is not empty has a greatest one.           *)
LEMMA GreatestExists ==
    ASSUME NEW S \in SUBSET Nat, IsFiniteSet(S), S # {}
    PROVE  \E n \in S : \A m \in S : m <= n
<1> DEFINE Above == {S \ 0..i : i \in S}
<1>1. Above \subseteq FiniteSubsetsOf(Nat) /\ Above # {}
  <2>1. ASSUME NEW i \in S PROVE IsFiniteSet(S \ 0..i) /\ S \ 0..i \in SUBSET Nat
    BY FS_Difference
  <2> QED
    BY <2>1 DEF FiniteSubsetsOf
<1>2. PICK a \in Above : \A b \in Above : ~ (<<b, a>> \in StrictSubsetOrdering(Nat))
  <2> HIDE DEF Above
  <2> QED
    BY <1>1, WFMin, FS_StrictSubsetOrderingWellFounded
<1>3. PICK i \in S : a = S \ 0..i
  OBVIOUS
<1>4. ASSUME NEW j \in S, i < j PROVE FALSE
  <2>1. S \ 0..j \in Above /\ S \ 0..j \in SUBSET Nat /\ S \ 0..i \in SUBSET Nat
    OBVIOUS
  <2>2. S \ 0..j \subseteq S \ 0..i /\ j \in S \ 0..i /\ j \notin S \ 0..j
    BY <1>4
  <2>3. <<S \ 0..j, S \ 0..i>> \in StrictSubsetOrdering(Nat)
    BY <2>1, <2>2 DEF StrictSubsetOrdering
  <2> QED
    BY <1>2, <1>3, <2>1, <2>3
<1> QED
  BY <1>4

(* The numbers in use are finitely many, so there is a next one.           *)
LEMMA NumbersFinite ==
    ASSUME TypeOK
    PROVE  Numbers \in SUBSET (Nat \ {0}) /\ IsFiniteSet(Numbers)
<1>1. versions \in Seq([number : Nat \ {0}, content : Contents])
  BY DEF TypeOK
<1>2. DOMAIN versions = 1..Len(versions) /\ Len(versions) \in Nat
  BY <1>1
<1>3. IsFiniteSet(DOMAIN versions)
  BY <1>2, FS_Interval
<1>4. [i \in DOMAIN versions |-> versions[i].number] \in Surjection(DOMAIN versions, Numbers)
  BY DEF Surjection, Numbers
<1>5. IsFiniteSet(Numbers)
  BY <1>3, <1>4, FS_Surjection
<1>6. ASSUME NEW i \in DOMAIN versions PROVE versions[i].number \in Nat \ {0}
  <2> DEFINE T == [number : Nat \ {0}, content : Contents]
  <2>1. versions \in Seq(T) /\ i \in 1..Len(versions)
    BY <1>1, <1>2
  <2>2. versions[i] \in T
    <3> HIDE DEF T
    <3> QED
      BY <2>1
  <2> QED
    BY <2>2
<1> QED
  BY <1>5, <1>6 DEF Numbers

(* The next version number follows the last one.                           *)
LEMMA NextNumberTyped ==
    ASSUME TypeOK
    PROVE  /\ NextNumber \in Nat \ {0}
           /\ \A m \in Numbers : m < NextNumber
           /\ NextNumber = 1 \/ NextNumber - 1 \in Numbers
<1>1. CASE versions = <<>>
  BY <1>1 DEF NextNumber, Numbers
<1>2. CASE versions # <<>>
  <2>1. versions[1].number \in Numbers
    BY <1>2 DEF TypeOK, Numbers
  <2>2. \E n \in Numbers : \A m \in Numbers : m <= n
    BY <2>1, NumbersFinite, GreatestExists
  <2>3. PICK n \in Numbers : NextNumber = n + 1 /\ \A m \in Numbers : m <= n
    BY <1>2, <2>2 DEF NextNumber
  <2> QED
    BY <2>3, NumbersFinite
<1> QED
  BY <1>1, <1>2

(* A new version is typed.                                                 *)
LEMMA AppendTyped ==
    ASSUME TypeOK, NEW n \in Nat \ {0}, NEW c \in Contents
    PROVE  Append(versions, [number |-> n, content |-> c])
              \in Seq([number : Nat \ {0}, content : Contents])
BY DEF TypeOK

(* The steps that read and write versions keep the types.                  *)
LEMMA VersionTyped ==
    ASSUME TypeInv, NEW r \in Requests, LastVersion(r) \/ AddVersion(r) \/ Baseline(r)
    PROVE  TypeInv'
<1> DEFINE l == local[r]
<1>1. l \in Handlers /\ Carries(pc[r], l)
  BY DEF LastVersion, AddVersion, Baseline, TypeInv, TypeOK, HandlersCarry, Busy
<1>2. CASE LastVersion(r)
  <2>1. [l EXCEPT !.number = NextNumber] \in Handlers
    BY <1>1, NextNumberTyped DEF Handlers, TypeInv
  <2>2. Fits("addVersion", [l EXCEPT !.number = NextNumber])
    BY <1>1, <1>2, <2>1, NextNumberTyped
    DEF Fits, Carries, CreateLabels, UpdateLabels, Handlers, LastVersion, TypeInv
  <2>3. RowsTyped' /\ "addVersion" \in Labels
    BY <1>2 DEF LastVersion, RowsTyped, TypeInv, TypeOK, db, Labels
  <2> QED
    BY <1>2, <2>2, <2>3, GotoTyped DEF LastVersion
<1>3. CASE AddVersion(r)
  <2>1. l.patch.content \in Contents /\ l.number \in Nat \ {0}
    BY <1>1, <1>3, PatchTyped DEF AddVersion, Carries, Handlers
  <2>2. [l EXCEPT !.wrote = TRUE] \in Handlers
    BY <1>1 DEF Handlers
  <2>3. Fits("edit", [l EXCEPT !.wrote = TRUE])
    BY <1>1, <1>3, <2>2 DEF Fits, Carries, CreateLabels, UpdateLabels, Handlers, AddVersion
  <2>4. RowsTyped' /\ "edit" \in Labels
    BY <1>3, <2>1, AppendTyped DEF AddVersion, RowsTyped, TypeInv, TypeOK, Labels
  <2> QED
    BY <1>3, <2>3, <2>4, GotoTyped DEF AddVersion
<1>4. CASE Baseline(r)
  <2>1. l.cur.content \in Contents
    BY <1>1 DEF Handlers, PRRows
  <2>2. RowsTyped' /\ "idle" \in Labels /\ Fits("idle", l)
    BY <1>4, <2>1, AppendTyped DEF Baseline, RowsTyped, TypeInv, TypeOK, Labels, Fits
  <2> QED
    BY <1>4, <2>2, GotoTyped DEF Baseline
<1> QED
  BY <1>2, <1>3, <1>4

(* The steps that count the approvals and write the status keep the types. *)
LEMMA ApprovalsTyped ==
    ASSUME TypeInv, NEW r \in Requests, Required(r) \/ Count(r) \/ Flip(r) \/ Status(r)
    PROVE  TypeInv'
<1> DEFINE l == local[r]
<1>1. l \in Handlers /\ Carries(pc[r], l) /\ pc[r] # "idle"
  BY DEF Required, Count, Flip, Status, TypeInv, TypeOK, HandlersCarry, Busy
<1> USE DEF Labels, AuditLabels
<1>2. ASSUME NEW u \in Handlers, u.patch = l.patch,
             u.patch.status # Keep => u.to = u.patch.status
      PROVE  AfterRequired(u) \in {"idle", "statusAudit"} /\ Fits(AfterRequired(u), u)
             /\ AfterRequired(u) = AfterRequired(l)
  BY <1>1, <1>2, AfterFits DEF Carries, AfterRequired
<1>3. CASE Required(r)
  <2> DEFINE u == Updated(l, pr')
             next == IF UnderReview(pr.status) THEN "count" ELSE AfterRequired(l)
  <2>1. l.patch.required \in 1..MaxRequired
    BY <1>1, <1>3, PatchTyped DEF Required, Carries
  <2>2. pr' \in PRRows
    BY <1>3, <2>1, RowTyped DEF Required
  <2>3. RowsTyped'
    BY <1>3, <2>2 DEF Required, TypeInv, TypeOK, RowsTyped
  <2>4. u \in Handlers /\ u.patch = l.patch /\ u.to = l.to /\ u.wrote
    BY <1>1, <2>2, UpdatedTyped
  <2>5. u.patch.status # Keep => u.to = u.patch.status
    BY <1>1, <1>3, <2>4 DEF Required, Carries, UpdateLabels
  <2>6. Goto(r, next, u)
    BY <1>3 DEF Required
  <2> HIDE DEF u
  <2>7. Fits("count", u)
    BY <1>1, <2>4, <2>5 DEF Fits, Carries, CreateLabels, UpdateLabels
  <2>8. next \in Labels /\ Fits(next, u)
    BY <1>2, <2>4, <2>5, <2>7
  <2> QED
    BY <2>3, <2>6, <2>8, GotoTyped
<1>4. CASE Count(r)
  <2> DEFINE s == Recomputed(l.cur)
             u == [l EXCEPT !.to = s]
  <2>1. s \in {"IN_REVIEW", "APPROVED"}
    BY DEF Recomputed
  <2>2. u \in Handlers
    BY <1>1, <2>1 DEF Handlers, Statuses
  <2>3. Fits("flipAudit", u)
    BY <1>1, <1>4, <2>1, <2>2 DEF Count, Fits, Carries, CreateLabels, UpdateLabels, Handlers
  <2>4. l.patch.status # Keep => l.to = l.patch.status
    BY <1>1, <1>4 DEF Count, Carries, UpdateLabels
  <2>5. AfterRequired(l) \in Labels /\ Fits(AfterRequired(l), l)
    BY <1>1, <1>2, <2>4
  <2>6. RowsTyped'
    BY <1>4 DEF Count, TypeInv, TypeOK, RowsTyped, db
  <2>7. Goto(r, AfterRequired(l), l) \/ Goto(r, "flipAudit", u)
    BY <1>4 DEF Count
  <2> HIDE DEF u
  <2> QED
    BY <2>3, <2>5, <2>6, <2>7, GotoTyped
<1>5. CASE Flip(r)
  <2> DEFINE m == [l EXCEPT !.to = l.patch.status]
             u == Updated(m, pr')
  <2>1. l.to \in Statuses
    BY <1>1, <1>5 DEF Flip, Carries, Statuses
  <2>2. pr' \in PRRows
    BY <1>5, <2>1, RowTyped DEF Flip
  <2>3. RowsTyped'
    BY <1>5, <2>2 DEF Flip, TypeInv, TypeOK, RowsTyped
  <2>4. Goto(r, AfterRequired(l), u)
    BY <1>5 DEF Flip
  <2>5. CASE l.patch.status = Keep
    <3>1. AfterRequired(l) = "idle"
      BY <2>5 DEF AfterRequired
    <3> QED
      BY <2>3, <2>4, <3>1, GotoTyped DEF Fits
  <2>6. CASE l.patch.status # Keep
    <3>1. m \in Handlers /\ m.patch = l.patch /\ m.to = l.patch.status
      BY <1>1, <2>6 DEF Handlers, Carries, Statuses
    <3>2. u \in Handlers /\ u.patch = l.patch /\ u.to = u.patch.status
      <4> HIDE DEF m
      <4> QED
        BY <2>2, <3>1, UpdatedTyped
    <3> HIDE DEF u
    <3>3. AfterRequired(l) \in Labels /\ Fits(AfterRequired(l), u)
      BY <1>2, <3>2
    <3> QED
      BY <2>3, <2>4, <3>3, GotoTyped
  <2> QED
    BY <2>5, <2>6
<1>6. CASE Status(r)
  <2> DEFINE u == Updated(l, pr')
             next == IF l.to = "IN_REVIEW" /\ l.cur.status = "DRAFT" THEN "baseline" ELSE "idle"
  <2>1. l.to \in Statuses
    BY <1>1, <1>6 DEF Status, Carries, Statuses, UpdateLabels
  <2>2. pr' \in PRRows
    BY <1>6, <2>1, RowTyped DEF Status
  <2>3. RowsTyped'
    BY <1>6, <2>2 DEF Status, TypeInv, TypeOK, RowsTyped
  <2>4. Goto(r, next, u)
    BY <1>6 DEF Status
  <2>5. u \in Handlers /\ u.patch = l.patch /\ u.wrote
    BY <1>1, <2>2, UpdatedTyped
  <2> HIDE DEF u
  <2>6. Fits("baseline", u) /\ Fits("idle", u)
    BY <1>1, <2>5 DEF Fits, Carries, CreateLabels, UpdateLabels
  <2> QED
    BY <2>3, <2>4, <2>6, GotoTyped
<1> QED
  BY <1>3, <1>4, <1>5, <1>6

-----------------------------------------------------------------------------
(* The other handlers.                                                     *)
LEMMA OtherTyped ==
    ASSUME TypeInv, NEW r \in Requests,
           Create(r) \/ Review(r) \/ ForceInReview(r) \/ Assign(r) \/ Delete(r)
    PROVE  TypeInv'
<1> DEFINE l == local[r]
<1>1. l \in Handlers /\ Carries(pc[r], l)
  BY DEF Create, Review, ForceInReview, Assign, Delete, TypeInv, TypeOK, HandlersCarry, Busy
<1> USE DEF Labels, AuditLabels
<1>2. Fits("idle", l)
  BY DEF Fits
<1>3. CASE Create(r) \/ ForceInReview(r)
  <2>1. pr' \in PRRows
    BY <1>3, RowTyped DEF Create, ForceInReview, Statuses
  <2> QED
    BY <1>2, <1>3, <2>1, GotoTyped DEF Create, ForceInReview, RowsTyped, TypeInv, TypeOK
<1>4. CASE Review(r)
  <2> DEFINE u == [l EXCEPT !.wrote = TRUE]
             next == IF l.verdict = "APPROVED" THEN "count"
                     ELSE IF l.cur.status = "IN_REVIEW" THEN "idle" ELSE "force"
  <2>1. u \in Handlers /\ u.wrote /\ u.patch = l.patch /\ u.logged = l.logged /\ u.to = l.to
    BY <1>1 DEF Handlers
  <2>2. latest' \in [Users -> {"APPROVED", "CHANGES_REQUESTED", "NONE"}]
    BY <1>1, <1>4 DEF Review, Handlers, TypeInv, TypeOK
  <2>3. RowsTyped'
    BY <1>4, <2>2 DEF Review, TypeInv, TypeOK, RowsTyped
  <2>4. Goto(r, next, u)
    BY <1>4 DEF Review
  <2>5. l.patch.status = Keep
    BY <1>1, <1>4 DEF Review, Carries, NoPatch
  <2>6. l.verdict = "CHANGES_REQUESTED" => l.logged = "IN_REVIEW"
    BY <1>1, <1>4 DEF Review, Carries
  <2>7. l.verdict \in {"APPROVED", "CHANGES_REQUESTED"}
    BY <1>1, <1>4 DEF Review, Carries, Handlers
  <2> HIDE DEF u
  <2>8. Fits(next, u)
    BY <1>1, <2>1, <2>5, <2>6, <2>7 DEF Fits, Carries, CreateLabels, UpdateLabels
  <2> QED
    BY <2>3, <2>4, <2>8, GotoTyped
<1>5. CASE Assign(r)
  <2>1. assigned' \subseteq Reviewers
    BY <1>1, <1>5 DEF Assign, Carries, TypeInv, TypeOK
  <2> QED
    BY <1>2, <1>5, <2>1, GotoTyped DEF Assign, RowsTyped, TypeInv, TypeOK
<1>6. CASE Delete(r)
  <2>1. pr' \in PRRows
    BY <1>6, RowTyped DEF Delete
  <2>2. RowsTyped'
    BY <1>6, <2>1 DEF Delete, RowsTyped
  <2> QED
    BY <1>2, <1>6, <2>2, GotoTyped DEF Delete
<1> QED
  BY <1>3, <1>4, <1>5, <1>6

(* TypeInv is inductive,                                                   *)
LEMMA TypeInductive == TypeInv /\ [Next]_vars => TypeInv'
<1> SUFFICES ASSUME TypeInv, [Next]_vars PROVE TypeInv'
  OBVIOUS
<1>1. ASSUME NEW r \in Requests,
             CreateAudit(r) \/ FlipAudit(r) \/ StatusAudit(r) \/ ReviewAudit(r) \/ DeleteAudit(r)
      PROVE  TypeInv'
  BY <1>1, LogTyped DEF CreateAudit, FlipAudit, StatusAudit, ReviewAudit, DeleteAudit
<1>2. ASSUME NEW r \in Requests, Advance(r) PROVE TypeInv'
  BY <1>1, <1>2, EditTyped, VersionTyped, ApprovalsTyped, OtherTyped DEF Advance
<1>3. CASE UNCHANGED vars
  BY <1>3 DEF vars, TypeInv, TypeOK, HandlersCarry, Carries, Busy
<1> QED
  BY <1>2, <1>3, BeginTyped, StopTyped DEF Next

(* and holds of every reachable state.                                     *)
LEMMA TypeInvHolds == Spec => []TypeInv
<1>1. ASSUME Init PROVE TypeInv
  <2>1. pr \in PRRows
    BY <1>1 DEF Init, PRRows
  <2>2. versions \in Seq([number : Nat \ {0}, content : Contents])
    BY <1>1 DEF Init
  <2> QED
    BY <1>1, <2>1, <2>2 DEF Init, TypeInv, TypeOK, HandlersCarry, Busy, Labels
<1> QED
  BY <1>1, TypeInductive, PTL DEF Spec

(* Every variable of every reachable state has its type: in particular     *)
(* nothing ever makes the status or the content of the PR the undefined    *)
(* field of a PATCH, and the next version number always exists.            *)
THEOREM TypeCorrect == Spec => []TypeOK
BY TypeInvHolds, PTL DEF TypeInv

-----------------------------------------------------------------------------
(* Audit first.  Every write of the status comes after its event, which    *)
(* its handler has in hand (Carries); no other step changes the status.    *)
LEMMA StatusOnlyByWrites ==
    ASSUME TypeInv, Next, pr'.status # pr.status
    PROVE  \E r \in Requests :
              Create(r) \/ Flip(r) \/ Status(r) \/ ForceInReview(r) \/ Delete(r)
<1>1. ASSUME NEW r \in Requests, Begin(r) PROVE pr' = pr
  BY <1>1 DEF Begin, BeginCreate, deletePR, updatePR, submitReview, addReviewer, Start, db
<1>2. ASSUME NEW r \in Requests,
             CreateAudit(r) \/ FlipAudit(r) \/ StatusAudit(r) \/ ReviewAudit(r) \/ DeleteAudit(r)
      PROVE  pr' = pr
  BY <1>2 DEF CreateAudit, FlipAudit, StatusAudit, ReviewAudit, DeleteAudit, LogThen, db
<1>3. ASSUME NEW r \in Requests,
             LastVersion(r) \/ AddVersion(r) \/ Count(r) \/ Baseline(r) \/ Review(r) \/ Assign(r)
      PROVE  pr' = pr
  BY <1>3 DEF LastVersion, AddVersion, Count, Baseline, Review, Assign, db
<1>4. ASSUME NEW r \in Requests, DraftEdit(r) \/ Edit(r) \/ Required(r)
      PROVE  pr'.status = pr.status
  BY <1>4 DEF DraftEdit, Edit, Required, TypeInv, TypeOK, PRRows
<1>5. ASSUME NEW r \in Requests, AuditFails(r) \/ Crash(r) PROVE pr' = pr
  BY <1>5 DEF AuditFails, Crash, Stop, db
<1> QED
  BY <1>1, <1>2, <1>3, <1>4, <1>5 DEF Next, Advance

(* Each write of the status comes from a label that follows its audit call. *)
LEMMA WritesAreLogged ==
    ASSUME TypeInv, NEW r \in Requests,
           Create(r) \/ Flip(r) \/ Status(r) \/ ForceInReview(r) \/ Delete(r)
    PROVE  pc'[r] # pc[r] /\ local[r].logged = pr'.status
<1>1. /\ Carries(pc[r], local[r]) /\ pc \in [Requests -> Labels] /\ pr \in PRRows
      /\ pc[r] \in {"create", "flip", "status", "force", "delete"}
  BY DEF TypeInv, TypeOK, HandlersCarry, Busy, Create, Flip, Status, ForceInReview, Delete
<1>2. \A s : [pr EXCEPT !.status = s].status = s
  BY <1>1 DEF PRRows
<1>3. CASE Create(r)
  BY <1>1, <1>2, <1>3 DEF Create, Goto, Carries, CreateLabels
<1>4. CASE Flip(r)
  BY <1>1, <1>2, <1>4 DEF Flip, Goto, Carries, AfterRequired
<1>5. CASE Status(r)
  BY <1>1, <1>2, <1>5 DEF Status, Goto, Carries
<1>6. CASE ForceInReview(r)
  BY <1>1, <1>2, <1>6 DEF ForceInReview, Goto, Carries
<1>7. CASE Delete(r)
  BY <1>1, <1>2, <1>7 DEF Delete, Goto, Carries
<1> QED
  BY <1>3, <1>4, <1>5, <1>6, <1>7

(* No status is written whose event the same handler has not had recorded, *)
(* however handlers interleave, fail and stop.                             *)
THEOREM StatusIsAudited == Spec => StatusAudited
<1>1. TypeInv /\ [Next]_vars
        => [pr'.status # pr.status =>
              \E r \in Requests : pc'[r] # pc[r] /\ local[r].logged = pr'.status]_vars
  BY StatusOnlyByWrites, WritesAreLogged
<1> QED
  BY <1>1, TypeInvHolds, PTL DEF Spec, StatusAudited

-----------------------------------------------------------------------------
(* The rows under any interleaving.                                        *)

(* The one createPR runs before there is a row, the others after it.       *)
CreatedOnce ==
    /\ \A r \in Requests : pc[r] \in CreateLabels => pr.status = "NONE"
    /\ \A r, q \in Requests : pc[r] \in CreateLabels /\ pc[q] \in CreateLabels => r = q
    /\ \A r \in Requests : Busy(r) /\ pc[r] \notin CreateLabels => pr.status # "NONE"

Dense == \E n \in Nat : Numbers = 1..n

(* The number a handler is about to use leaves no gap, unless the PR has   *)
(* been deleted and it can no longer be used.                              *)
NextIsDense ==
    \A r \in Requests : pc[r] = "addVersion" /\ Exists =>
        local[r].number = 1 \/ local[r].number - 1 \in Numbers

RowsInv == CreatedOnce /\ Dense /\ NextIsDense

(* A version more is a number more.                                        *)
LEMMA NumbersGrow ==
    ASSUME TypeOK, NEW v \in [number : Nat \ {0}, content : Contents],
           versions' = Append(versions, v)
    PROVE  Numbers' = Numbers \cup {v.number}
<1> DEFINE T == [number : Nat \ {0}, content : Contents]
<1>1. versions \in Seq(T) /\ v \in T
  BY DEF TypeOK
<1> HIDE DEF T
<1>2. /\ Len(versions) \in Nat
      /\ DOMAIN versions = 1..Len(versions)
      /\ DOMAIN versions' = 1..(Len(versions) + 1)
      /\ \A i \in 1..Len(versions) : versions'[i] = versions[i]
      /\ versions'[Len(versions) + 1] = v
  BY <1>1
<1> QED
  BY <1>2 DEF Numbers

(* One number added to 1..n, or one of 1..n again, leaves it dense.        *)
LEMMA DenseGrows ==
    ASSUME TypeOK, Dense, NEW v \in [number : Nat \ {0}, content : Contents],
           v.number = 1 \/ v.number - 1 \in Numbers,
           versions' = Append(versions, v)
    PROVE  Dense'
<1>1. PICK n \in Nat : Numbers = 1..n
  BY DEF Dense
<1>2. Numbers' = Numbers \cup {v.number} /\ v.number \in Nat \ {0}
  BY NumbersGrow
<1>3. v.number \in 1..(n + 1)
  BY <1>1, <1>2
<1>4. Numbers' = 1..n \/ Numbers' = 1..(n + 1)
  BY <1>1, <1>2, <1>3
<1> QED
  BY <1>4 DEF Dense

(* A step is one handler's: the others stay where they are.                *)
LEMMA OneMoves ==
    ASSUME TypeInv, NEW r \in Requests, Begin(r) \/ Advance(r) \/ AuditFails(r) \/ Crash(r)
    PROVE  /\ \A q \in Requests \ {r} : pc'[q] = pc[q] /\ local'[q] = local[q]
           /\ pc[r] \in CreateLabels => Advance(r) \/ pc'[r] = "idle"
<1>1. pc \in [Requests -> Labels] /\ local \in [Requests -> Handlers \cup {NoHandler}]
  BY DEF TypeInv, TypeOK
<1>2. ASSUME NEW label, NEW l, Goto(r, label, l) \/ Start(r, label, l)
      PROVE  \A q \in Requests \ {r} : pc'[q] = pc[q] /\ local'[q] = local[q]
  BY <1>1, <1>2 DEF Goto, Start
<1>3. CASE Begin(r)
  <2>1. pc[r] = "idle"
    BY <1>3 DEF Begin, BeginCreate, deletePR, updatePR, submitReview, addReviewer, Start
  <2>2. \E label, l : Start(r, label, l)
    BY <1>3 DEF Begin, BeginCreate, deletePR, updatePR, submitReview, addReviewer
  <2> QED
    BY <1>2, <2>1, <2>2 DEF CreateLabels
<1>4. CASE Advance(r)
  <2>1. \E label, l : Goto(r, label, l)
    <3>1. CASE CreateAudit(r) \/ FlipAudit(r) \/ StatusAudit(r) \/ ReviewAudit(r)
               \/ DeleteAudit(r)
      BY <3>1 DEF CreateAudit, FlipAudit, StatusAudit, ReviewAudit, DeleteAudit, LogThen
    <3>2. CASE Create(r) \/ DraftEdit(r) \/ LastVersion(r) \/ AddVersion(r) \/ Edit(r)
               \/ Required(r)
      BY <3>2 DEF Create, DraftEdit, LastVersion, AddVersion, Edit, Required
    <3>3. CASE Count(r)
      BY <3>3 DEF Count
    <3>4. CASE Flip(r) \/ Status(r) \/ Baseline(r) \/ Review(r) \/ ForceInReview(r)
               \/ Assign(r) \/ Delete(r)
      BY <3>4 DEF Flip, Status, Baseline, Review, ForceInReview, Assign, Delete
    <3> QED
      BY <1>4, <3>1, <3>2, <3>3, <3>4 DEF Advance
  <2> QED
    BY <1>2, <1>4, <2>1
<1>5. CASE AuditFails(r) \/ Crash(r)
  BY <1>1, <1>5 DEF AuditFails, Crash, Stop
<1> QED
  BY <1>3, <1>4, <1>5

(* What Advance does to the status of the row and to the versions.         *)
LEMMA RowsAdvance ==
    ASSUME TypeInv, CreatedOnce, NEW r \in Requests, Advance(r)
    PROVE  \/ /\ pc[r] \in CreateLabels /\ pc'[r] \in {"create", "idle"}
              /\ versions' = versions
              /\ IF Create(r) THEN pr'.status = "DRAFT" /\ pc'[r] = "idle"
                              ELSE pr' = pr
           \/ /\ pc[r] \notin CreateLabels \cup {"idle"} /\ pc'[r] \notin CreateLabels
              /\ pr'.status # "NONE"
              /\ pr'.status = pr.status \/ Exists
<1>1. /\ pc \in [Requests -> Labels] /\ pr \in PRRows /\ Carries(pc[r], local[r])
      /\ Busy(r) /\ pc[r] \notin CreateLabels => pr.status # "NONE"
  <2>1. pc[r] # "idle"
    BY DEF Advance, CreateAudit, FlipAudit, StatusAudit, ReviewAudit, DeleteAudit, LogThen,
           Create, DraftEdit, LastVersion, AddVersion, Edit, Required, Count, Flip, Status,
           Baseline, Review, ForceInReview, Assign, Delete
  <2> QED
    BY <2>1 DEF TypeInv, TypeOK, HandlersCarry, Busy, CreatedOnce
<1>2. \A s : [pr EXCEPT !.status = s].status = s
  BY <1>1 DEF PRRows
<1> USE DEF CreateLabels
<1>3. CASE CreateAudit(r)
  BY <1>1, <1>3 DEF CreateAudit, LogThen, Goto, db, Create
<1>4. CASE Create(r)
  BY <1>1, <1>2, <1>4 DEF Create, Goto
<1>5. CASE FlipAudit(r) \/ StatusAudit(r) \/ ReviewAudit(r) \/ DeleteAudit(r)
  BY <1>1, <1>5 DEF FlipAudit, StatusAudit, ReviewAudit, DeleteAudit, LogThen, Goto, db, Busy
<1>6. CASE DraftEdit(r) \/ Edit(r) \/ Required(r)
  <2>1. pr'.status = pr.status
    BY <1>1, <1>6 DEF DraftEdit, Edit, Required, PRRows
  <2> QED
    BY <1>1, <1>6, <2>1
    DEF DraftEdit, Edit, Required, Goto, AfterContent, AfterRequired, Busy
<1>7. CASE LastVersion(r) \/ AddVersion(r) \/ Count(r) \/ Baseline(r) \/ Review(r) \/ Assign(r)
  BY <1>1, <1>7
  DEF LastVersion, AddVersion, Count, Baseline, Review, Assign, Goto, AfterRequired, db, Busy
<1>8. CASE Flip(r) \/ Status(r) \/ ForceInReview(r) \/ Delete(r)
  <2>1. pr'.status # "NONE"
    <3>1. CASE Flip(r)
      BY <1>1, <1>2, <3>1 DEF Flip, Carries
    <3>2. CASE Status(r)
      BY <1>1, <1>2, <3>2, PRAssumption DEF Status, Carries, UpdateLabels
    <3>3. CASE ForceInReview(r) \/ Delete(r)
      BY <1>1, <1>2, <3>3 DEF ForceInReview, Delete
    <3> QED
      BY <1>8, <3>1, <3>2, <3>3
  <2> QED
    BY <1>1, <1>8, <2>1 DEF Flip, Status, ForceInReview, Delete, Goto, AfterRequired
<1> QED
  BY <1>3, <1>4, <1>5, <1>6, <1>7, <1>8 DEF Advance

(* CreatedOnce is inductive.                                               *)
LEMMA CreatedOnceHolds == TypeInv /\ CreatedOnce /\ [Next]_vars => CreatedOnce'
<1> SUFFICES ASSUME TypeInv, CreatedOnce, [Next]_vars PROVE CreatedOnce'
  OBVIOUS
<1> USE DEF CreateLabels
<1>1. ASSUME NEW r \in Requests, Begin(r) PROVE CreatedOnce'
  <2>1. pc \in [Requests -> Labels] /\ pr' = pr
    BY <1>1 DEF TypeInv, TypeOK, Begin, BeginCreate, deletePR, updatePR, submitReview,
                addReviewer, Start, db
  <2>2. CASE \E a \in Admins : BeginCreate(r, a)
    BY <2>1, <2>2 DEF BeginCreate, Start, CreatedOnce, Busy
  <2>3. CASE Exists /\ \E label \in Labels \ CreateLabels : pc' = [pc EXCEPT ![r] = label]
    BY <2>1, <2>3 DEF CreatedOnce, Busy, Exists
  <2>4. ASSUME NEW a \in Admins, NEW p \in Patches, updatePR(r, a, p)
        PROVE  \E label \in Labels \ CreateLabels : pc' = [pc EXCEPT ![r] = label]
    BY <2>4, UpdateStarts DEF updatePR, Start, Users, Labels, AuditLabels
  <2>5. (\E a \in Admins : BeginCreate(r, a)) \/ Exists
    BY <1>1 DEF Begin, deletePR, updatePR, submitReview, addReviewer, UnderReview, Exists
  <2>6. ASSUME NEW a \in Admins, deletePR(r, a) \/ \E u \in Reviewers : addReviewer(r, a, u)
        PROVE  \E label \in Labels \ CreateLabels : pc' = [pc EXCEPT ![r] = label]
    BY <2>6 DEF deletePR, addReviewer, Start, Labels, AuditLabels
  <2>7. ASSUME NEW u \in Users, NEW v \in {"APPROVED", "CHANGES_REQUESTED"},
               submitReview(r, u, v)
        PROVE  \E label \in Labels \ CreateLabels : pc' = [pc EXCEPT ![r] = label]
    BY <2>7 DEF submitReview, Start, Labels, AuditLabels
  <2> QED
    BY <1>1, <2>2, <2>3, <2>4, <2>5, <2>6, <2>7 DEF Begin
<1>2. ASSUME NEW r \in Requests, Advance(r) PROVE CreatedOnce'
  <2>1. \A q \in Requests \ {r} : pc'[q] = pc[q]
    BY <1>2, OneMoves
  <2>2. CASE /\ pc[r] \in CreateLabels /\ pc'[r] \in {"create", "idle"}
             /\ (pr' = pr \/ (pr'.status = "DRAFT" /\ pc'[r] = "idle"))
    BY <2>1, <2>2 DEF CreatedOnce, Busy
  <2>3. CASE /\ pc[r] \notin CreateLabels \cup {"idle"} /\ pc'[r] \notin CreateLabels
             /\ pr'.status # "NONE"
    BY <2>1, <2>3 DEF CreatedOnce, Busy
  <2> QED
    BY <1>2, <2>2, <2>3, RowsAdvance
<1>3. ASSUME NEW r \in Requests, AuditFails(r) \/ Crash(r) PROVE CreatedOnce'
  BY <1>3 DEF AuditFails, Crash, Stop, CreatedOnce, Busy, db, TypeInv, TypeOK
<1>4. CASE UNCHANGED vars
  BY <1>4 DEF vars, CreatedOnce, Busy
<1> QED
  BY <1>1, <1>2, <1>3, <1>4 DEF Next

(* What a step does to the versions.                                       *)
LEMMA VersionsMove ==
    ASSUME TypeInv, RowsInv, NEW r \in Requests,
           Begin(r) \/ Advance(r) \/ AuditFails(r) \/ Crash(r)
    PROVE  \/ versions' = versions
           \/ /\ Exists
              /\ \E v \in [number : Nat \ {0}, content : Contents] :
                    /\ versions' = Append(versions, v)
                    /\ v.number = 1 \/ v.number - 1 \in Numbers
           \/ versions' = <<>> /\ pr'.status = "DELETED"
<1> DEFINE l == local[r]
<1>1. /\ Busy(r) => l \in Handlers /\ Carries(pc[r], l)
      /\ pr \in PRRows
  BY DEF TypeInv, TypeOK, HandlersCarry
<1>2. CASE AddVersion(r)
  <2> DEFINE v == [number |-> l.number, content |-> l.patch.content]
  <2>1. l.number \in Nat \ {0} /\ l.patch.content \in Contents
    BY <1>1, <1>2, PatchTyped DEF AddVersion, Carries, Busy, Handlers
  <2>2. v.number = 1 \/ v.number - 1 \in Numbers
    BY <1>2 DEF AddVersion, RowsInv, NextIsDense
  <2> QED
    BY <1>2, <2>1, <2>2 DEF AddVersion
<1>3. CASE Baseline(r)
  <2> DEFINE v == [number |-> 1, content |-> l.cur.content]
  <2>1. l.cur.content \in Contents
    BY <1>1, <1>3 DEF Baseline, Busy, Handlers, PRRows
  <2> QED
    BY <1>3, <2>1 DEF Baseline
<1>4. CASE Delete(r)
  BY <1>1, <1>4 DEF Delete, PRRows
<1>5. CASE Begin(r) \/ AuditFails(r) \/ Crash(r)
  BY <1>5 DEF Begin, BeginCreate, deletePR, updatePR, submitReview, addReviewer, Start, db,
              AuditFails, Crash, Stop
<1>6. CASE CreateAudit(r) \/ FlipAudit(r) \/ StatusAudit(r) \/ ReviewAudit(r) \/ DeleteAudit(r)
  BY <1>6 DEF CreateAudit, FlipAudit, StatusAudit, ReviewAudit, DeleteAudit, LogThen, db
<1>7. CASE Create(r) \/ DraftEdit(r) \/ LastVersion(r) \/ Edit(r) \/ Required(r) \/ Count(r)
           \/ Flip(r) \/ Status(r) \/ Review(r) \/ ForceInReview(r) \/ Assign(r)
  BY <1>7 DEF Create, DraftEdit, LastVersion, Edit, Required, Count, Flip, Status, Review,
              ForceInReview, Assign, db
<1> QED
  BY <1>2, <1>3, <1>4, <1>5, <1>6, <1>7 DEF Advance

(* RowsInv is inductive,                                                   *)
LEMMA RowsInductive == TypeInv /\ TypeInv' /\ RowsInv /\ [Next]_vars => RowsInv'
<1> SUFFICES ASSUME TypeInv, TypeInv', RowsInv, [Next]_vars PROVE RowsInv'
  OBVIOUS
<1>1. CreatedOnce'
  BY CreatedOnceHolds DEF RowsInv
<1>2. CASE UNCHANGED vars
  BY <1>1, <1>2 DEF vars, RowsInv, Dense, NextIsDense, Numbers, Exists
<1>3. ASSUME NEW r \in Requests, Begin(r) \/ Advance(r) \/ AuditFails(r) \/ Crash(r)
      PROVE  Dense' /\ NextIsDense'
  <2>1. Dense'
    <3>1. CASE versions' = versions
      BY <3>1 DEF RowsInv, Dense, Numbers
    <3>2. CASE versions' = <<>>
      <4>1. Numbers' = 1..0
        BY <3>2 DEF Numbers
      <4> QED
        BY <4>1 DEF Dense
    <3> QED
      BY <1>3, <3>1, <3>2, VersionsMove, DenseGrows DEF RowsInv, TypeInv
  <2>2. Numbers \subseteq Numbers' \/ ~Exists'
    <3>1. CASE versions' = versions
      BY <3>1 DEF Numbers
    <3>2. CASE pr'.status = "DELETED"
      BY <3>2 DEF Exists
    <3> QED
      BY <1>3, <3>1, <3>2, VersionsMove, NumbersGrow DEF TypeInv
  <2>3. ASSUME NEW q \in Requests, pc'[q] = "addVersion", Exists'
        PROVE  local'[q].number = 1 \/ local'[q].number - 1 \in Numbers'
    <3>1. CASE q # r
      <4>1. pc[q] = "addVersion" /\ local'[q] = local[q]
        BY <1>3, <2>3, <3>1, OneMoves
      <4>2. pr.status # "NONE"
        BY <4>1 DEF RowsInv, CreatedOnce, Busy, CreateLabels
      <4>3. pr'.status = pr.status \/ Exists
        <5>1. CASE Advance(r)
          BY <4>2, <5>1, RowsAdvance DEF RowsInv, CreatedOnce
        <5>2. CASE Begin(r) \/ AuditFails(r) \/ Crash(r)
          BY <5>2 DEF Begin, BeginCreate, deletePR, updatePR, submitReview, addReviewer, Start,
                      db, AuditFails, Crash, Stop
        <5> QED
          BY <1>3, <5>1, <5>2
      <4>4. Exists
        BY <2>3, <4>2, <4>3 DEF Exists
      <4> QED
        BY <2>2, <2>3, <4>1, <4>4 DEF RowsInv, NextIsDense
    <3>2. CASE q = r
      <4>1. LastVersion(r)
        <5>1. pc \in [Requests -> Labels]
          BY DEF TypeInv, TypeOK
        <5>2. CASE Begin(r)
          <6>1. ASSUME NEW a \in Admins, NEW p \in Patches, updatePR(r, a, p) PROVE FALSE
            BY <2>3, <3>2, <5>1, <6>1, UpdateStarts DEF updatePR, Start, Users
          <6> QED
            BY <2>3, <3>2, <5>1, <5>2, <6>1
            DEF Begin, BeginCreate, deletePR, submitReview, addReviewer, Start
        <5>3. CASE AuditFails(r) \/ Crash(r)
          BY <2>3, <3>2, <5>1, <5>3 DEF AuditFails, Crash, Stop
        <5>4. CASE Advance(r)
          <6>1. CASE CreateAudit(r) \/ FlipAudit(r) \/ StatusAudit(r) \/ ReviewAudit(r)
                     \/ DeleteAudit(r)
            BY <2>3, <3>2, <5>1, <6>1
            DEF CreateAudit, FlipAudit, StatusAudit, ReviewAudit, DeleteAudit, LogThen, Goto
          <6>2. CASE Create(r) \/ DraftEdit(r) \/ AddVersion(r) \/ Edit(r) \/ Required(r)
                     \/ Count(r) \/ Flip(r) \/ Status(r) \/ Baseline(r) \/ Review(r)
                     \/ ForceInReview(r) \/ Assign(r) \/ Delete(r)
            BY <2>3, <3>2, <5>1, <6>2
            DEF Create, DraftEdit, AddVersion, Edit, Required, Count, Flip, Status, Baseline,
                Review, ForceInReview, Assign, Delete, Goto, AfterContent, AfterRequired
          <6> QED
            BY <5>4, <6>1, <6>2 DEF Advance
        <5> QED
          BY <1>3, <5>2, <5>3, <5>4
      <4>2. local'[r].number = NextNumber /\ Numbers' = Numbers
        <5>1. local[r] \in Handlers
          BY <4>1 DEF LastVersion, TypeInv, TypeOK, Busy
        <5>2. [local[r] EXCEPT !.number = NextNumber].number = NextNumber
          BY <5>1 DEF Handlers
        <5>3. local'[r] = [local[r] EXCEPT !.number = NextNumber]
          BY <4>1 DEF LastVersion, Goto, TypeInv, TypeOK
        <5> QED
          BY <4>1, <5>2, <5>3 DEF LastVersion, db, Numbers
      <4> QED
        BY <3>2, <4>2, NextNumberTyped DEF TypeInv
    <3> QED
      BY <3>1, <3>2
  <2> QED
    BY <2>1, <2>3 DEF NextIsDense
<1> QED
  BY <1>1, <1>2, <1>3 DEF Next, RowsInv

(* and holds of every reachable state.                                     *)
LEMMA RowsInvHolds == Spec => [](TypeInv /\ RowsInv)
<1>1. ASSUME Init PROVE RowsInv
  <2>1. Numbers = 1..0
    BY <1>1 DEF Init, Numbers
  <2>2. Dense
    BY <2>1 DEF Dense
  <2> QED
    BY <1>1, <2>2 DEF Init, RowsInv, CreatedOnce, NextIsDense, Busy, CreateLabels
<1> QED
  BY <1>1, RowsInductive, TypeInductive, TypeInvHolds, PTL DEF Spec

(* The numbers of the versions are 1..n under any interleaving of any      *)
(* number of handlers that may stop anywhere: an edit that overtakes       *)
(* another can take the same number, never leave one out.                  *)
THEOREM VersionsAreDense == Spec => []VersionNumbersDense
<1>1. ASSUME Dense PROVE VersionNumbersDense
  <2>1. PICK n \in Nat : Numbers = 1..n
    BY <1>1 DEF Dense
  <2>2. Cardinality(1..n) = n
    <3>1. Cardinality(1..n) = IF 1 > n THEN 0 ELSE n - 1 + 1
      BY FS_Interval
    <3> QED
      BY <3>1
  <2> QED
    BY <2>1, <2>2 DEF VersionNumbersDense
<1> QED
  BY <1>1, RowsInvHolds, PTL DEF RowsInv

-----------------------------------------------------------------------------
(* The rows as long as handlers come one at a time.                        *)

(* What the only handler, with local variables l, knows at label.          *)
Knows(label, l) ==
    /\ l.cur = pr
    /\ label = "draftEdit" => pr.status = "DRAFT"
    /\ label \in {"lastVersion", "addVersion", "edit", "count", "flipAudit", "flip",
                  "reviewAudit", "review"} => UnderReview(pr.status)
    /\ label = "required" => Exists
    /\ label \in UpdateLabels \cup {"flipAudit", "flip"} =>
          /\ l.patch.status = "IN_REVIEW" => pr.status = "DRAFT"
          /\ l.patch.status \in {"REJECTED", "MERGED"} => UnderReview(pr.status)
    /\ label = "addVersion" => l.number = Len(versions) + 1
    /\ label = "edit" => versions # <<>> /\ versions[Len(versions)].content = l.patch.content
    /\ label \in {"flipAudit", "flip"} => l.to = Recomputed(pr) /\ l.to # pr.status
    /\ label = "baseline" => pr.status = "IN_REVIEW" /\ versions = <<>>
    /\ label = "force" => pr.status = "APPROVED"

(* What the rows are while the only handler is at label: up to the repair  *)
(* that this handler still has to make, if it was not cut short.           *)
RowsFine(label) ==
    /\ pr.status \in {"DRAFT", "NONE"} => versions = <<>>
    /\ \A i \in DOMAIN versions : versions[i].number = i
    /\ ~interrupted /\ Exists /\ pr.status # "DRAFT" /\ label \notin {"edit", "baseline"}
          => versions # <<>> /\ versions[Len(versions)].content = pr.content
    /\ ~interrupted /\ pr.status = "APPROVED"
       /\ label \notin {"count", "flipAudit", "flip", "force"}
          => ApprovedCount >= pr.required

Fine(r) == RowsFine(pc[r]) /\ (Busy(r) => Knows(pc[r], local[r]))

OneByOne == \A r, q \in Requests : Busy(r) /\ Busy(q) => r = q

AloneInv ==
    ~contended => /\ OneByOne
                  /\ Idle => RowsFine("idle")
                  /\ \A r \in Requests : Busy(r) => Fine(r)

(* The handler that moves is the only one.                                 *)
LEMMA OthersIdle ==
    ASSUME TypeInv, AloneInv, ~contended', NEW r \in Requests,
           Begin(r) \/ Advance(r) \/ AuditFails(r) \/ Crash(r)
    PROVE  /\ ~contended
           /\ Begin(r) \/ Busy(r)
           /\ \A q \in Requests \ {r} : ~Busy(q) /\ ~Busy(q)'
<1>1. ~contended
  BY DEF Begin, BeginCreate, deletePR, updatePR, submitReview, addReviewer, Start, Advance,
         CreateAudit, FlipAudit, StatusAudit, ReviewAudit, DeleteAudit, LogThen, Create,
         DraftEdit, LastVersion, AddVersion, Edit, Required, Count, Flip, Status, Baseline,
         Review, ForceInReview, Assign, Delete, Goto, AuditFails, Crash, Stop
<1>2. Begin(r) => Idle
  BY <1>1 DEF Begin, BeginCreate, deletePR, updatePR, submitReview, addReviewer, Start
<1>3. Advance(r) \/ AuditFails(r) \/ Crash(r) => Busy(r)
  BY DEF Advance, CreateAudit, FlipAudit, StatusAudit, ReviewAudit, DeleteAudit, LogThen,
         Create, DraftEdit, LastVersion, AddVersion, Edit, Required, Count, Flip, Status,
         Baseline, Review, ForceInReview, Assign, Delete, AuditFails, Crash, Busy, AuditLabels
<1>4. \A q \in Requests \ {r} : ~Busy(q)
  BY <1>1, <1>2, <1>3 DEF AloneInv, OneByOne, Idle
<1> QED
  BY <1>1, <1>3, <1>4, OneMoves DEF Busy

(* It is enough to look at the handler that moves.                         *)
LEMMA AloneMoves ==
    ASSUME TypeInv, AloneInv, NEW r \in Requests,
           Begin(r) \/ Advance(r) \/ AuditFails(r) \/ Crash(r),
           ~contended' => Fine(r)'
    PROVE  AloneInv'
<1> SUFFICES ASSUME ~contended' PROVE AloneInv'
  BY DEF AloneInv
<1>1. ~contended /\ \A q \in Requests \ {r} : ~Busy(q) /\ ~Busy(q)'
  BY OthersIdle
<1>2. OneByOne' /\ \A q \in Requests : Busy(q)' => q = r
  BY <1>1 DEF OneByOne
<1>3. Idle' => RowsFine("idle")'
  <2> SUFFICES ASSUME Idle' PROVE RowsFine("idle")'
    OBVIOUS
  <2>1. pc'[r] = "idle"
    BY DEF Idle, Busy
  <2> QED
    BY <2>1 DEF Fine, RowsFine
<1>4. \A q \in Requests : Busy(q)' => Fine(q)'
  BY <1>2
<1> QED
  BY <1>2, <1>3, <1>4 DEF AloneInv

(* What a handler that starts alone finds.                                 *)
LEMMA FineStarts ==
    ASSUME TypeInv, AloneInv, ~contended', NEW r \in Requests, NEW label \in Labels \ {"idle"},
           NEW l, Start(r, label, l), l.cur = pr,
           label \notin {"addVersion", "edit", "count", "flipAudit", "flip", "baseline", "force"},
           label = "draftEdit" => pr.status = "DRAFT",
           label \in {"lastVersion", "reviewAudit", "review"} => UnderReview(pr.status),
           label = "required" => Exists,
           label \in UpdateLabels /\ l.patch.status = "IN_REVIEW" => pr.status = "DRAFT",
           label \in UpdateLabels /\ l.patch.status \in {"REJECTED", "MERGED"}
              => UnderReview(pr.status)
    PROVE  Fine(r)'
<1>1. ~contended /\ Idle /\ interrupted' = interrupted
  BY DEF Start
<1>2. RowsFine("idle")
  BY <1>1 DEF AloneInv
<1>3. pc'[r] = label /\ local'[r] = l
  BY DEF Start, TypeInv, TypeOK
<1>4. pr' = pr /\ versions' = versions /\ latest' = latest
  BY DEF Start, db
<1>5. ApprovedCount' = ApprovedCount
  BY <1>4 DEF ApprovedCount
<1>6. RowsFine(pc[r])'
  BY <1>1, <1>2, <1>3, <1>4, <1>5 DEF RowsFine, Exists
<1>7. Knows(pc[r], local[r])'
  BY <1>3, <1>4 DEF Knows, Exists
<1> QED
  BY <1>6, <1>7 DEF Fine

(* A request that begins while no other runs finds the row as it should.   *)
LEMMA AloneBegins ==
    ASSUME TypeInv, AloneInv, ~contended', NEW r \in Requests, Begin(r)
    PROVE  Fine(r)'
<1> USE DEF Labels, AuditLabels, UpdateLabels
<1>1. ASSUME NEW a \in Admins, BeginCreate(r, a) PROVE Fine(r)'
  BY <1>1, FineStarts DEF BeginCreate, Begun
<1>2. ASSUME NEW a \in Admins, deletePR(r, a) PROVE Fine(r)'
  BY <1>2, FineStarts DEF deletePR, Begun
<1>3. ASSUME NEW a \in Admins, NEW p \in Patches, updatePR(r, a, p) PROVE Fine(r)'
  <2> DEFINE l == Begun(a, p, "NONE", IF p.status = Keep THEN "NONE" ELSE p.status)
             first == IF p.content = Keep THEN AfterContent(l)
                      ELSE IF pr.status = "DRAFT" THEN "draftEdit" ELSE "lastVersion"
  <2>1. first \in {"draftEdit", "lastVersion", "required", "statusAudit"}
    BY <1>3, UpdateStarts DEF updatePR, Users
  <2>2. Start(r, first, l)
    BY <1>3 DEF updatePR
  <2>3. l.cur = pr /\ l.patch = p
    BY DEF Begun
  <2>4. Exists /\ pr \in PRRows
    BY <1>3 DEF updatePR, TypeInv, TypeOK
  <2>5. p.status = "IN_REVIEW" => pr.status = "DRAFT"
    BY <1>3, <2>4, PRAssumption DEF updatePR, ALLOWED_TRANSITIONS, Statuses
  <2>6. p.status \in {"REJECTED", "MERGED"} => UnderReview(pr.status)
    BY <1>3, <2>4, PRAssumption DEF updatePR, ALLOWED_TRANSITIONS, Statuses, UnderReview
  <2>7. /\ first = "draftEdit" => pr.status = "DRAFT"
        /\ first = "lastVersion" => UnderReview(pr.status)
    BY <1>3, <2>4
    DEF updatePR, Exists, Terminal, UnderReview, PRRows, Statuses, AfterContent, AfterRequired
  <2> HIDE DEF l, first
  <2> QED
    BY <2>1, <2>2, <2>3, <2>4, <2>5, <2>6, <2>7, FineStarts
<1>4. ASSUME NEW u \in Users, NEW v \in {"APPROVED", "CHANGES_REQUESTED"}, submitReview(r, u, v)
      PROVE  Fine(r)'
  BY <1>4, FineStarts DEF submitReview, Begun
<1>5. ASSUME NEW a \in Admins, NEW u \in Reviewers, addReviewer(r, a, u) PROVE Fine(r)'
  BY <1>5, FineStarts DEF addReviewer, Begun
<1> QED
  BY <1>1, <1>2, <1>3, <1>4, <1>5 DEF Begin

(* A handler that stops while it owes a repair has written, and leaves the *)
(* PR interrupted.                                                         *)
LEMMA AloneStops ==
    ASSUME TypeInv, AloneInv, ~contended', NEW r \in Requests, AuditFails(r) \/ Crash(r)
    PROVE  Fine(r)'
<1>1. Stop(r) /\ Busy(r)
  BY DEF AuditFails, Crash, Busy, AuditLabels
<1>2. RowsFine(pc[r]) /\ Carries(pc[r], local[r])
  BY <1>1 DEF Stop, AloneInv, Fine, TypeInv, HandlersCarry
<1>3. pc'[r] = "idle" /\ interrupted' = (interrupted \/ local[r].wrote) /\ ~Busy(r)'
  BY <1>1 DEF Stop, TypeInv, TypeOK, Busy
<1>4. pr' = pr /\ versions' = versions /\ latest' = latest
  BY <1>1 DEF Stop, db
<1>5. ApprovedCount' = ApprovedCount
  BY <1>4 DEF ApprovedCount
<1>6. pc[r] \in {"edit", "baseline", "count", "flipAudit", "flip", "force"} => interrupted'
  BY <1>2, <1>3 DEF Carries
<1>7. ~interrupted' => ~interrupted
  BY <1>3
<1>8. RowsFine(pc[r])'
  BY <1>2, <1>3, <1>4, <1>5, <1>6, <1>7 DEF RowsFine, Exists
<1> QED
  BY <1>3, <1>8 DEF Fine

(* What going to the next label changes.                                   *)
LEMMA Goes ==
    ASSUME TypeInv, NEW r \in Requests, NEW label \in Labels, NEW l, Goto(r, label, l)
    PROVE  /\ pc'[r] = label
           /\ label # "idle" => local'[r] = l
           /\ label = "idle" => ~Busy(r)'
           /\ contended' = contended /\ interrupted' = interrupted
BY DEF Goto, TypeInv, TypeOK, Busy

(* What the handler that goes on has in hand.                              *)
LEMMA InHand ==
    ASSUME TypeInv, AloneInv, ~contended, NEW r \in Requests, Busy(r)
    PROVE  /\ local[r] \in Handlers /\ Carries(pc[r], local[r])
           /\ Knows(pc[r], local[r]) /\ RowsFine(pc[r])
           /\ pr \in PRRows
BY DEF TypeInv, TypeOK, HandlersCarry, AloneInv, Fine

(* The audit calls, and the two reads: the rows stay as they are.          *)
LEMMA AloneReads ==
    ASSUME TypeInv, AloneInv, ~contended', NEW r \in Requests,
           CreateAudit(r) \/ FlipAudit(r) \/ StatusAudit(r) \/ ReviewAudit(r) \/ DeleteAudit(r)
           \/ LastVersion(r) \/ Count(r)
    PROVE  Fine(r)'
<1> DEFINE l == local[r]
<1> USE DEF Labels, AuditLabels, UpdateLabels
<1>1. Busy(r) /\ ~contended /\ pr' = pr /\ versions' = versions /\ latest' = latest
  BY DEF CreateAudit, FlipAudit, StatusAudit, ReviewAudit, DeleteAudit, LogThen, LastVersion,
         Count, Goto, db, Busy
<1>2. /\ l \in Handlers /\ Carries(pc[r], l) /\ Knows(pc[r], l) /\ RowsFine(pc[r])
      /\ pr \in PRRows
  BY <1>1, InHand
<1>3. ApprovedCount' = ApprovedCount
  BY <1>1 DEF ApprovedCount
<1>4. Recomputed(pr)' = Recomputed(pr)
  BY <1>1, <1>3 DEF Recomputed
<1>5. ASSUME NEW label, NEW next,
             <<label, next>> \in {<<"createAudit", "create">>, <<"flipAudit", "flip">>,
                                  <<"statusAudit", "status">>, <<"reviewAudit", "review">>,
                                  <<"deleteAudit", "delete">>},
             LogThen(r, label, next)
      PROVE  Fine(r)'
  <2> DEFINE u == [l EXCEPT !.logged = l.to]
  <2>1. pc[r] = label /\ next \in Labels \ {"idle"} /\ Goto(r, next, u)
    BY <1>5 DEF LogThen
  <2>2. pc'[r] = next /\ local'[r] = u /\ interrupted' = interrupted
    BY <2>1, Goes
  <2>3. u.cur = l.cur /\ u.patch = l.patch /\ u.to = l.to /\ u.number = l.number
    BY <1>2 DEF Handlers
  <2> HIDE DEF u
  <2>4. RowsFine(pc[r])'
    BY <1>1, <1>2, <1>3, <1>5, <2>1, <2>2 DEF RowsFine, Exists
  <2>5. Knows(pc[r], local[r])'
    BY <1>1, <1>2, <1>4, <1>5, <2>1, <2>2, <2>3 DEF Knows, Exists
  <2> QED
    BY <2>4, <2>5 DEF Fine
<1>6. CASE LastVersion(r)
  <2> DEFINE u == [l EXCEPT !.number = NextNumber]
  <2>1. pc[r] = "lastVersion" /\ Goto(r, "addVersion", u)
    BY <1>6 DEF LastVersion
  <2>2. pc'[r] = "addVersion" /\ local'[r] = u /\ interrupted' = interrupted
    BY <2>1, Goes
  <2>3. u.cur = l.cur /\ u.patch = l.patch /\ u.number = NextNumber
    BY <1>2 DEF Handlers
  <2>4. NextNumber = Len(versions) + 1
    <3>1. versions \in Seq([number : Nat \ {0}, content : Contents])
      BY DEF TypeInv, TypeOK
    <3>2. \A i \in DOMAIN versions : versions[i].number = i
      BY <1>2 DEF RowsFine
    <3>3. Len(versions) \in Nat /\ DOMAIN versions = 1..Len(versions)
      BY <3>1
    <3>4. Numbers = 1..Len(versions)
      BY <3>2, <3>3 DEF Numbers
    <3>5. CASE versions = <<>>
      BY <3>5 DEF NextNumber
    <3>6. CASE versions # <<>>
      <4>1. Len(versions) \in Numbers
        BY <3>1, <3>3, <3>4, <3>6
      <4>2. TypeOK
        BY DEF TypeInv
      <4>3. NextNumber \in Nat \ {0} /\ Len(versions) < NextNumber
            /\ (NextNumber = 1 \/ NextNumber - 1 \in Numbers)
        BY <4>1, <4>2, NextNumberTyped
      <4> QED
        BY <3>3, <3>4, <4>3
    <3> QED
      BY <3>5, <3>6
  <2> HIDE DEF u
  <2>5. RowsFine(pc[r])'
    BY <1>1, <1>2, <1>3, <2>1, <2>2 DEF RowsFine, Exists
  <2>6. Knows(pc[r], local[r])'
    BY <1>1, <1>2, <2>1, <2>2, <2>3, <2>4 DEF Knows, Exists
  <2> QED
    BY <2>5, <2>6 DEF Fine
<1>7. CASE Count(r)
  <2> DEFINE s == Recomputed(l.cur)
             u == [l EXCEPT !.to = s]
  <2>1. pc[r] = "count"
    BY <1>7 DEF Count
  <2>2. s = Recomputed(pr) /\ s \in {"APPROVED", "IN_REVIEW"}
    BY <1>2 DEF Knows, Recomputed
  <2>3. UnderReview(pr.status) /\ l.cur = pr
    BY <1>2, <2>1 DEF Knows
  <2>4. CASE s = pr.status
    <3>1. Goto(r, AfterRequired(l), l)
      BY <1>7, <2>3, <2>4 DEF Count
    <3>2. AfterRequired(l) \in {"idle", "statusAudit"}
      BY DEF AfterRequired
    <3>3. pc'[r] = AfterRequired(l) /\ interrupted' = interrupted
          /\ (AfterRequired(l) # "idle" => local'[r] = l)
          /\ (AfterRequired(l) = "idle" => ~Busy(r)')
      BY <3>1, <3>2, Goes
    <3>4. pr.status = "APPROVED" => ApprovedCount >= pr.required
      BY <2>2, <2>4 DEF Recomputed
    <3>5. RowsFine(pc[r])'
      BY <1>1, <1>2, <1>3, <2>1, <3>3, <3>4 DEF RowsFine, Exists
    <3>6. AfterRequired(l) # "idle" => Knows(pc[r], local[r])'
      BY <1>1, <1>2, <2>1, <2>3, <3>2, <3>3 DEF Knows
    <3> QED
      BY <3>3, <3>5, <3>6 DEF Fine
  <2>5. CASE s # pr.status
    <3>1. Goto(r, "flipAudit", u)
      BY <1>7, <2>3, <2>5 DEF Count
    <3>2. pc'[r] = "flipAudit" /\ local'[r] = u /\ interrupted' = interrupted
      BY <3>1, Goes
    <3>3. u.cur = l.cur /\ u.patch = l.patch /\ u.to = s
      BY <1>2 DEF Handlers
    <3> HIDE DEF u
    <3>4. RowsFine(pc[r])'
      BY <1>1, <1>2, <1>3, <2>1, <3>2 DEF RowsFine, Exists
    <3>5. local'[r].to = Recomputed(pr)' /\ local'[r].to # pr'.status
      BY <1>1, <1>4, <2>2, <2>5, <3>2, <3>3
    <3>6. Knows(pc[r], local[r])'
      BY <1>1, <1>2, <2>1, <2>3, <3>2, <3>3, <3>5 DEF Knows
    <3> QED
      BY <3>4, <3>6 DEF Fine
  <2> QED
    BY <2>4, <2>5
<1> QED
  BY <1>5, <1>6, <1>7
  DEF CreateAudit, FlipAudit, StatusAudit, ReviewAudit, DeleteAudit

(* The writes of updatePR to content and versions.                         *)
LEMMA AloneEdits ==
    ASSUME TypeInv, AloneInv, ~contended', NEW r \in Requests,
           DraftEdit(r) \/ AddVersion(r) \/ Edit(r) \/ Baseline(r)
    PROVE  Fine(r)'
<1> DEFINE l == local[r]
<1> USE DEF Labels, AuditLabels, UpdateLabels
<1>1. Busy(r) /\ ~contended /\ latest' = latest /\ Exists
  BY DEF DraftEdit, AddVersion, Edit, Baseline, Goto, Busy
<1>2. /\ l \in Handlers /\ Carries(pc[r], l) /\ Knows(pc[r], l) /\ RowsFine(pc[r])
      /\ pr \in PRRows
  BY <1>1, InHand
<1>3. ApprovedCount' = ApprovedCount
  BY <1>1 DEF ApprovedCount
<1>4. versions \in Seq([number : Nat \ {0}, content : Contents])
  BY DEF TypeInv, TypeOK
<1>5. CASE DraftEdit(r) \/ Edit(r)
  <2> DEFINE u == Updated(l, pr')
  <2>1. pc[r] \in {"draftEdit", "edit"} /\ versions' = versions /\ Goto(r, AfterContent(l), u)
    BY <1>5 DEF DraftEdit, Edit
  <2>2. l.patch.content \in Contents
    BY <1>2, <2>1, PatchTyped DEF Carries
  <2>3. pr' = [pr EXCEPT !.content = l.patch.content] /\ pr' \in PRRows
    BY <1>5, <2>2, RowTyped DEF DraftEdit, Edit
  <2>4. pr'.content = l.patch.content /\ pr'.status = pr.status /\ pr'.required = pr.required
    BY <1>2, <2>3 DEF PRRows
  <2>5. u.cur = pr' /\ u.patch = l.patch
    BY <1>2, <2>3, UpdatedTyped
  <2>6. AfterContent(l) \in {"idle", "statusAudit", "required"}
    BY DEF AfterContent, AfterRequired
  <2> HIDE DEF u
  <2>7. pc'[r] = AfterContent(l) /\ interrupted' = interrupted
        /\ (AfterContent(l) # "idle" => local'[r] = u)
        /\ (AfterContent(l) = "idle" => ~Busy(r)')
    BY <2>1, <2>6, Goes
  <2>8. RowsFine(pc[r])'
    BY <1>1, <1>2, <1>3, <2>1, <2>4, <2>6, <2>7 DEF RowsFine, Knows, Exists, UnderReview
  <2>9. AfterContent(l) # "idle" => Knows(pc[r], local[r])'
    BY <1>1, <1>2, <2>1, <2>4, <2>5, <2>6, <2>7 DEF Knows, Exists
  <2> QED
    BY <2>7, <2>8, <2>9 DEF Fine
<1>6. CASE AddVersion(r)
  <2> DEFINE v == [number |-> l.number, content |-> l.patch.content]
             u == [l EXCEPT !.wrote = TRUE]
  <2>1. pc[r] = "addVersion" /\ Goto(r, "edit", u) /\ pr' = pr /\ versions' = Append(versions, v)
    BY <1>6 DEF AddVersion
  <2>2. u.cur = l.cur /\ u.patch = l.patch
    BY <1>2 DEF Handlers
  <2>3. l.number = Len(versions) + 1 /\ UnderReview(pr.status)
    BY <1>2, <2>1 DEF Knows
  <2>4. pc'[r] = "edit" /\ local'[r] = u /\ interrupted' = interrupted
    BY <2>1, Goes
  <2>5. v \in [number : Nat \ {0}, content : Contents]
    BY <1>2, <1>4, <2>1, <2>3, PatchTyped DEF Carries
  <2>6. /\ versions' # <<>> /\ Len(versions') = Len(versions) + 1
        /\ versions'[Len(versions')] = v
        /\ \A i \in DOMAIN versions' :
              \/ i \in DOMAIN versions /\ versions'[i] = versions[i]
              \/ i = Len(versions) + 1 /\ versions'[i] = v
    <3> HIDE DEF v
    <3> QED
      BY <1>4, <2>1, <2>5
  <2> HIDE DEF u
  <2>7. \A i \in DOMAIN versions' : versions'[i].number = i
    BY <1>2, <2>3, <2>6 DEF RowsFine
  <2>8. RowsFine(pc[r])'
    BY <1>1, <1>2, <1>3, <2>1, <2>3, <2>4, <2>7 DEF RowsFine, Exists, UnderReview
  <2>9. Knows(pc[r], local[r])'
    BY <1>1, <1>2, <2>1, <2>2, <2>4, <2>6 DEF Knows, Exists
  <2> QED
    BY <2>8, <2>9 DEF Fine
<1>7. CASE Baseline(r)
  <2> DEFINE v == [number |-> 1, content |-> l.cur.content]
  <2>1. pc[r] = "baseline" /\ Goto(r, "idle", l) /\ pr' = pr /\ versions' = Append(versions, v)
    BY <1>7 DEF Baseline
  <2>2. versions = <<>> /\ l.cur = pr /\ pr.status = "IN_REVIEW"
    BY <1>2, <2>1 DEF Knows
  <2>3. versions' = <<v>>
    BY <2>1, <2>2
  <2>4. pc'[r] = "idle" /\ interrupted' = interrupted /\ ~Busy(r)'
    BY <2>1, Goes
  <2>5. DOMAIN versions' = {1} /\ Len(versions') = 1 /\ versions'[1] = v /\ versions' # <<>>
    BY <2>3
  <2>6. RowsFine(pc[r])'
    BY <1>1, <1>2, <1>3, <2>1, <2>2, <2>4, <2>5 DEF RowsFine, Exists
  <2> QED
    BY <2>4, <2>6 DEF Fine
<1> QED
  BY <1>5, <1>6, <1>7

(* The writes of updatePR to requiredApprovals and status.                 *)
LEMMA AloneApprovals ==
    ASSUME TypeInv, AloneInv, ~contended', NEW r \in Requests,
           Required(r) \/ Flip(r) \/ Status(r)
    PROVE  Fine(r)'
<1> DEFINE l == local[r]
<1> USE DEF Labels, AuditLabels, UpdateLabels
<1>1. Busy(r) /\ ~contended /\ latest' = latest /\ Exists /\ versions' = versions
  BY DEF Required, Flip, Status, Goto, Busy
<1>2. /\ l \in Handlers /\ Carries(pc[r], l) /\ Knows(pc[r], l) /\ RowsFine(pc[r])
      /\ pr \in PRRows
  BY <1>1, InHand
<1>3. ApprovedCount' = ApprovedCount
  BY <1>1 DEF ApprovedCount
<1>4. AfterRequired(l) \in {"idle", "statusAudit"}
      /\ (AfterRequired(l) = "statusAudit" => l.patch.status # Keep)
  BY DEF AfterRequired
<1>5. CASE Required(r)
  <2> DEFINE u == Updated(l, pr')
             next == IF UnderReview(pr.status) THEN "count" ELSE AfterRequired(l)
  <2>1. pc[r] = "required" /\ Goto(r, next, u)
    BY <1>5 DEF Required
  <2>2. l.patch.required \in 1..MaxRequired
    BY <1>2, <2>1, PatchTyped DEF Carries
  <2>3. pr' = [pr EXCEPT !.required = l.patch.required] /\ pr' \in PRRows
    BY <1>5, <2>2, RowTyped DEF Required
  <2>4. pr'.status = pr.status /\ pr'.content = pr.content
    BY <1>2, <2>3 DEF PRRows
  <2>5. u.cur = pr' /\ u.patch = l.patch
    BY <1>2, <2>3, UpdatedTyped
  <2>6. next \in {"idle", "statusAudit", "count"} /\ (next = "count" <=> UnderReview(pr.status))
    BY <1>4
  <2> HIDE DEF u, next
  <2>7. pc'[r] = next /\ interrupted' = interrupted
        /\ (next # "idle" => local'[r] = u) /\ (next = "idle" => ~Busy(r)')
    BY <2>1, <2>6, Goes
  <2>8. RowsFine(pc[r])'
    BY <1>1, <1>2, <1>3, <2>1, <2>4, <2>6, <2>7 DEF RowsFine, Exists, UnderReview
  <2>9. next # "idle" => Knows(pc[r], local[r])'
    BY <1>1, <1>2, <2>1, <2>4, <2>5, <2>6, <2>7 DEF Knows, Exists
  <2> QED
    BY <2>7, <2>8, <2>9 DEF Fine
<1>6. CASE Flip(r)
  <2> DEFINE m == [l EXCEPT !.to = l.patch.status]
             u == Updated(m, pr')
  <2>1. pc[r] = "flip" /\ Goto(r, AfterRequired(l), u) /\ pr' = [pr EXCEPT !.status = l.to]
    BY <1>6 DEF Flip
  <2>2. l.to = Recomputed(pr) /\ UnderReview(pr.status)
    BY <1>2, <2>1 DEF Knows
  <2>3. pr'.status = l.to /\ pr'.content = pr.content /\ pr'.required = pr.required
    BY <1>2, <2>1 DEF PRRows
  <2>4. l.to \in {"IN_REVIEW", "APPROVED"} /\ (l.to = "APPROVED" => ApprovedCount >= pr.required)
    BY <2>2 DEF Recomputed
  <2>5. pc'[r] = AfterRequired(l) /\ interrupted' = interrupted
        /\ (AfterRequired(l) # "idle" => local'[r] = u)
        /\ (AfterRequired(l) = "idle" => ~Busy(r)')
    <3> HIDE DEF u
    <3> QED
      BY <1>4, <2>1, Goes
  <2>6. u.cur = pr' /\ u.patch = l.patch
    BY <1>2 DEF Updated, Handlers
  <2> HIDE DEF u
  <2>7. AfterRequired(l) # "idle" => l.patch.status \in {"REJECTED", "MERGED"}
    BY <1>2, <1>4, <2>1, <2>2 DEF Carries, Knows, UnderReview
  <2>8. RowsFine(pc[r])'
    BY <1>1, <1>2, <1>3, <1>4, <2>1, <2>2, <2>3, <2>4, <2>5 DEF RowsFine, Exists, UnderReview
  <2>9. AfterRequired(l) # "idle" => Knows(pc[r], local[r])'
    BY <1>2, <1>4, <2>3, <2>4, <2>5, <2>6, <2>7 DEF Knows, UnderReview
  <2> QED
    BY <2>5, <2>8, <2>9 DEF Fine
<1>7. CASE Status(r)
  <2> DEFINE u == Updated(l, pr')
             next == IF l.to = "IN_REVIEW" /\ l.cur.status = "DRAFT" THEN "baseline" ELSE "idle"
  <2>1. pc[r] = "status" /\ Goto(r, next, u) /\ pr' = [pr EXCEPT !.status = l.to]
    BY <1>7 DEF Status
  <2>2. pr'.status = l.to /\ pr'.content = pr.content /\ pr'.required = pr.required
    BY <1>2, <2>1 DEF PRRows
  <2>3. u.cur = pr' /\ u.patch = l.patch
    BY <1>2 DEF Updated, Handlers
  <2>4. l.to \in {"IN_REVIEW", "REJECTED", "MERGED"} /\ l.to = l.patch.status
    BY <1>2, <2>1 DEF Carries
  <2>5. /\ next = "baseline" => pr.status = "DRAFT" /\ l.to = "IN_REVIEW"
        /\ next = "idle" => UnderReview(pr.status) /\ l.to \in {"REJECTED", "MERGED"}
        /\ next \in {"baseline", "idle"}
    BY <1>2, <2>1, <2>4 DEF Knows
  <2> HIDE DEF u, next
  <2>6. pc'[r] = next /\ interrupted' = interrupted
        /\ (next # "idle" => local'[r] = u) /\ (next = "idle" => ~Busy(r)')
    BY <2>1, <2>5, Goes
  <2>7. RowsFine(pc[r])'
    BY <1>1, <1>2, <1>3, <2>1, <2>2, <2>4, <2>5, <2>6 DEF RowsFine, Exists, UnderReview
  <2>8. next # "idle" => Knows(pc[r], local[r])'
    BY <1>1, <1>2, <2>2, <2>3, <2>5, <2>6 DEF Knows, RowsFine
  <2> QED
    BY <2>6, <2>7, <2>8 DEF Fine
<1> QED
  BY <1>5, <1>6, <1>7

(* The other handlers' writes.                                             *)
LEMMA AloneOthers ==
    ASSUME TypeInv, CreatedOnce, AloneInv, ~contended', NEW r \in Requests,
           Create(r) \/ Review(r) \/ ForceInReview(r) \/ Assign(r) \/ Delete(r)
    PROVE  Fine(r)'
<1> DEFINE l == local[r]
<1> USE DEF Labels, AuditLabels, UpdateLabels
<1>1. Busy(r) /\ ~contended
  BY DEF Create, Review, ForceInReview, Assign, Delete, Goto, Busy
<1>2. /\ l \in Handlers /\ Carries(pc[r], l) /\ Knows(pc[r], l) /\ RowsFine(pc[r])
      /\ pr \in PRRows
  BY <1>1, InHand
<1>3. \A s : /\ [pr EXCEPT !.status = s].status = s
             /\ [pr EXCEPT !.status = s].content = pr.content
             /\ [pr EXCEPT !.status = s].required = pr.required
  BY <1>2 DEF PRRows
<1>4. Goto(r, "idle", l) => pc'[r] = "idle" /\ interrupted' = interrupted /\ ~Busy(r)'
  BY Goes
<1>5. latest' = latest => ApprovedCount' = ApprovedCount
  BY DEF ApprovedCount
<1>6. CASE Create(r)
  <2>1. pr.status = "NONE"
    BY <1>6 DEF Create, CreatedOnce, CreateLabels
  <2>2. pr'.status = "DRAFT" /\ versions' = <<>> /\ pc'[r] = "idle" /\ ~Busy(r)'
    BY <1>2, <1>3, <1>4, <1>6, <2>1 DEF Create, RowsFine
  <2> QED
    BY <2>2 DEF Fine, RowsFine, Exists
<1>7. CASE Review(r)
  <2> DEFINE u == [l EXCEPT !.wrote = TRUE]
             next == IF l.verdict = "APPROVED" THEN "count"
                     ELSE IF l.cur.status = "IN_REVIEW" THEN "idle" ELSE "force"
  <2>1. pc[r] = "review" /\ pr' = pr /\ versions' = versions /\ Goto(r, next, u)
    BY <1>7 DEF Review
  <2>2. u.cur = pr' /\ u.patch = NoPatch /\ UnderReview(pr.status) /\ l.cur = pr
    BY <1>2, <2>1 DEF Handlers, Knows, Carries
  <2>3. /\ next = "idle" => pr.status = "IN_REVIEW"
        /\ next = "force" => pr.status = "APPROVED"
        /\ next \in {"count", "idle", "force"}
    BY <2>2 DEF UnderReview
  <2> HIDE DEF u, next
  <2>4. pc'[r] = next /\ interrupted' = interrupted
        /\ (next # "idle" => local'[r] = u) /\ (next = "idle" => ~Busy(r)')
    BY <2>1, <2>3, Goes
  <2>5. RowsFine(pc[r])'
    BY <1>2, <2>1, <2>3, <2>4 DEF RowsFine, Exists
  <2>6. next # "idle" => Knows(pc[r], local[r])'
    BY <2>1, <2>2, <2>3, <2>4, PRAssumption DEF Knows, NoPatch, Statuses
  <2> QED
    BY <2>4, <2>5, <2>6 DEF Fine
<1>8. CASE ForceInReview(r)
  <2>1. pr.status = "APPROVED" /\ pc[r] = "force"
    BY <1>2, <1>8 DEF ForceInReview, Knows
  <2>2. /\ pr'.status = "IN_REVIEW" /\ pr'.content = pr.content /\ versions' = versions
        /\ pc'[r] = "idle" /\ interrupted' = interrupted /\ ~Busy(r)'
    BY <1>3, <1>4, <1>8 DEF ForceInReview
  <2> QED
    BY <1>2, <2>1, <2>2 DEF Fine, RowsFine, Exists
<1>9. CASE Assign(r)
  <2>1. /\ pc[r] = "assign" /\ pr' = pr /\ versions' = versions /\ latest' = latest
        /\ pc'[r] = "idle" /\ interrupted' = interrupted /\ ~Busy(r)'
    BY <1>4, <1>9 DEF Assign
  <2> QED
    BY <1>2, <1>5, <2>1 DEF Fine, RowsFine, Exists
<1>10. CASE Delete(r)
  <2>1. pr'.status = "DELETED" /\ versions' = <<>> /\ pc'[r] = "idle" /\ ~Busy(r)'
    BY <1>3, <1>4, <1>10 DEF Delete
  <2> QED
    BY <2>1 DEF Fine, RowsFine, Exists
<1> QED
  BY <1>6, <1>7, <1>8, <1>9, <1>10

(* AloneInv is inductive,                                                  *)
LEMMA AloneInductive == TypeInv /\ CreatedOnce /\ AloneInv /\ [Next]_vars => AloneInv'
<1> SUFFICES ASSUME TypeInv, CreatedOnce, AloneInv, [Next]_vars PROVE AloneInv'
  OBVIOUS
<1>1. ASSUME NEW r \in Requests, Begin(r) \/ Advance(r) \/ AuditFails(r) \/ Crash(r)
      PROVE  AloneInv'
  <2>1. ASSUME ~contended' PROVE Fine(r)'
    <3>1. CASE Advance(r)
      BY <2>1, <3>1, AloneReads, AloneEdits, AloneApprovals, AloneOthers DEF Advance
    <3> QED
      BY <1>1, <2>1, <3>1, AloneBegins, AloneStops
  <2> QED
    BY <1>1, <2>1, AloneMoves
<1>2. CASE UNCHANGED vars
  <2>1. ApprovedCount' = ApprovedCount /\ Recomputed(pr)' = Recomputed(pr)
    BY <1>2 DEF vars, ApprovedCount, Recomputed
  <2>2. \A label : RowsFine(label) <=> RowsFine(label)'
    BY <1>2, <2>1 DEF vars, RowsFine, Exists
  <2>3. \A r \in Requests : Knows(pc[r], local[r]) <=> Knows(pc[r], local[r])'
    BY <1>2, <2>1 DEF vars, Knows, Exists
  <2>4. \A r \in Requests : Fine(r) <=> Fine(r)'
    BY <1>2, <2>3, <2>1 DEF vars, Fine, Busy, RowsFine, Exists
  <2> QED
    BY <1>2, <2>1, <2>4 DEF vars, AloneInv, OneByOne, Idle, Busy, RowsFine, Exists
<1> QED
  BY <1>1, <1>2 DEF Next

(* and holds of every reachable state.                                     *)
LEMMA AloneInvHolds == Spec => [](TypeInv /\ RowsInv /\ AloneInv)
<1>1. ASSUME Init PROVE AloneInv
  BY <1>1 DEF Init, AloneInv, OneByOne, Busy, RowsFine, Exists
<1>2. RowsInv => CreatedOnce
  BY DEF RowsInv
<1> QED
  BY <1>1, <1>2, AloneInductive, RowsInvHolds, PTL DEF Spec

(* Once no handler is running, what the rows are up to a repair they are.  *)
LEMMA AtRest ==
    ASSUME AloneInv, ~contended
    PROVE  /\ \A i \in DOMAIN versions : versions[i].number = i
           /\ Idle => RowsFine("idle")
<1>1. Idle \/ \E r \in Requests : Busy(r) /\ RowsFine(pc[r])
  BY DEF AloneInv, Idle, Fine
<1> QED
  BY <1>1 DEF AloneInv, RowsFine

(* One request at a time, with any patches, reviews and requirements: an   *)
(* APPROVED pull request at rest has the approvals it requires, because    *)
(* the only handler is at a label from which it recounts whenever the      *)
(* status may be wrong (RowsFine), or has been cut short.                  *)
THEOREM ApprovalsSuffice == Spec => []ApprovedHasEnough
<1>1. AloneInv => ApprovedHasEnough
  BY AtRest DEF ApprovedHasEnough, RowsFine
<1> QED
  BY <1>1, AloneInvHolds, PTL

(* One request at a time: the versions are numbered in order and, from the *)
(* submission for review on, the last one is what is under review.         *)
THEOREM VersionsAreTheContent == Spec => []VersionsTellTheContent
<1>1. AloneInv => VersionsTellTheContent
  BY AtRest DEF VersionsTellTheContent, RowsFine
<1> QED
  BY <1>1, AloneInvHolds, PTL

-----------------------------------------------------------------------------
(* The lifecycle.                                                          *)

(* What the only handler knows of the merge it has been asked for, when no *)
(* body also changes requiredApprovals.                                    *)
KnowsMerge(label, l) ==
    /\ l.patch.status = "MERGED" => l.patch.required = Keep
    /\ label \in {"required", "count", "flipAudit", "flip"}
          => l.patch.required # Keep \/ l.patch.status = Keep
    /\ label \in UpdateLabels /\ l.patch.status = "MERGED" => pr.status = "APPROVED"

MergeInv == ~contended => \A r \in Requests : Busy(r) => KnowsMerge(pc[r], local[r])

(* A handler keeps its body.                                               *)
LEMMA PatchKept ==
    ASSUME TypeInv, NEW r \in Requests, Advance(r), Busy(r)'
    PROVE  local'[r].patch = local[r].patch
<1> DEFINE l == local[r]
<1>1. Busy(r)
  BY DEF Advance, CreateAudit, FlipAudit, StatusAudit, ReviewAudit, DeleteAudit, LogThen,
         Create, DraftEdit, LastVersion, AddVersion, Edit, Required, Count, Flip, Status,
         Baseline, Review, ForceInReview, Assign, Delete, Busy
<1>2. l \in Handlers
  BY <1>1 DEF TypeInv, TypeOK
<1>3. ASSUME NEW label, NEW u, Goto(r, label, u) PROVE local'[r] = u
  BY <1>3 DEF Goto, TypeInv, TypeOK, Busy
<1>4. /\ \A s : [l EXCEPT !.logged = s].patch = l.patch
      /\ \A s : [l EXCEPT !.number = s].patch = l.patch
      /\ \A s : [l EXCEPT !.to = s].patch = l.patch
      /\ [l EXCEPT !.wrote = TRUE].patch = l.patch
      /\ \A row : Updated(l, row).patch = l.patch
      /\ \A row, s : Updated([l EXCEPT !.to = s], row).patch = l.patch
  BY <1>2 DEF Handlers, Updated
<1>5. CASE CreateAudit(r) \/ FlipAudit(r) \/ StatusAudit(r) \/ ReviewAudit(r) \/ DeleteAudit(r)
  BY <1>3, <1>4, <1>5 DEF CreateAudit, FlipAudit, StatusAudit, ReviewAudit, DeleteAudit, LogThen
<1>6. CASE Create(r) \/ Baseline(r) \/ ForceInReview(r) \/ Assign(r) \/ Delete(r)
  BY <1>3, <1>6 DEF Create, Baseline, ForceInReview, Assign, Delete
<1>7. CASE DraftEdit(r) \/ Edit(r) \/ Required(r) \/ Status(r)
  BY <1>3, <1>4, <1>7 DEF DraftEdit, Edit, Required, Status
<1>8. CASE LastVersion(r) \/ AddVersion(r) \/ Review(r)
  BY <1>3, <1>4, <1>8 DEF LastVersion, AddVersion, Review
<1>9. CASE Count(r)
  BY <1>3, <1>4, <1>9 DEF Count
<1>10. CASE Flip(r)
  BY <1>3, <1>4, <1>10 DEF Flip
<1> QED
  BY <1>5, <1>6, <1>7, <1>8, <1>9, <1>10 DEF Advance

(* Where an updatePR comes from.                                           *)
LEMMA LabelsFollow ==
    ASSUME TypeInv, TypeInv', NEW r \in Requests, Advance(r)
    PROVE  /\ pc'[r] \in UpdateLabels =>
                 \/ pc[r] \in UpdateLabels /\ pr'.status = pr.status
                 \/ pc[r] = "flip" /\ local[r].patch.status # Keep
                 \/ pc[r] = "review"
           /\ pc'[r] \in {"count", "flipAudit", "flip"} =>
                 pc[r] \in {"required", "count", "flipAudit", "review"}
<1>1. pc \in [Requests -> Labels] /\ pr \in PRRows
  BY DEF TypeInv, TypeOK
<1> USE DEF UpdateLabels
<1>2. CASE CreateAudit(r) \/ FlipAudit(r) \/ StatusAudit(r) \/ ReviewAudit(r) \/ DeleteAudit(r)
  BY <1>1, <1>2
  DEF CreateAudit, FlipAudit, StatusAudit, ReviewAudit, DeleteAudit, LogThen, Goto, db
<1>3. CASE Create(r) \/ Baseline(r) \/ ForceInReview(r) \/ Assign(r) \/ Delete(r)
  BY <1>1, <1>3 DEF Create, Baseline, ForceInReview, Assign, Delete, Goto
<1>4. CASE DraftEdit(r) \/ Edit(r) \/ Required(r)
  <2>1. pr'.status = pr.status
    BY <1>1, <1>4 DEF DraftEdit, Edit, Required, PRRows
  <2> QED
    BY <1>1, <1>4, <2>1 DEF DraftEdit, Edit, Required, Goto, AfterContent, AfterRequired
<1>5. CASE LastVersion(r) \/ AddVersion(r) \/ Review(r) \/ Count(r)
  BY <1>1, <1>5 DEF LastVersion, AddVersion, Review, Count, Goto, AfterRequired, db
<1>6. CASE Flip(r) \/ Status(r)
  BY <1>1, <1>6 DEF Flip, Status, Goto, AfterRequired
<1> QED
  BY <1>2, <1>3, <1>4, <1>5, <1>6 DEF Advance

(* MergeInv is inductive, when no patch merges and changes                 *)
(* requiredApprovals.                                                      *)
LEMMA MergeInductive ==
    ASSUME \A p \in Patches : MergesAlone(p),
           TypeInv, TypeInv', AloneInv, MergeInv, [Next]_vars
    PROVE  MergeInv'
<1> SUFFICES ASSUME ~contended' PROVE MergeInv'
  BY DEF MergeInv
<1> USE DEF Labels, AuditLabels, UpdateLabels
<1>1. CASE UNCHANGED vars
  BY <1>1 DEF vars, MergeInv, KnowsMerge, Busy
<1>2. ASSUME NEW r \in Requests, Begin(r) \/ Advance(r) \/ AuditFails(r) \/ Crash(r)
      PROVE  MergeInv'
  <2>1. ~contended /\ \A q \in Requests \ {r} : ~Busy(q)'
    BY <1>2, OthersIdle
  <2> SUFFICES ASSUME Busy(r)' PROVE KnowsMerge(pc[r], local[r])'
    BY <2>1 DEF MergeInv
  <2>2. Carries(pc[r], local[r])'
    BY DEF TypeInv, HandlersCarry
  <2>3. CASE Begin(r)
    <3>1. \A label, l : Start(r, label, l) => pc'[r] = label /\ local'[r] = l /\ pr' = pr
      BY DEF Start, TypeInv, TypeOK, db
    <3>2. ASSUME NEW a \in Admins, NEW p \in Patches, updatePR(r, a, p)
          PROVE  KnowsMerge(pc[r], local[r])'
      <4> DEFINE l == Begun(a, p, "NONE", IF p.status = Keep THEN "NONE" ELSE p.status)
                 first == IF p.content = Keep THEN AfterContent(l)
                          ELSE IF pr.status = "DRAFT" THEN "draftEdit" ELSE "lastVersion"
      <4>1. first \in {"draftEdit", "lastVersion", "required", "statusAudit"}
        BY <3>2, UpdateStarts DEF updatePR, Users
      <4>2. Start(r, first, l)
        BY <3>2 DEF updatePR
      <4>3. l.patch = p
        BY DEF Begun
      <4>4. p.status = "MERGED" => p.required = Keep /\ pr.status = "APPROVED"
        BY <3>2, PRAssumption DEF MergesAlone, updatePR, ALLOWED_TRANSITIONS, Statuses
      <4> HIDE DEF l, first
      <4>5. pc'[r] = first /\ local'[r].patch = p /\ pr' = pr
        BY <3>1, <4>2, <4>3
      <4> QED
        BY <2>2, <4>1, <4>4, <4>5 DEF KnowsMerge, Carries
    <3>3. CASE \E who, v, to, label : Start(r, label, Begun(who, NoPatch, v, to))
      <4>1. local'[r].patch = NoPatch
        BY <3>1, <3>3 DEF Begun
      <4> QED
        BY <4>1, PRAssumption DEF KnowsMerge, NoPatch, Statuses
    <3> QED
      BY <2>3, <3>2, <3>3 DEF Begin, BeginCreate, deletePR, submitReview, addReviewer
  <2>4. CASE Advance(r)
    <3>1. Busy(r) /\ KnowsMerge(pc[r], local[r]) /\ Carries(pc[r], local[r])
      BY <1>2, <2>1, <2>4, OthersIdle, OneMoves
      DEF MergeInv, TypeInv, HandlersCarry, Busy, Advance, CreateAudit, FlipAudit, StatusAudit,
          ReviewAudit, DeleteAudit, LogThen, Create, DraftEdit, LastVersion, AddVersion, Edit,
          Required, Count, Flip, Status, Baseline, Review, ForceInReview, Assign, Delete
    <3>2. local'[r].patch = local[r].patch
      BY <2>4, PatchKept
    <3>3. pc[r] = "review" => local[r].patch.status = Keep /\ Keep # "MERGED"
      BY <3>1, PRAssumption DEF Carries, NoPatch, Statuses
    <3>4. /\ local'[r].patch.status = "MERGED" => local'[r].patch.required = Keep
          /\ pc'[r] \in {"required", "count", "flipAudit", "flip"}
                => local'[r].patch.required # Keep \/ local'[r].patch.status = Keep
      BY <2>2, <2>4, <3>1, <3>2, <3>3, LabelsFollow DEF KnowsMerge, Carries
    <3>5. pc'[r] \in UpdateLabels /\ local'[r].patch.status = "MERGED" => pr'.status = "APPROVED"
      BY <2>4, <3>1, <3>2, <3>3, LabelsFollow DEF KnowsMerge
    <3> QED
      BY <3>4, <3>5 DEF KnowsMerge
  <2>5. CASE AuditFails(r) \/ Crash(r)
    BY <2>5 DEF AuditFails, Crash, Stop, Busy, TypeInv, TypeOK
  <2> QED
    BY <1>2, <2>3, <2>4, <2>5
<1> QED
  BY <1>1, <1>2 DEF Next

(* A step of the only handler moves the status along the lifecycle.        *)
LEMMA MovesAlong ==
    ASSUME TypeInv, CreatedOnce, AloneInv, ~contended, MergeInv,
           NEW r \in Requests, Create(r) \/ Flip(r) \/ Status(r) \/ ForceInReview(r) \/ Delete(r)
    PROVE  <<pr.status, pr'.status>> \in Lifecycle!Moves
<1> DEFINE l == local[r]
<1>1. Busy(r)
  BY DEF Create, Flip, Status, ForceInReview, Delete, Busy
<1>2. /\ l \in Handlers /\ Carries(pc[r], l) /\ Knows(pc[r], l) /\ RowsFine(pc[r])
      /\ pr \in PRRows
  BY <1>1, InHand
<1>3. KnowsMerge(pc[r], l)
  BY <1>1 DEF MergeInv
<1>4. \A s : [pr EXCEPT !.status = s].status = s
  BY <1>2 DEF PRRows
<1> USE DEF Lifecycle!Moves
<1>5. CASE Create(r)
  <2>1. pr.status = "NONE"
    BY <1>5 DEF Create, CreatedOnce, CreateLabels
  <2> QED
    BY <1>4, <1>5, <2>1 DEF Create
<1>6. CASE Flip(r)
  <2>1. l.to \in {"IN_REVIEW", "APPROVED"} /\ l.to # pr.status /\ UnderReview(pr.status)
    BY <1>2, <1>6 DEF Flip, Knows, Carries
  <2> QED
    BY <1>4, <1>6, <2>1 DEF Flip, UnderReview
<1>7. CASE Status(r)
  <2>1. /\ l.to = l.patch.status /\ l.to \in {"IN_REVIEW", "REJECTED", "MERGED"}
        /\ l.to = "IN_REVIEW" => pr.status = "DRAFT"
        /\ l.to = "REJECTED" => UnderReview(pr.status)
        /\ l.to = "MERGED" => pr.status = "APPROVED"
    BY <1>2, <1>3, <1>7 DEF Status, Knows, KnowsMerge, Carries, UpdateLabels
  <2> QED
    BY <1>4, <1>7, <2>1 DEF Status, UnderReview
<1>8. CASE ForceInReview(r)
  <2>1. pr.status = "APPROVED"
    BY <1>2, <1>8 DEF ForceInReview, Knows
  <2> QED
    BY <1>4, <1>8, <2>1 DEF ForceInReview
<1>9. CASE Delete(r)
  <2>1. pr.status \in Statuses
    BY <1>2, <1>9 DEF Delete, Exists, PRRows
  <2> QED
    BY <1>4, <1>9, <2>1 DEF Delete, Statuses
<1> QED
  BY <1>5, <1>6, <1>7, <1>8, <1>9

(* Every step then is one of PRLifecycle, or leaves its variables alone.   *)
LEMMA LifecycleSteps ==
    ASSUME TypeInv, CreatedOnce, AloneInv, MergeInv, [Next]_vars
    PROVE  [Lifecycle!Next]_(Lifecycle!vars)
<1> USE DEF Lifecycle!Next, Lifecycle!vars, Lifecycle!Move, Lifecycle!Disturb
<1>1. CASE UNCHANGED vars
  BY <1>1 DEF vars
<1>2. CASE Next
  <2>1. contended' \in BOOLEAN /\ (contended => contended')
    <3>1. ASSUME NEW r \in Requests, Begin(r)
          PROVE  contended' \in BOOLEAN /\ (contended => contended')
      BY <3>1 DEF Begin, BeginCreate, deletePR, updatePR, submitReview, addReviewer, Start
    <3>2. ASSUME NEW r \in Requests, Advance(r) \/ AuditFails(r) \/ Crash(r)
          PROVE  contended' = contended
      BY <3>2
      DEF Advance, CreateAudit, FlipAudit, StatusAudit, ReviewAudit, DeleteAudit, LogThen,
          Create, DraftEdit, LastVersion, AddVersion, Edit, Required, Count, Flip, Status,
          Baseline, Review, ForceInReview, Assign, Delete, Goto, AuditFails, Crash, Stop
    <3> QED
      BY <1>2, <3>1, <3>2 DEF Next, TypeInv, TypeOK
  <2>2. CASE contended'
    BY <2>1, <2>2
  <2>3. CASE ~contended' /\ pr'.status = pr.status
    BY <2>1, <2>3 DEF TypeInv, TypeOK
  <2>4. CASE ~contended' /\ pr'.status # pr.status
    BY <1>2, <2>1, <2>4, StatusOnlyByWrites, MovesAlong DEF TypeInv, TypeOK
  <2> QED
    BY <2>1, <2>2, <2>3, <2>4
<1> QED
  BY <1>1, <1>2

(* One request at a time, and no body that merges and changes              *)
(* requiredApprovals in one: every step of the workflow is a step of the   *)
(* promised lifecycle or leaves the status alone.  With such a body it is  *)
(* false (MergedFromApproved).                                             *)
THEOREM LifecycleImplemented ==
    ASSUME \A p \in Patches : MergesAlone(p)
    PROVE  Spec => FollowsLifecycle
<1>1. Init => Lifecycle!Init /\ MergeInv
  BY DEF Init, Lifecycle!Init, MergeInv, Busy
<1>2. TypeInv /\ TypeInv' /\ AloneInv /\ MergeInv /\ [Next]_vars => MergeInv'
  BY MergeInductive
<1>3. TypeInv /\ CreatedOnce /\ AloneInv /\ MergeInv /\ [Next]_vars
         => [Lifecycle!Next]_(Lifecycle!vars)
  BY LifecycleSteps
<1>4. RowsInv => CreatedOnce
  BY DEF RowsInv
<1> QED
  BY <1>1, <1>2, <1>3, <1>4, AloneInvHolds, PTL DEF Spec, FollowsLifecycle, Lifecycle!Spec
=============================================================================
