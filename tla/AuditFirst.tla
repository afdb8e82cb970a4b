----------------------------- MODULE AuditFirst -----------------------------
(***************************************************************************)
(* What every mutating handler promises about the audit trail              *)
(* (packages/shared/auditClient.js): the audit event is recorded before    *)
(* the change it describes, and no change is made whose event was not      *)
(* recorded.  The converse is not promised: an event may be recorded whose *)
(* change never happens (a timeout of the audit call, a crash or a failed  *)
(* write after it).  Events are recorded once and never removed, which     *)
(* append-only.sql enforces with database grants.                          *)
(***************************************************************************)
CONSTANT Events

VARIABLES logged,   \* the events in the AuditLog table
          applied   \* the events whose change has been written

vars == <<logged, applied>>

Init == logged = {} /\ applied = {}

Log(e) == /\ logged' = logged \cup {e}
          /\ UNCHANGED applied

Apply(e) == /\ e \in logged
            /\ applied' = applied \cup {e}
            /\ UNCHANGED logged

Next == \E e \in Events : Log(e) \/ Apply(e)

Spec == Init /\ [][Next]_vars
=============================================================================
