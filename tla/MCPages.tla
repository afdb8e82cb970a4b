------------------------------ MODULE MCPages ------------------------------
(* A small instance of Pages for TLC. *)
EXTENDS Pages, TLC

(* Refused for what it says, whatever happens: it changes nothing. *)
Refused(c) ==
    \/ c.do = "required" /\ c.choice = 0
    \/ c.do = "upload" /\ c.choice = "huge"
    \/ c.do \in {"create", "assign"} /\ ~assertValidAssignee(c.choice, c.by.org)

(* Nothing is claimed of a page once a request of it failed, an answer is  *)
(* out of order, or somebody else made it stale: such a page is not        *)
(* followed, unless it is about to load again and awaits no members (which *)
(* come independently).  Nor are two requests at once after it has loaded  *)
(* again, two writes under way at once, a write that its page has left     *)
(* behind besides a step of somebody else, which the page that is open     *)
(* cannot tell apart, or a refused request besides anything else.          *)
Followed ==
    /\ ~overtaken /\ ~failed
    /\ touched => /\ members.waits = {}
                  /\ \E n \in DOMAIN calls : ~calls[n].orphan /\ calls[n].answer = NoAnswer
    /\ touches > 0 /\ ~touched => Len(calls) <= 1
    /\ \A n \in DOMAIN calls : calls[n].late => calls[n].orphan
    /\ touches > 0 => \A n \in DOMAIN calls : ~calls[n].orphan
    /\ \A m, n \in DOMAIN calls : Write(calls[m]) /\ Write(calls[n]) => m = n
    /\ \A n \in DOMAIN calls : Refused(calls[n]) => Len(calls) = 1 /\ touches = 0

Symmetry == Permutations(Mine)
=============================================================================
