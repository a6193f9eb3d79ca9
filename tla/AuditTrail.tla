----------------------------- MODULE AuditTrail -----------------------------
(***************************************************************************)
(* What the audit log promises (docs/security/audit-integrity.md): one     *)
(* history per tenant and app that is only ever appended to, in which an   *)
(* event occurs once.                                                      *)
(***************************************************************************)
EXTENDS Sequences, Naturals

CONSTANTS Scopes, Ids, Bodies

VARIABLE log

Entry == [id : Ids, body : Bodies]

Init == log = [s \in Scopes |-> <<>>]

Recorded(id) == \E s \in Scopes : \E k \in 1..Len(log[s]) : log[s][k].id = id

Record(s, e) ==
  /\ ~Recorded(e.id)
  /\ log' = [log EXCEPT ![s] = Append(@, e)]

Next == \E s \in Scopes, e \in Entry : Record(s, e)

Spec == Init /\ [][Next]_log
=============================================================================
