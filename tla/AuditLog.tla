------------------------------ MODULE AuditLog ------------------------------
(***************************************************************************)
(* The hash-chained audit log (audit-log.ts and the triggers of migration  *)
(* 0011): writers append concurrently, each reading the head of its        *)
(* scope's chain, hashing its event onto it and inserting the event; the   *)
(* triggers compare and advance the head in the INSERT.  A writer that     *)
(* lost the race reads the head again, MaxAppendAttempts times in all.     *)
(***************************************************************************)
EXTENDS Naturals, Sequences, FiniteSets

CONSTANTS Appends,            \* invocations of append; a caller's retry is another one
          Scopes,             \* (tenant, app) pairs
          Ids,                \* event ids, chosen by the callers
          Bodies,             \* the rest of an event: action, actor, resource, payload, time
          MaxAppendAttempts,
          None

ASSUME AuditConstants ==
  /\ MaxAppendAttempts \in Nat \ {0}
  /\ None \notin [id : Ids, scope : Scopes, body : Bodies]

VARIABLES
  head,     \* audit_chain_heads; next is 0 while a scope has no row
  events,   \* audit_events
  event,    \* the event each invocation appends
  read,     \* the head each invocation read last
  attempt, pc, answer

vars == <<head, events, event, read, attempt, pc, answer>>

GENESIS_HASH == <<>>

(* SHA-256 of the canonical JSON, taken to be free of collisions: the      *)
(* digest is the evidence itself.                                          *)
hashAuditEvent(e) == <<e.id, e.scope, e.seq, e.body, e.prev>>

Event == [id : Ids, scope : Scopes, body : Bodies]
Phases == {"idle", "readHead", "insert", "done"}
Outcomes == {"appended", "conflict", "error"}

TypeOK ==
  /\ \A s \in Scopes : head[s].next \in Nat
  /\ \A r \in events : r.id \in Ids /\ r.scope \in Scopes /\ r.body \in Bodies /\ r.seq \in Nat \ {0}
  /\ event \in [Appends -> Event \cup {None}]
  /\ attempt \in [Appends -> 0..MaxAppendAttempts]
  /\ pc \in [Appends -> Phases]
  /\ \A a \in Appends : pc[a] \in {"readHead", "insert"} => event[a] # None /\ head[event[a].scope].next > 0
  /\ \A a \in Appends : answer[a] # None => answer[a].outcome \in Outcomes

Init ==
  /\ head = [s \in Scopes |-> [next |-> 0, last |-> GENESIS_HASH]]
  /\ events = {}
  /\ event = [a \in Appends |-> None]
  /\ read = [a \in Appends |-> None]
  /\ attempt = [a \in Appends |-> 0]
  /\ pc = [a \in Appends |-> "idle"]
  /\ answer = [a \in Appends |-> None]

-----------------------------------------------------------------------------
Finish(a, result) ==
  /\ answer' = [answer EXCEPT ![a] = result]
  /\ pc' = [pc EXCEPT ![a] = "done"]

(* INSERT OR IGNORE of the scope's head.                                   *)
BeginAppend(a, e) ==
  /\ pc[a] = "idle"
  /\ event' = [event EXCEPT ![a] = e]
  /\ head' = [head EXCEPT ![e.scope] = IF @.next = 0 THEN [next |-> 1, last |-> GENESIS_HASH] ELSE @]
  /\ attempt' = [attempt EXCEPT ![a] = 1]
  /\ pc' = [pc EXCEPT ![a] = "readHead"]
  /\ UNCHANGED <<events, read, answer>>

ReadHead(a) ==
  /\ pc[a] = "readHead"
  /\ read' = [read EXCEPT ![a] = head[event[a].scope]]
  /\ pc' = [pc EXCEPT ![a] = "insert"]
  /\ UNCHANGED <<head, events, event, attempt, answer>>

chainedEvent(a) ==
  LET e == [id |-> event[a].id, scope |-> event[a].scope, body |-> event[a].body,
            seq |-> read[a].next, prev |-> read[a].last]
  IN  [id |-> e.id, scope |-> e.scope, body |-> e.body, seq |-> e.seq, prev |-> e.prev,
       hash |-> hashAuditEvent(e)]

(* Mutated: the trigger is missing.                                        *)
validateChain_Off(e) == TRUE

(* Trigger audit_events_validate_chain.                                    *)
validateChain(e) == head[e.scope].next = e.seq /\ head[e.scope].last = e.prev

(* Trigger audit_events_advance_chain.                                     *)
advanceChain(e) == head' = [head EXCEPT ![e.scope] = [next |-> e.seq + 1, last |-> e.hash]]

(* Mutated: the id is not a primary key.                                   *)
insertAuditEvent_AnyId(a) ==
  LET e == chainedEvent(a) IN
  /\ pc[a] = "insert" /\ validateChain(e)
  /\ events' = events \cup {e}
  /\ advanceChain(e)
  /\ Finish(a, [outcome |-> "appended", seq |-> e.seq, hash |-> e.hash])
  /\ UNCHANGED <<event, read, attempt>>

insertAuditEvent(a) ==
  LET e == chainedEvent(a) IN
  /\ pc[a] = "insert"
  /\ validateChain(e) /\ \A r \in events : r.id # e.id
  /\ events' = events \cup {e}
  /\ advanceChain(e)
  /\ \/ Finish(a, [outcome |-> "appended", seq |-> e.seq, hash |-> e.hash])
     \/ Finish(a, [outcome |-> "error"])       \* committed, but the D1 call rejected
  /\ UNCHANGED <<event, read, attempt>>

(* Mutated: one attempt too many; retries without reading the head again.  *)
RetryUpTo(a, max) ==
  /\ pc[a] = "insert" /\ ~validateChain(chainedEvent(a))
  /\ \/ /\ attempt[a] < max
        /\ attempt' = [attempt EXCEPT ![a] = @ + 1]
        /\ pc' = [pc EXCEPT ![a] = "readHead"]
        /\ UNCHANGED answer
     \/ /\ attempt[a] >= max
        /\ Finish(a, [outcome |-> "conflict"])
        /\ UNCHANGED attempt
  /\ UNCHANGED <<head, events, event, read>>
AuditChainConflict_OneMore(a) == RetryUpTo(a, MaxAppendAttempts + 1)
AuditChainConflict_SameHead(a) ==
  /\ pc[a] = "insert" /\ ~validateChain(chainedEvent(a))
  /\ UNCHANGED vars

(* The trigger refused the event: try again, or rethrow at the last        *)
(* attempt.                                                                *)
AuditChainConflict(a) ==
  /\ pc[a] = "insert" /\ ~validateChain(chainedEvent(a))
  /\ \/ /\ attempt[a] < MaxAppendAttempts
        /\ attempt' = [attempt EXCEPT ![a] = @ + 1]
        /\ pc' = [pc EXCEPT ![a] = "readHead"]
        /\ UNCHANGED answer
     \/ /\ attempt[a] = MaxAppendAttempts
        /\ Finish(a, [outcome |-> "conflict"])
        /\ UNCHANGED attempt
  /\ UNCHANGED <<head, events, event, read>>

(* The primary key refuses an id that is taken; any error but a chain      *)
(* conflict is rethrown at once.                                           *)
DuplicateId(a) ==
  /\ pc[a] = "insert" /\ validateChain(chainedEvent(a))
  /\ \E r \in events : r.id = event[a].id
  /\ Finish(a, [outcome |-> "error"])
  /\ UNCHANGED <<head, events, event, read, attempt>>

(* D1 failed.                                                              *)
AppendError(a) ==
  /\ pc[a] \in {"readHead", "insert"}
  /\ Finish(a, [outcome |-> "error"])
  /\ UNCHANGED <<head, events, event, read, attempt>>

Try(a) == ReadHead(a) \/ insertAuditEvent(a) \/ AuditChainConflict(a) \/ DuplicateId(a)

Next == \E a \in Appends : Try(a) \/ AppendError(a) \/ \E e \in Event : BeginAppend(a, e)

Spec == Init /\ [][Next]_vars

(* The Worker drives a call it accepted to its end; D1 need not fail.      *)
FairSpec == Spec /\ \A a \in Appends : WF_vars(Try(a))

-----------------------------------------------------------------------------
(* list: the rows of a scope by ascending sequence.                        *)
Rows(s) == {r \in events : r.scope = s}

list(s) ==
  [k \in 1..Cardinality(Rows(s)) |->
     CHOOSE r \in Rows(s) : Cardinality({q \in Rows(s) : q.seq < r.seq}) = k - 1]

(* Mutated: the hash is not recomputed.                                    *)
failure_NoHash(rows, k) ==
  IF rows[k].seq # k THEN "sequence_mismatch"
  ELSE IF rows[k].prev # (IF k = 1 THEN GENESIS_HASH ELSE rows[k-1].hash)
       THEN "previous_hash_mismatch"
  ELSE "none"

(* verifyEvents: what the loop holds before row k, while all is well, is   *)
(* the hash of row k - 1 and the sequence k.                               *)
failure(rows, k) ==
  IF rows[k].seq # k THEN "sequence_mismatch"
  ELSE IF rows[k].prev # (IF k = 1 THEN GENESIS_HASH ELSE rows[k-1].hash)
       THEN "previous_hash_mismatch"
  ELSE IF rows[k].hash # hashAuditEvent(rows[k]) THEN "event_hash_mismatch"
  ELSE "none"

verifyEvents(rows) ==
  LET bad == {k \in 1..Len(rows) : failure(rows, k) # "none"} IN
  IF bad = {} THEN [valid |-> TRUE, sequence |-> 0, failure |-> "none"]
  ELSE LET k == CHOOSE k \in bad : \A j \in bad : k <= j
       IN  [valid |-> FALSE, sequence |-> rows[k].seq, failure |-> failure(rows, k)]

-----------------------------------------------------------------------------
(* The number of events the head of a scope counts.                        *)
chainLength(s) == IF head[s].next = 0 THEN 0 ELSE head[s].next - 1

(* However many writers race, the rows of a scope are one chain: numbered  *)
(* without gap or fork from 1 to the head, each hashed with its place and  *)
(* linked to the one before, the head to the last.                         *)
LinearHistory ==
  \A s \in Scopes :
    LET n == chainLength(s) IN
    /\ \A r \in events : r.scope = s => r.seq \in 1..n
    /\ \A k \in 1..n : \E r \in events : r.scope = s /\ r.seq = k
    /\ \A q, r \in events : q.scope = s /\ r.scope = s =>
         /\ q.seq = r.seq => q = r
         /\ r.seq = q.seq + 1 => r.prev = q.hash
    /\ \A r \in events : r.scope = s =>
         /\ r.hash = hashAuditEvent(r)
         /\ r.seq = 1 => r.prev = GENESIS_HASH
         /\ r.seq = n => head[s].last = r.hash

Without(rows, k) == [j \in 1..(Len(rows) - 1) |-> IF j < k THEN rows[j] ELSE rows[j + 1]]
Swapped(rows, j, k) == [rows EXCEPT ![j] = rows[k], ![k] = rows[j]]

(* The verifier accepts every chain the writers produce, and finds the     *)
(* place where a row of it was changed, swapped with another, or removed   *)
(* from before the last one ("forged, missing, or reordered evidence").    *)
TamperIsDetected ==
  \A s \in Scopes :
    LET rows == list(s) n == Len(rows) IN
    /\ verifyEvents(rows).valid
    /\ \A k \in 1..n : \A b \in Bodies \ {rows[k].body} :
         verifyEvents([rows EXCEPT ![k].body = b]) =
           [valid |-> FALSE, sequence |-> k, failure |-> "event_hash_mismatch"]
    /\ \A k \in 1..(n - 1) : ~verifyEvents(Without(rows, k)).valid
    /\ \A j, k \in 1..n : j < k => ~verifyEvents(Swapped(rows, j, k)).valid

(* Success is answered only for a row that is in the chain, at the         *)
(* sequence and with the hash answered; giving up means that as many       *)
(* events of other writers were appended as attempts were made.            *)
AppendAnswerIsHonest ==
  \A a \in Appends : answer[a] # None =>
    /\ answer[a].outcome = "appended" =>
         \E r \in events : /\ r.id = event[a].id /\ r.scope = event[a].scope
                           /\ r.body = event[a].body
                           /\ r.seq = answer[a].seq /\ r.hash = answer[a].hash
    /\ answer[a].outcome = "conflict" => Cardinality(Rows(event[a].scope)) >= MaxAppendAttempts

(* The rows of a scope, as the history the abstract trail keeps.           *)
rowAt(s, k) == CHOOSE r \in events : r.scope = s /\ r.seq = k
logOf ==
  [s \in Scopes |->
     [k \in 1..chainLength(s) |-> [id |-> rowAt(s, k).id, body |-> rowAt(s, k).body]]]

Trail == INSTANCE AuditTrail WITH log <- logOf

(* The chain implements the abstract audit trail: append-only, one history *)
(* per scope, an event at most once even when a caller retries.            *)
TrailSpec == Trail!Spec

(* Every append is answered: the retries end.                              *)
AppendEnds == \A a \in Appends : pc[a] = "readHead" ~> pc[a] = "done"

(***************************************************************************)
(* Every append is answered, and truthfully (audit-log.ts:125-160).        *)
(***************************************************************************)
AppendsEndHonestly == []AppendAnswerIsHonest /\ AppendEnds
=============================================================================
