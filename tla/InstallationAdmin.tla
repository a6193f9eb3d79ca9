------------------------- MODULE InstallationAdmin -------------------------
(***************************************************************************)
(* The writers of the installations table of the control plane: the        *)
(* audited admin command (admin-installations.ts), the audited rollback    *)
(* with its idempotency record (admin-rollbacks.ts) and the unaudited      *)
(* updates of the internal API (api.ts, storage.ts).  D1 runs one          *)
(* statement, or one batch, at a time; a handler is interrupted between    *)
(* its D1 calls by every other handler, so each call is an action here.    *)
(* The triggers of migrations 0002 and 0003 are part of the INSERT that    *)
(* fires them.                                                             *)
(***************************************************************************)
EXTENDS Naturals, FiniteSets

CONSTANTS Requests,       \* handler invocations; an invocation serves one request
          Installations, Tenants, Keys, Priorities,
          Versions,       \* plugin_versions.id
          PluginOf,       \* plugin_versions.plugin_id
          OwnerOf,        \* installations.tenant_id
          FirstVersion,   \* the version each installation starts with
          FirstPriority,
          MaxRevision,    \* bound on the revisions the unaudited writers reach
          MaxClock,       \* bound on the control plane's clock
          Retention,      \* idempotency retention (24h), in clock ticks
          None            \* SQL NULL, an absent field, no answer

ASSUME ConstantsAssumption ==
  /\ PluginOf \in [Versions -> {PluginOf[v] : v \in Versions}]
  /\ OwnerOf \in [Installations -> Tenants]
  /\ FirstVersion \in [Installations -> Versions]
  /\ FirstPriority \in Priorities
  /\ MaxRevision \in Nat /\ MaxClock \in Nat
  /\ Retention \in Nat \ {0}
  /\ None \notin BOOLEAN /\ None \notin Priorities /\ None \notin Versions

VARIABLES
  row,    \* the installations table
  audit,  \* admin_audit_events, rows inserted by command and rollback
  idem,   \* admin_rollback_idempotency, by (tenant, key)
  clock,  \* the control plane's clock
  req,    \* the request each invocation serves
  pc,     \* the D1 call each invocation makes next
  seen,   \* the row each invocation read last
  answer, \* what each invocation answered
  hist    \* history: every state each installation has been in

vars == <<row, audit, idem, clock, req, pc, seen, answer, hist>>

-----------------------------------------------------------------------------
Row == [enabled : BOOLEAN, priority : Priorities, version : Versions,
        config : Versions,   \* the version whose manifest config and grants were validated against
        revision : Nat]

(* What a handler is called with; exps is the set of expected revisions.   *)
CommandRequest(exps) ==
  [op : {"command"}, tenant : Tenants, inst : Installations, exp : exps,
   enabled : BOOLEAN \cup {None}, priority : Priorities \cup {None}]
RollbackRequest(exps, nows) ==
  [op : {"rollback"}, tenant : Tenants, inst : Installations, exp : exps, key : Keys,
   target : Versions, now : nows]    \* now: the clock when the handler started
DirectRequest ==
       [op : {"config"}, inst : Installations]
  \cup [op : {"apiRollback"}, inst : Installations, target : Versions]
  \cup [op : {"setEnabled"}, inst : Installations, enabled : BOOLEAN]
  \cup [op : {"setPriority"}, inst : Installations, priority : Priorities]

Request == CommandRequest(Nat) \cup RollbackRequest(Nat, Nat) \cup DirectRequest

Phases == {"idle", "readRow", "write", "catchReplay", "catchRow", "done"}

RolledBack == [outcome : {"rolled_back"}, inst : Installations, from : Versions, to : Versions,
               revision : Nat, auditId : Requests]

Answer == RolledBack
     \cup [outcome : {"updated"}, revision : Nat, changed : BOOLEAN]
     \cup [outcome : {"conflict", "same_version"}, revision : Nat]
     \cup [outcome : {"not_found", "idempotency_key_reused", "error", "written"}]

Fingerprint == [inst : Installations, target : Versions, exp : Nat]
IdemRow == [hash : Fingerprint, result : RolledBack, expires : Nat]

ASSUME NoneIsNoRecord == None \notin IdemRow

AuditEvent ==
       [action : {"installation.command"}, id : Requests, inst : Installations,
        revision : Nat, at : Nat,
        before : [enabled : BOOLEAN, priority : Priorities, revision : Nat],
        after  : [enabled : BOOLEAN, priority : Priorities, revision : Nat]]
  \cup [action : {"installation.rollback"}, id : Requests, inst : Installations,
        revision : Nat, at : Nat,
        before : [version : Versions, revision : Nat],
        after  : [version : Versions, revision : Nat]]

TypeOK ==
  /\ row \in [Installations -> Row]
  /\ audit \subseteq AuditEvent
  /\ idem \in [Tenants \X Keys -> IdemRow \cup {None}]
  /\ clock \in Nat
  /\ req \in [Requests -> Request \cup {None}]
  /\ pc \in [Requests -> Phases]
  /\ seen \in [Requests -> Row \cup {None}]
  /\ answer \in [Requests -> Answer \cup {None}]
  /\ hist \in [Installations -> SUBSET Row]

Init ==
  /\ row = [i \in Installations |->
              [enabled |-> TRUE, priority |-> FirstPriority, version |-> FirstVersion[i],
               config |-> FirstVersion[i], revision |-> 0]]
  /\ audit = {}
  /\ idem = [k \in Tenants \X Keys |-> None]
  /\ clock = 0
  /\ req = [q \in Requests |-> None]
  /\ pc = [q \in Requests |-> "idle"]
  /\ seen = [q \in Requests |-> None]
  /\ answer = [q \in Requests |-> None]
  /\ hist = [i \in Installations |-> {row[i]}]

-----------------------------------------------------------------------------
(* Helpers.                                                                *)

(* An UPDATE of the row of installation i; history follows.                *)
Store(i, new) ==
  /\ row' = [row EXCEPT ![i] = new]
  /\ hist' = [hist EXCEPT ![i] = @ \cup {new}]

UnchangedTables == UNCHANGED <<row, audit, idem, hist>>

(* readCommandRow joins tenant and app; a row of another tenant is not found. *)
readCommandRow(r) == IF OwnerOf[r.inst] = r.tenant THEN row[r.inst] ELSE None

(* readRollbackRow also joins the target version to the plugin of the      *)
(* current one.                                                            *)
readRollbackRow(r) ==
  IF OwnerOf[r.inst] = r.tenant /\ PluginOf[r.target] = PluginOf[row[r.inst].version]
  THEN row[r.inst] ELSE None

rollbackRequestHash(r) == [inst |-> r.inst, target |-> r.target, exp |-> r.exp]

(* An expired record is not seen; expiry is judged by the clock the handler *)
(* read when it started.                                                   *)
readIdempotencyRecord(r) ==
  LET rec == idem[<<r.tenant, r.key>>]
  IN  IF rec # None /\ rec.expires > r.now THEN rec ELSE None

resolveReplay(rec, r) ==
  IF rec.hash # rollbackRequestHash(r) THEN [outcome |-> "idempotency_key_reused"] ELSE rec.result

(* The handler answers and ends; the tables are left alone by the callers  *)
(* that say so.                                                            *)
Finish(q, a) ==
  /\ answer' = [answer EXCEPT ![q] = a]
  /\ pc' = [pc EXCEPT ![q] = "done"]

Continue(q, phase) == pc' = [pc EXCEPT ![q] = phase] /\ UNCHANGED answer

-----------------------------------------------------------------------------
(* updateInstallation: read, compare, write the audit event whose trigger  *)
(* applies the change.                                                     *)

commandState(x, revision) ==
  [enabled |-> x.enabled, priority |-> x.priority, revision |-> revision]
(* Mutated: fields that are not given are stored as NULL.                  *)
commandAfter_NoDefault(r, before) == [enabled |-> r.enabled, priority |-> r.priority]

commandAfter(r, before) ==
  [enabled  |-> IF r.enabled  = None THEN before.enabled  ELSE r.enabled,
   priority |-> IF r.priority = None THEN before.priority ELSE r.priority]
NoChange(r, before) ==
  LET after == commandAfter(r, before)
  IN  after.enabled = before.enabled /\ after.priority = before.priority

BeginCommand(q, r) ==
  LET current == readCommandRow(r) IN
  /\ UnchangedTables /\ seen' = [seen EXCEPT ![q] = current]
  /\ \/ current = None /\ Finish(q, [outcome |-> "not_found"])
     \/ /\ current # None /\ current.revision # r.exp
        /\ Finish(q, [outcome |-> "conflict", revision |-> current.revision])
     \/ /\ current # None /\ current.revision = r.exp
        /\ NoChange(r, current)
        /\ Finish(q, [outcome |-> "updated", revision |-> r.exp, changed |-> FALSE])
     \/ /\ current # None /\ current.revision = r.exp
        /\ ~NoChange(r, current)
        /\ Continue(q, "write")

(* Mutated: the trigger does not compare the current row.                  *)
CommandApplies_Unchecked(q) == OwnerOf[req[q].inst] = req[q].tenant

(* The INSERT of a command's audit event: the trigger compares revision,   *)
(* enabled and priority with what the handler read.                        *)
CommandApplies(q) ==
  LET r == req[q] current == row[r.inst] before == seen[q] IN
  /\ OwnerOf[r.inst] = r.tenant /\ PluginOf[current.version] = PluginOf[before.version]
  /\ current.revision = before.revision
  /\ current.enabled = before.enabled
  /\ current.priority = before.priority
  /\ \A e \in audit : ~(e.inst = r.inst /\ e.revision = before.revision + 1)

CommandInsert(q) ==
  LET r == req[q] before == seen[q] after == commandAfter(r, before) next == before.revision + 1 IN
  /\ Store(r.inst, [row[r.inst] EXCEPT !.enabled = after.enabled, !.priority = after.priority,
                                       !.revision = next])
  /\ audit' = audit \cup {[action |-> "installation.command", id |-> q, inst |-> r.inst,
                           revision |-> next, at |-> clock,
                           before |-> commandState(before, before.revision),
                           after |-> commandState(after, next)]}
  /\ UNCHANGED idem

commandResult(q) == [outcome |-> "updated", revision |-> seen[q].revision + 1, changed |-> TRUE]

WriteCommand(q) ==
  /\ pc[q] = "write" /\ req[q].op = "command"
  /\ UNCHANGED <<clock, req, seen>>
  /\ \/ /\ CommandApplies(q) /\ CommandInsert(q)
        /\ \/ Finish(q, commandResult(q))
           \/ Continue(q, "catchRow")      \* committed, but the D1 call rejected
     \/ UnchangedTables /\ Continue(q, "catchRow")  \* trigger ABORT, or D1 failed

CatchCommand(q) ==
  LET latest == readCommandRow(req[q]) IN
  /\ pc[q] = "catchRow" /\ req[q].op = "command"
  /\ UnchangedTables /\ UNCHANGED <<clock, req, seen>>
  /\ Finish(q, IF latest # None /\ latest.revision # req[q].exp
               THEN [outcome |-> "conflict", revision |-> latest.revision]
               ELSE [outcome |-> "error"])

-----------------------------------------------------------------------------
(* rollback: replay, read, compare, one batch, and on failure the winner's *)
(* record before the revision.                                             *)

BeginRollback(q, r) ==
  LET replay == readIdempotencyRecord(r) IN
  /\ UnchangedTables /\ UNCHANGED seen
  /\ \/ replay # None /\ Finish(q, resolveReplay(replay, r))
     \/ replay = None /\ Continue(q, "readRow")

ReadRollbackRow(q) ==
  LET r == req[q] current == readRollbackRow(r) IN
  /\ pc[q] = "readRow"
  /\ UnchangedTables /\ UNCHANGED <<clock, req>> /\ seen' = [seen EXCEPT ![q] = current]
  /\ \/ current = None /\ Finish(q, [outcome |-> "not_found"])
     \/ /\ current # None /\ current.revision # r.exp
        /\ Finish(q, [outcome |-> "conflict", revision |-> current.revision])
     \/ /\ current # None /\ current.revision = r.exp /\ current.version = r.target
        /\ Finish(q, [outcome |-> "same_version", revision |-> current.revision])
     \/ /\ current # None /\ current.revision = r.exp /\ current.version # r.target
        /\ Continue(q, "write")

rollbackResult(q) ==
  LET r == req[q] IN
  [outcome |-> "rolled_back", inst |-> r.inst, from |-> seen[q].version, to |-> r.target,
   revision |-> seen[q].revision + 1, auditId |-> q]

(* The batch deletes an expired record of the same key, inserts the audit  *)
(* event (whose trigger compares version, plugin and revision) and inserts *)
(* the idempotency record under its primary key.                           *)
RollbackApplies(q) ==
  LET r == req[q] current == row[r.inst] before == seen[q] IN
  /\ OwnerOf[r.inst] = r.tenant
  /\ PluginOf[r.target] = PluginOf[current.version]
  /\ current.version = before.version /\ current.version # r.target
  /\ current.revision = before.revision
  /\ \A e \in audit : ~(e.inst = r.inst /\ e.revision = before.revision + 1)
  /\ readIdempotencyRecord(r) = None

adminIdempotencyExpiry(now) == now + Retention

RollbackBatch(q) ==
  LET r == req[q] next == seen[q].revision + 1 IN
  /\ Store(r.inst, [row[r.inst] EXCEPT !.version = r.target, !.revision = next])
  /\ audit' = audit \cup {[action |-> "installation.rollback", id |-> q, inst |-> r.inst,
                           revision |-> next, at |-> r.now,
                           before |-> [version |-> seen[q].version, revision |-> seen[q].revision],
                           after |-> [version |-> r.target, revision |-> next]]}
  /\ idem' = [idem EXCEPT ![<<r.tenant, r.key>>] =
                [hash |-> rollbackRequestHash(r), result |-> rollbackResult(q),
                 expires |-> adminIdempotencyExpiry(r.now)]]

WriteRollback(q) ==
  /\ pc[q] = "write" /\ req[q].op = "rollback"
  /\ UNCHANGED <<clock, req, seen>>
  /\ \/ /\ RollbackApplies(q) /\ RollbackBatch(q)
        /\ \/ Finish(q, rollbackResult(q))
           \/ Continue(q, "catchReplay")
     \/ UnchangedTables /\ Continue(q, "catchReplay")

(* Mutated: the catch block looks at the revision only.                    *)
CatchRollbackReplay_RowOnly(q) ==
  /\ pc[q] = "catchReplay"
  /\ UnchangedTables /\ UNCHANGED <<clock, req, seen>>
  /\ Continue(q, "catchRow")

CatchRollbackReplay(q) ==
  LET winner == readIdempotencyRecord(req[q]) IN
  /\ pc[q] = "catchReplay"
  /\ UnchangedTables /\ UNCHANGED <<clock, req, seen>>
  /\ \/ winner # None /\ Finish(q, resolveReplay(winner, req[q]))
     \/ winner = None /\ Continue(q, "catchRow")

CatchRollbackRow(q) ==
  LET latest == readRollbackRow(req[q]) IN
  /\ pc[q] = "catchRow" /\ req[q].op = "rollback"
  /\ UnchangedTables /\ UNCHANGED <<clock, req, seen>>
  /\ Finish(q, IF latest # None /\ latest.revision # req[q].exp
               THEN [outcome |-> "conflict", revision |-> latest.revision]
               ELSE [outcome |-> "error"])

-----------------------------------------------------------------------------
(* The internal API: read the installation, then one unconditional UPDATE  *)
(* that bumps the revision and writes no admin audit event.                *)

(* rollbackInstallation additionally requires the target version to belong *)
(* to the plugin of the version it read.                                   *)
BeginDirect(q, r) ==
  LET foreign == r.op = "apiRollback" /\ PluginOf[r.target] # PluginOf[row[r.inst].version] IN
  /\ UnchangedTables /\ seen' = [seen EXCEPT ![q] = row[r.inst]]
  /\ \/ foreign /\ Finish(q, [outcome |-> "not_found"])
     \/ ~foreign /\ Continue(q, "write")

(* Mutated: the UPDATE does not bump the revision.                         *)
setInstallationEnabled_NoBump(q, x) == [x EXCEPT !.enabled = req[q].enabled]

updateInstallationConfig(q, x) == [x EXCEPT !.config = seen[q].version, !.revision = @ + 1]
updateInstallationVersion(q, x) == [x EXCEPT !.version = req[q].target, !.revision = @ + 1]
setInstallationEnabled(q, x) == [x EXCEPT !.enabled = req[q].enabled, !.revision = @ + 1]
updateInstallationPriority(q, x) == [x EXCEPT !.priority = req[q].priority, !.revision = @ + 1]

WriteDirect(q) ==
  LET i == req[q].inst IN
  /\ pc[q] = "write"
  /\ row[i].revision < MaxRevision
  /\ \/ req[q].op = "config"      /\ Store(i, updateInstallationConfig(q, row[i]))
     \/ req[q].op = "apiRollback" /\ Store(i, updateInstallationVersion(q, row[i]))
     \/ req[q].op = "setEnabled"  /\ Store(i, setInstallationEnabled(q, row[i]))
     \/ req[q].op = "setPriority" /\ Store(i, updateInstallationPriority(q, row[i]))
  /\ Finish(q, [outcome |-> "written"])
  /\ UNCHANGED <<audit, idem, clock, req, seen>>

(* The UPDATE failed and the handler throws.                               *)
FailDirect(q) ==
  /\ pc[q] = "write" /\ req[q].op \notin {"command", "rollback"}
  /\ Finish(q, [outcome |-> "error"])
  /\ UnchangedTables /\ UNCHANGED <<clock, req, seen>>

-----------------------------------------------------------------------------
(* The clock read and the first D1 read of a handler are one step.         *)
Accept(q, r) == pc[q] = "idle" /\ req' = [req EXCEPT ![q] = r] /\ UNCHANGED clock

Begin(q) ==
  \/ \E r \in CommandRequest(0..MaxRevision) : Accept(q, r) /\ BeginCommand(q, r)
  \/ \E r \in RollbackRequest(0..MaxRevision, {clock}) : Accept(q, r) /\ BeginRollback(q, r)
  \/ \E r \in DirectRequest : Accept(q, r) /\ BeginDirect(q, r)

Tick == clock < MaxClock /\ clock' = clock + 1
        /\ UNCHANGED <<row, audit, idem, req, pc, seen, answer, hist>>

Step(q) ==
  \/ Begin(q)
  \/ WriteCommand(q) \/ CatchCommand(q)
  \/ ReadRollbackRow(q) \/ WriteRollback(q) \/ CatchRollbackReplay(q) \/ CatchRollbackRow(q)
  \/ WriteDirect(q) \/ FailDirect(q)

Next == Tick \/ \E q \in Requests : Step(q)

Spec == Init /\ [][Next]_vars

-----------------------------------------------------------------------------
(* Properties.                                                             *)

(* Every writer of an installation, audited or not, bumps its revision: a  *)
(* revision names one state, which is what lets the expected revision of a *)
(* command or rollback stand for everything its caller looked at.          *)
RevisionNamesState ==
  \A i \in Installations : \A a, b \in hist[i] : a.revision = b.revision => a = b

(* The event's claim is what the table went through: from the state of     *)
(* revision - 1 to the state of revision, nothing but the claimed fields   *)
(* changing.                                                               *)
Claims(e, b, a) ==
  /\ b.revision = e.before.revision /\ a.revision = e.after.revision
  /\ e.after.revision = e.before.revision + 1 /\ e.revision = e.after.revision
  /\ e.action = "installation.command" =>
       /\ b.enabled = e.before.enabled /\ b.priority = e.before.priority
       /\ a.enabled = e.after.enabled /\ a.priority = e.after.priority
       /\ a.version = b.version /\ a.config = b.config
  /\ e.action = "installation.rollback" =>
       /\ b.version = e.before.version /\ a.version = e.after.version
       /\ a.enabled = b.enabled /\ a.priority = b.priority /\ a.config = b.config

(* An admin audit event is never false history, whatever the unaudited     *)
(* writers do between a handler's read and its INSERT (the comment above   *)
(* the trigger of migration 0002).                                         *)
AuditIsHistory ==
  \A e \in audit : \E b, a \in hist[e.inst] : Claims(e, b, a)

(* An answer that reports a change is backed by one audit event of its     *)
(* invocation, or of the invocation it replays, that says the same, and    *)
(* the change started from the revision the caller expected.               *)
AnswerIsBacked ==
  \A q \in Requests : answer[q] # None =>
    /\ answer[q].outcome = "updated" /\ answer[q].changed =>
         \E e \in audit : /\ e.id = q /\ e.inst = req[q].inst
                          /\ e.before.revision = req[q].exp
                          /\ e.revision = answer[q].revision
    /\ answer[q].outcome = "rolled_back" =>
         \E e \in audit : /\ e.id = answer[q].auditId /\ e.inst = req[q].inst
                          /\ e.action = "installation.rollback"
                          /\ e.before = [version |-> answer[q].from, revision |-> req[q].exp]
                          /\ e.after = [version |-> req[q].target,
                                        revision |-> answer[q].revision]

SameKey(p, q) ==
  /\ req[p].op = "rollback" /\ req[q].op = "rollback"
  /\ req[p].tenant = req[q].tenant /\ req[p].key = req[q].key

(* Resending a rollback under its key, concurrently or after a lost        *)
(* answer, applies it once: two rollbacks of one tenant and key are at     *)
(* least a retention period apart.                                         *)
KeyAppliesOnce ==
  \A d, e \in audit :
    d.id # e.id /\ SameKey(d.id, e.id) => d.at + Retention <= e.at \/ e.at + Retention <= d.at

(* A conflict is reported only for a revision the installation really had  *)
(* and the caller did not expect; a rollback that reports one was not      *)
(* applied (the D1 call may reject after it committed, so this is the      *)
(* catch block's work; expiry is judged by the clock the handler read at   *)
(* its start, so its own record never expires under it).                   *)
ConflictIsHonest ==
  \A q \in Requests : answer[q] # None /\ answer[q].outcome = "conflict" =>
    /\ answer[q].revision # req[q].exp
    /\ \E x \in hist[req[q].inst] : x.revision = answer[q].revision
    /\ req[q].op = "rollback" => \A e \in audit : e.id # q

(* A caller changes, and is told about, installations of its own tenant    *)
(* only; a replayed record never crosses tenants.                          *)
TenantIsolation ==
  \A q \in Requests : req[q] # None /\ req[q].op \in {"command", "rollback"} =>
    /\ \A e \in audit : e.id = q => OwnerOf[e.inst] = req[q].tenant
    /\ answer[q] # None /\ OwnerOf[req[q].inst] # req[q].tenant =>
         answer[q].outcome \in {"not_found", "idempotency_key_reused"}

(* No sequence of rollbacks moves an installation to another plugin.       *)
PluginIsFixed ==
  \A i \in Installations : PluginOf[row[i].version] = PluginOf[FirstVersion[i]]

(***************************************************************************)
(* What a caller is told and may touch, over any overlap of calls, retries *)
(* and lost answers (admin-installations.ts:127, admin-rollbacks.ts:150):  *)
(* changes it reports were made, conflicts were real, a key acts once, and *)
(* tenants and plugins stay apart.                                         *)
(***************************************************************************)
CallersAreServedHonestly ==
  AnswerIsBacked /\ KeyAppliesOnce /\ ConflictIsHonest /\ TenantIsolation /\ PluginIsFixed
=============================================================================
