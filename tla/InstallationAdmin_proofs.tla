---------------------- MODULE InstallationAdmin_proofs ----------------------
(* Proofs about InstallationAdmin, for any set of handlers, installations, *)
(* tenants, versions and any bounds.                                       *)
EXTENDS InstallationAdmin, TLAPS

(* What a handler that has started relies on: the request it serves is     *)
(* known, and the row it read is there when it writes.                     *)
PhaseOK ==
  \A q \in Requests :
    /\ pc[q] # "idle" => req[q] \in Request
    /\ pc[q] \in {"readRow", "catchReplay"} => req[q].op = "rollback"
    /\ pc[q] = "catchRow" => req[q].op \in {"command", "rollback"}
    /\ pc[q] = "write" => seen[q] \in Row

(* The current state is the newest one recorded.                           *)
RowIsNewest ==
  \A i \in Installations :
    /\ row[i] \in hist[i]
    /\ \A x \in hist[i] : x.revision <= row[i].revision

TypeInv == TypeOK /\ PhaseOK
HistoryInv == RowIsNewest /\ RevisionNamesState

-----------------------------------------------------------------------------
LEMMA RequestKinds ==
  ASSUME NEW r \in Request
  PROVE  /\ r.op = "command" => r \in CommandRequest(Nat)
         /\ r.op = "rollback" => r \in RollbackRequest(Nat, Nat)
         /\ r.op \notin {"command", "rollback"} => r \in DirectRequest
         /\ r.op \in {"command", "rollback", "config", "apiRollback", "setEnabled", "setPriority"}
         /\ r.inst \in Installations
  BY DEF Request, CommandRequest, RollbackRequest, DirectRequest

LEMMA InitType == Init => TypeInv
  BY ConstantsAssumption DEF Init, TypeInv, TypeOK, PhaseOK, Row, Phases

(* The frame every action but a write keeps.                               *)
LEMMA FinishType ==
  ASSUME TypeOK, NEW q \in Requests, NEW a \in Answer, Finish(q, a)
  PROVE  /\ answer' \in [Requests -> Answer \cup {None}]
         /\ pc' \in [Requests -> Phases]
         /\ pc'[q] = "done" /\ \A p \in Requests : p # q => pc'[p] = pc[p]
  BY DEF TypeOK, Finish, Phases

LEMMA ContinueType ==
  ASSUME TypeOK, NEW q \in Requests, NEW ph \in Phases, Continue(q, ph)
  PROVE  /\ answer' \in [Requests -> Answer \cup {None}]
         /\ pc' \in [Requests -> Phases]
         /\ pc'[q] = ph /\ \A p \in Requests : p # q => pc'[p] = pc[p]
  BY DEF TypeOK, Continue, Phases

(* What an UPDATE of two or three columns makes of a row.                  *)
LEMMA SetCommandState ==
  ASSUME NEW x \in Row, NEW e \in BOOLEAN, NEW p \in Priorities, NEW n \in Nat
  PROVE  /\ [x EXCEPT !.enabled = e, !.priority = p, !.revision = n] =
             [enabled |-> e, priority |-> p, version |-> x.version, config |-> x.config, revision |-> n]
         /\ [x EXCEPT !.enabled = e, !.priority = p, !.revision = n] \in Row
<1> DEFINE y1 == [x EXCEPT !.enabled = e]
<1>1. y1 = [enabled |-> e, priority |-> x.priority, version |-> x.version, config |-> x.config, revision |-> x.revision] /\ y1 \in Row
  BY DEF Row
<1> HIDE DEF y1
<1> DEFINE y2 == [y1 EXCEPT !.priority = p]
<1>2. y2 = [enabled |-> e, priority |-> p, version |-> x.version, config |-> x.config, revision |-> x.revision] /\ y2 \in Row
  BY <1>1 DEF Row
<1> HIDE DEF y2
<1>3. /\ [y2 EXCEPT !.revision = n] =
           [enabled |-> e, priority |-> p, version |-> x.version, config |-> x.config, revision |-> n]
      /\ [y2 EXCEPT !.revision = n] \in Row
  BY <1>2 DEF Row
<1> QED BY <1>3 DEF y1, y2

LEMMA SetVersion ==
  ASSUME NEW x \in Row, NEW v \in Versions, NEW n \in Nat
  PROVE  /\ [x EXCEPT !.version = v, !.revision = n] =
             [enabled |-> x.enabled, priority |-> x.priority, version |-> v, config |-> x.config, revision |-> n]
         /\ [x EXCEPT !.version = v, !.revision = n] \in Row
<1> DEFINE y1 == [x EXCEPT !.version = v]
<1>1. y1 = [enabled |-> x.enabled, priority |-> x.priority, version |-> v, config |-> x.config, revision |-> x.revision] /\ y1 \in Row
  BY DEF Row
<1> HIDE DEF y1
<1>2. /\ [y1 EXCEPT !.revision = n] =
           [enabled |-> x.enabled, priority |-> x.priority, version |-> v, config |-> x.config, revision |-> n]
      /\ [y1 EXCEPT !.revision = n] \in Row
  BY <1>1 DEF Row
<1> QED BY <1>2 DEF y1

LEMMA SetConfig ==
  ASSUME NEW x \in Row, NEW v \in Versions, NEW n \in Nat
  PROVE  /\ [x EXCEPT !.config = v, !.revision = n] =
             [enabled |-> x.enabled, priority |-> x.priority, version |-> x.version, config |-> v, revision |-> n]
         /\ [x EXCEPT !.config = v, !.revision = n] \in Row
<1> DEFINE y1 == [x EXCEPT !.config = v]
<1>1. y1 = [enabled |-> x.enabled, priority |-> x.priority, version |-> x.version, config |-> v, revision |-> x.revision] /\ y1 \in Row
  BY DEF Row
<1> HIDE DEF y1
<1>2. /\ [y1 EXCEPT !.revision = n] =
           [enabled |-> x.enabled, priority |-> x.priority, version |-> x.version, config |-> v, revision |-> n]
      /\ [y1 EXCEPT !.revision = n] \in Row
  BY <1>1 DEF Row
<1> QED BY <1>2 DEF y1

LEMMA SetEnabled ==
  ASSUME NEW x \in Row, NEW e \in BOOLEAN, NEW n \in Nat
  PROVE  /\ [x EXCEPT !.enabled = e, !.revision = n] =
             [enabled |-> e, priority |-> x.priority, version |-> x.version, config |-> x.config, revision |-> n]
         /\ [x EXCEPT !.enabled = e, !.revision = n] \in Row
<1> DEFINE y1 == [x EXCEPT !.enabled = e]
<1>1. y1 = [enabled |-> e, priority |-> x.priority, version |-> x.version, config |-> x.config, revision |-> x.revision] /\ y1 \in Row
  BY DEF Row
<1> HIDE DEF y1
<1>2. /\ [y1 EXCEPT !.revision = n] =
           [enabled |-> e, priority |-> x.priority, version |-> x.version, config |-> x.config, revision |-> n]
      /\ [y1 EXCEPT !.revision = n] \in Row
  BY <1>1 DEF Row
<1> QED BY <1>2 DEF y1

LEMMA SetPriority ==
  ASSUME NEW x \in Row, NEW p \in Priorities, NEW n \in Nat
  PROVE  /\ [x EXCEPT !.priority = p, !.revision = n] =
             [enabled |-> x.enabled, priority |-> p, version |-> x.version, config |-> x.config, revision |-> n]
         /\ [x EXCEPT !.priority = p, !.revision = n] \in Row
<1> DEFINE y1 == [x EXCEPT !.priority = p]
<1>1. y1 = [enabled |-> x.enabled, priority |-> p, version |-> x.version, config |-> x.config, revision |-> x.revision] /\ y1 \in Row
  BY DEF Row
<1> HIDE DEF y1
<1>2. /\ [y1 EXCEPT !.revision = n] =
           [enabled |-> x.enabled, priority |-> p, version |-> x.version, config |-> x.config, revision |-> n]
      /\ [y1 EXCEPT !.revision = n] \in Row
  BY <1>1 DEF Row
<1> QED BY <1>2 DEF y1

(* A write keeps the tables typed when the new row is typed.               *)
LEMMA StoreType ==
  ASSUME TypeOK, NEW i \in Installations, NEW new \in Row, Store(i, new)
  PROVE  row' \in [Installations -> Row] /\ hist' \in [Installations -> SUBSET Row]
  BY DEF TypeOK, Store

LEMMA ReplayType ==
  ASSUME TypeOK, NEW r \in RollbackRequest(Nat, Nat),
         readIdempotencyRecord(r) # None
  PROVE  resolveReplay(readIdempotencyRecord(r), r) \in Answer
<1>1. idem[<<r.tenant, r.key>>] \in IdemRow
  BY DEF TypeOK, readIdempotencyRecord, RollbackRequest
<1>2. readIdempotencyRecord(r) = idem[<<r.tenant, r.key>>]
  BY DEF readIdempotencyRecord
<1>3. [outcome |-> "idempotency_key_reused"] \in Answer
  BY DEF Answer
<1>4. readIdempotencyRecord(r).result \in Answer
  BY <1>1, <1>2 DEF IdemRow, Answer
<1> QED BY <1>3, <1>4 DEF resolveReplay

LEMMA RowReads ==
  ASSUME TypeOK, NEW r, r.inst \in Installations
  PROVE  /\ readCommandRow(r) \in Row \cup {None} /\ readRollbackRow(r) \in Row \cup {None}
         /\ row[r.inst] \in Row
  BY DEF TypeOK, readCommandRow, readRollbackRow

LEMMA PlainAnswers ==
  /\ \A o \in {"not_found", "idempotency_key_reused", "error", "written"} : [outcome |-> o] \in Answer
  /\ \A n \in Nat : /\ [outcome |-> "conflict", revision |-> n] \in Answer
                    /\ [outcome |-> "same_version", revision |-> n] \in Answer
                    /\ \A c \in BOOLEAN :
                         [outcome |-> "updated", revision |-> n, changed |-> c] \in Answer
  BY DEF Answer

(* Accepting a request leaves every table as it is.                        *)
LEMMA BeginType ==
  ASSUME TypeInv, NEW q \in Requests, Begin(q)
  PROVE  TypeInv'
<1> USE DEF TypeInv
<1>1. ASSUME NEW r \in Request, Accept(q, r), UnchangedTables,
             seen' \in [Requests -> Row \cup {None}],
             \A p \in Requests : p # q => seen'[p] = seen[p],
             answer' \in [Requests -> Answer \cup {None}],
             pc' \in [Requests -> Phases],
             \A p \in Requests : p # q => pc'[p] = pc[p],
             \/ pc'[q] = "done"
             \/ pc'[q] = "readRow" /\ r.op = "rollback"
             \/ pc'[q] = "write" /\ seen'[q] \in Row
      PROVE  TypeInv'
  <2>1. req' \in [Requests -> Request \cup {None}] /\ req'[q] = r
        /\ \A p \in Requests : p # q => req'[p] = req[p]
    BY <1>1 DEF Accept, TypeOK
  <2>2. TypeOK'
    BY <1>1, <2>1 DEF TypeOK, UnchangedTables, Accept
  <2>3. PhaseOK'
    BY <1>1, <2>1 DEF PhaseOK
  <2> QED BY <2>2, <2>3
<1>2. ASSUME NEW r \in CommandRequest(0..MaxRevision), Accept(q, r), BeginCommand(q, r)
      PROVE  TypeInv'
  <2> DEFINE current == readCommandRow(r)
  <2>1. r \in Request /\ r.inst \in Installations
    BY <1>2, ConstantsAssumption DEF Request, CommandRequest
  <2>2. current \in Row \cup {None}
    BY <2>1, RowReads
  <2>3. seen' \in [Requests -> Row \cup {None}] /\ seen'[q] = current
        /\ \A p \in Requests : p # q => seen'[p] = seen[p]
    BY <1>2, <2>2 DEF BeginCommand, TypeOK
  <2>4. current # None => current.revision \in Nat
    BY <2>2 DEF Row
  <2>5. r.exp \in Nat
    BY <1>2, ConstantsAssumption DEF CommandRequest
  <2>6. \/ \E a \in Answer : Finish(q, a)
        \/ Continue(q, "write") /\ current # None
    BY <1>2, <2>4, <2>5, PlainAnswers DEF BeginCommand
  <2> QED BY <1>1, <1>2, <2>1, <2>2, <2>3, <2>6, FinishType, ContinueType DEF BeginCommand, Phases
<1>3. ASSUME NEW r \in RollbackRequest(0..MaxRevision, {clock}), Accept(q, r), BeginRollback(q, r)
      PROVE  TypeInv'
  <2>1. r \in Request /\ r \in RollbackRequest(Nat, Nat) /\ r.op = "rollback"
    BY <1>3, ConstantsAssumption DEF Request, RollbackRequest, TypeOK
  <2>2. \/ \E a \in Answer : Finish(q, a)
        \/ Continue(q, "readRow")
    BY <1>3, <2>1, ReplayType DEF BeginRollback
  <2> QED BY <1>1, <1>3, <2>1, <2>2, FinishType, ContinueType DEF BeginRollback, Phases, TypeOK
<1>4. ASSUME NEW r \in DirectRequest, Accept(q, r), BeginDirect(q, r)
      PROVE  TypeInv'
  <2>1. r \in Request /\ r.inst \in Installations
    BY <1>4 DEF Request, DirectRequest
  <2>2. row[r.inst] \in Row
    BY <2>1, RowReads
  <2>3. seen' \in [Requests -> Row \cup {None}] /\ seen'[q] = row[r.inst]
        /\ \A p \in Requests : p # q => seen'[p] = seen[p]
    BY <1>4, <2>2 DEF BeginDirect, TypeOK
  <2>4. \/ \E a \in Answer : Finish(q, a)
        \/ Continue(q, "write")
    BY <1>4, PlainAnswers DEF BeginDirect
  <2> QED BY <1>1, <1>4, <2>1, <2>2, <2>3, <2>4, FinishType, ContinueType DEF BeginDirect, Phases
<1> QED BY <1>2, <1>3, <1>4 DEF Begin

(* A later step of a handler keeps its request and what it read.           *)
LEMMA LaterType ==
  ASSUME TypeInv, NEW q \in Requests, req' = req,
         pc[q] # "idle",
         row' \in [Installations -> Row], hist' \in [Installations -> SUBSET Row],
         audit' \subseteq AuditEvent, idem' \in [Tenants \X Keys -> IdemRow \cup {None}],
         clock' = clock,
         seen' \in [Requests -> Row \cup {None}],
         \A p \in Requests : p # q => seen'[p] = seen[p],
         \/ \E a \in Answer : Finish(q, a)
         \/ Continue(q, "write") /\ seen'[q] \in Row
         \/ Continue(q, "catchReplay") /\ req[q].op = "rollback"
         \/ Continue(q, "catchRow") /\ req[q].op \in {"command", "rollback"}
  PROVE  TypeInv'
<1>1. /\ answer' \in [Requests -> Answer \cup {None}]
      /\ pc' \in [Requests -> Phases]
      /\ \A p \in Requests : p # q => pc'[p] = pc[p]
      /\ \/ pc'[q] = "done"
         \/ pc'[q] = "write" /\ seen'[q] \in Row
         \/ pc'[q] = "catchReplay" /\ req[q].op = "rollback"
         \/ pc'[q] = "catchRow" /\ req[q].op \in {"command", "rollback"}
  BY FinishType, ContinueType DEF TypeInv, Phases
<1>2. TypeOK'
  BY <1>1 DEF TypeInv, TypeOK
<1>3. PhaseOK'
  BY <1>1 DEF TypeInv, PhaseOK
<1> QED BY <1>2, <1>3 DEF TypeInv

(* What the two audited writes put in the tables is well formed.           *)
LEMMA CommandInsertType ==
  ASSUME TypeInv, NEW q \in Requests, pc[q] = "write", req[q].op = "command", CommandInsert(q)
  PROVE  /\ row' \in [Installations -> Row] /\ hist' \in [Installations -> SUBSET Row]
         /\ audit' \subseteq AuditEvent /\ idem' \in [Tenants \X Keys -> IdemRow \cup {None}]
         /\ commandResult(q) \in Answer
<1> DEFINE r == req[q]
           before == seen[q]
           after == commandAfter(r, before)
           next == before.revision + 1
           new == [row[r.inst] EXCEPT !.enabled = after.enabled, !.priority = after.priority,
                                      !.revision = next]
<1>1. r \in CommandRequest(Nat) /\ r.inst \in Installations
  BY RequestKinds DEF TypeInv, PhaseOK
<1>2. before \in Row
  BY DEF TypeInv, PhaseOK
<1>3. row[r.inst] \in Row
  BY <1>1 DEF TypeInv, TypeOK
<1>4. after.enabled \in BOOLEAN /\ after.priority \in Priorities /\ next \in Nat
  BY <1>1, <1>2 DEF CommandRequest, commandAfter, Row
<1>5. new \in Row
  <2> HIDE DEF after, next
  <2> QED BY <1>3, <1>4, SetCommandState
<1>6. Store(r.inst, new)
  BY DEF CommandInsert
<1>7. [action |-> "installation.command", id |-> q, inst |-> r.inst, revision |-> next,
       at |-> clock, before |-> commandState(before, before.revision),
       after |-> commandState(after, next)] \in AuditEvent
  <2>1. clock \in Nat
    BY DEF TypeInv, TypeOK
  <2> HIDE DEF after, next
  <2> QED BY <1>1, <1>2, <1>4, <2>1 DEF AuditEvent, commandState, Row
<1>8. audit' \subseteq AuditEvent
  BY <1>7 DEF CommandInsert, TypeInv, TypeOK
<1>9. commandResult(q) \in Answer
  BY <1>2 DEF commandResult, Row, Answer
<1>10. row' \in [Installations -> Row] /\ hist' \in [Installations -> SUBSET Row]
  <2> HIDE DEF new
  <2> QED BY <1>1, <1>5, <1>6, StoreType DEF TypeInv
<1> QED BY <1>8, <1>9, <1>10 DEF TypeInv, TypeOK, CommandInsert

LEMMA RollbackBatchType ==
  ASSUME TypeInv, NEW q \in Requests, pc[q] = "write", req[q].op = "rollback", RollbackBatch(q)
  PROVE  /\ row' \in [Installations -> Row] /\ hist' \in [Installations -> SUBSET Row]
         /\ audit' \subseteq AuditEvent /\ idem' \in [Tenants \X Keys -> IdemRow \cup {None}]
         /\ rollbackResult(q) \in Answer
<1> DEFINE r == req[q]
           next == seen[q].revision + 1
           new == [row[r.inst] EXCEPT !.version = r.target, !.revision = next]
           event == [action |-> "installation.rollback", id |-> q, inst |-> r.inst,
                     revision |-> next, at |-> r.now,
                     before |-> [version |-> seen[q].version, revision |-> seen[q].revision],
                     after |-> [version |-> r.target, revision |-> next]]
           record == [hash |-> rollbackRequestHash(r), result |-> rollbackResult(q),
                      expires |-> adminIdempotencyExpiry(r.now)]
<1>1. r \in RollbackRequest(Nat, Nat) /\ r.inst \in Installations
  BY RequestKinds DEF TypeInv, PhaseOK
<1>2. seen[q] \in Row /\ row[r.inst] \in Row
  BY <1>1 DEF TypeInv, PhaseOK, TypeOK
<1>3. new \in Row
  <2>1. r.target \in Versions /\ next \in Nat
    BY <1>1, <1>2 DEF RollbackRequest, Row
  <2> HIDE DEF next
  <2> QED BY <1>2, <2>1, SetVersion
<1>4. Store(r.inst, new)
  BY DEF RollbackBatch
<1>5. event \in AuditEvent
  BY <1>1, <1>2 DEF AuditEvent, Row, RollbackRequest
<1>6. audit' \subseteq AuditEvent
  BY <1>5 DEF RollbackBatch, TypeInv, TypeOK
<1>7. rollbackResult(q) \in RolledBack
  BY <1>1, <1>2 DEF rollbackResult, RolledBack, Row, RollbackRequest
<1>8. record \in IdemRow
  BY <1>1, <1>7, ConstantsAssumption
     DEF IdemRow, rollbackRequestHash, Fingerprint, adminIdempotencyExpiry, RollbackRequest
<1>9. idem' \in [Tenants \X Keys -> IdemRow \cup {None}]
  BY <1>8 DEF RollbackBatch, TypeInv, TypeOK
<1>10. row' \in [Installations -> Row] /\ hist' \in [Installations -> SUBSET Row]
  <2> HIDE DEF new
  <2> QED BY <1>1, <1>3, <1>4, StoreType DEF TypeInv
<1> QED BY <1>6, <1>7, <1>9, <1>10 DEF Answer

LEMMA DirectWriteType ==
  ASSUME TypeInv, NEW q \in Requests, WriteDirect(q)
  PROVE  \E new \in Row : /\ Store(req[q].inst, new)
                          /\ new.revision = row[req[q].inst].revision + 1
<1> DEFINE r == req[q]
           x == row[r.inst]
           n == x.revision + 1
<1>1. r.op \in {"config", "apiRollback", "setEnabled", "setPriority"}
  BY DEF WriteDirect
<1>2. r \in DirectRequest /\ r.inst \in Installations
  BY <1>1, RequestKinds DEF TypeInv, PhaseOK, WriteDirect
<1>3. seen[q] \in Row /\ x \in Row
  BY <1>2 DEF TypeInv, PhaseOK, TypeOK, WriteDirect
<1>4. seen[q].version \in Versions /\ n \in Nat
  BY <1>3 DEF Row
<1>5. CASE r.op = "config"
  <2> DEFINE new == [x EXCEPT !.config = seen[q].version, !.revision = n]
  <2>1. new \in Row /\ new.revision = n
    <3>2. new = [enabled |-> x.enabled, priority |-> x.priority, version |-> x.version, config |-> seen[q].version, revision |-> n]
          /\ new \in Row
      BY <1>3, <1>4, SetConfig, Zenon
    <3> HIDE DEF new
    <3> QED BY <3>2
  <2>2. Store(r.inst, new)
    BY <1>5 DEF WriteDirect, updateInstallationConfig
  <2> HIDE DEF new
  <2> QED BY <2>1, <2>2
<1>6. CASE r.op = "apiRollback"
  <2> DEFINE new == [x EXCEPT !.version = r.target, !.revision = n]
  <2>1. new \in Row /\ new.revision = n
    <3>1. r.target \in Versions
      BY <1>2, <1>6 DEF DirectRequest
    <3>2. new = [enabled |-> x.enabled, priority |-> x.priority, version |-> r.target, config |-> x.config, revision |-> n]
          /\ new \in Row
      BY <1>3, <1>4, <3>1, SetVersion, Zenon
    <3> HIDE DEF new
    <3> QED BY <3>2
  <2>2. Store(r.inst, new)
    BY <1>6 DEF WriteDirect, updateInstallationVersion
  <2> HIDE DEF new
  <2> QED BY <2>1, <2>2
<1>7. CASE r.op = "setEnabled"
  <2> DEFINE new == [x EXCEPT !.enabled = r.enabled, !.revision = n]
  <2>1. new \in Row /\ new.revision = n
    <3>1. r.enabled \in BOOLEAN
      BY <1>2, <1>7 DEF DirectRequest
    <3>2. new = [enabled |-> r.enabled, priority |-> x.priority, version |-> x.version, config |-> x.config, revision |-> n]
          /\ new \in Row
      BY <1>3, <1>4, <3>1, SetEnabled, Zenon
    <3> HIDE DEF new
    <3> QED BY <3>2
  <2>2. Store(r.inst, new)
    BY <1>7 DEF WriteDirect, setInstallationEnabled
  <2> HIDE DEF new
  <2> QED BY <2>1, <2>2
<1>8. CASE r.op = "setPriority"
  <2> DEFINE new == [x EXCEPT !.priority = r.priority, !.revision = n]
  <2>1. new \in Row /\ new.revision = n
    <3>1. r.priority \in Priorities
      BY <1>2, <1>8 DEF DirectRequest
    <3>2. new = [enabled |-> x.enabled, priority |-> r.priority, version |-> x.version, config |-> x.config, revision |-> n]
          /\ new \in Row
      BY <1>3, <1>4, <3>1, SetPriority, Zenon
    <3> HIDE DEF new
    <3> QED BY <3>2
  <2>2. Store(r.inst, new)
    BY <1>8 DEF WriteDirect, updateInstallationPriority
  <2> HIDE DEF new
  <2> QED BY <2>1, <2>2
<1> QED BY <1>1, <1>5, <1>6, <1>7, <1>8

-----------------------------------------------------------------------------
(* Every step keeps the types.                                             *)
LEMMA StepType ==
  ASSUME TypeInv, NEW q \in Requests, Step(q)
  PROVE  TypeInv'
<1> USE DEF TypeInv
<1>0. /\ row \in [Installations -> Row] /\ hist \in [Installations -> SUBSET Row]
      /\ audit \subseteq AuditEvent /\ idem \in [Tenants \X Keys -> IdemRow \cup {None}]
      /\ seen \in [Requests -> Row \cup {None}]
  BY DEF TypeOK
<1>1. CASE Begin(q)
  BY <1>1, BeginType
<1>2. CASE WriteCommand(q)
  <2>1. CASE CommandInsert(q) /\ (Finish(q, commandResult(q)) \/ Continue(q, "catchRow"))
    BY <1>0, <1>2, <2>1, CommandInsertType, LaterType DEF WriteCommand
  <2>2. CASE UnchangedTables /\ Continue(q, "catchRow")
    BY <1>0, <1>2, <2>2, LaterType DEF WriteCommand, UnchangedTables
  <2> QED BY <1>2, <2>1, <2>2 DEF WriteCommand
<1>3. CASE CatchCommand(q)
  <2>1. req[q].inst \in Installations
    BY <1>3, RequestKinds DEF CatchCommand, PhaseOK
  <2>2. readCommandRow(req[q]) \in Row \cup {None}
    BY <2>1, RowReads
  <2>3. \E a \in Answer : Finish(q, a)
    BY <1>3, <2>2, PlainAnswers DEF CatchCommand, Row
  <2> QED BY <1>0, <1>3, <2>3, LaterType DEF CatchCommand, UnchangedTables
<1>4. CASE ReadRollbackRow(q)
  <2> DEFINE current == readRollbackRow(req[q])
  <2>1. req[q].inst \in Installations
    BY <1>4, RequestKinds DEF ReadRollbackRow, PhaseOK
  <2>2. current \in Row \cup {None}
    BY <2>1, RowReads
  <2>3. /\ seen' \in [Requests -> Row \cup {None}] /\ seen'[q] = current
        /\ \A p \in Requests : p # q => seen'[p] = seen[p]
    BY <1>0, <1>4, <2>2 DEF ReadRollbackRow
  <2>4. current # None => current.revision \in Nat
    BY <2>2 DEF Row
  <2>5. \/ \E a \in Answer : Finish(q, a)
        \/ Continue(q, "write") /\ current # None
    BY <1>4, <2>4, PlainAnswers DEF ReadRollbackRow
  <2> QED BY <1>0, <1>4, <2>2, <2>3, <2>5, LaterType DEF ReadRollbackRow, UnchangedTables
<1>5. CASE WriteRollback(q)
  <2>1. CASE RollbackBatch(q) /\ (Finish(q, rollbackResult(q)) \/ Continue(q, "catchReplay"))
    BY <1>0, <1>5, <2>1, RollbackBatchType, LaterType DEF WriteRollback
  <2>2. CASE UnchangedTables /\ Continue(q, "catchReplay")
    BY <1>0, <1>5, <2>2, LaterType DEF WriteRollback, UnchangedTables
  <2> QED BY <1>5, <2>1, <2>2 DEF WriteRollback
<1>6. CASE CatchRollbackReplay(q)
  <2>1. req[q] \in RollbackRequest(Nat, Nat) /\ req[q].op = "rollback"
    BY <1>6, RequestKinds DEF CatchRollbackReplay, PhaseOK
  <2>2. (\E a \in Answer : Finish(q, a)) \/ Continue(q, "catchRow")
    BY <1>6, <2>1, ReplayType DEF CatchRollbackReplay
  <2> QED BY <1>0, <1>6, <2>1, <2>2, LaterType DEF CatchRollbackReplay, UnchangedTables
<1>7. CASE CatchRollbackRow(q)
  <2>1. req[q].inst \in Installations
    BY <1>7, RequestKinds DEF CatchRollbackRow, PhaseOK
  <2>2. readRollbackRow(req[q]) \in Row \cup {None}
    BY <2>1, RowReads
  <2>3. \E a \in Answer : Finish(q, a)
    BY <1>7, <2>2, PlainAnswers DEF CatchRollbackRow, Row
  <2> QED BY <1>0, <1>7, <2>3, LaterType DEF CatchRollbackRow, UnchangedTables
<1>8. CASE WriteDirect(q)
  <2>1. req[q].inst \in Installations
    BY <1>8, RequestKinds DEF WriteDirect, PhaseOK
  <2>2. row' \in [Installations -> Row] /\ hist' \in [Installations -> SUBSET Row]
    BY <1>8, <2>1, DirectWriteType, StoreType
  <2>3. \E a \in Answer : Finish(q, a)
    BY <1>8, PlainAnswers DEF WriteDirect
  <2> QED BY <1>0, <1>8, <2>2, <2>3, LaterType DEF WriteDirect
<1>9. CASE FailDirect(q)
  <2>1. \E a \in Answer : Finish(q, a)
    BY <1>9, PlainAnswers DEF FailDirect
  <2> QED BY <1>0, <1>9, <2>1, LaterType DEF FailDirect, UnchangedTables
<1> QED BY <1>1, <1>2, <1>3, <1>4, <1>5, <1>6, <1>7, <1>8, <1>9 DEF Step

LEMMA NextType == TypeInv /\ [Next]_vars => TypeInv'
<1> SUFFICES ASSUME TypeInv, [Next]_vars PROVE TypeInv'
  OBVIOUS
<1>1. CASE Tick
  BY <1>1 DEF Tick, TypeInv, TypeOK, PhaseOK
<1>2. CASE UNCHANGED vars
  BY <1>2 DEF vars, TypeInv, TypeOK, PhaseOK
<1> QED BY <1>1, <1>2, StepType DEF Next

(* The tables, the requests in flight and the answers keep their types.    *)
THEOREM TypeCorrect == Spec => []TypeOK
<1>1. Spec => []TypeInv
  BY InitType, NextType, PTL DEF Spec
<1> QED BY <1>1, PTL DEF TypeInv

-----------------------------------------------------------------------------
(* A write that bumps the revision extends the history of its row.         *)
LEMMA StoreHistory ==
  ASSUME TypeOK, HistoryInv, NEW i \in Installations, NEW new \in Row,
         new.revision = row[i].revision + 1, Store(i, new)
  PROVE  /\ HistoryInv'
         /\ new \in hist'[i]
         /\ \A j \in Installations : hist[j] \subseteq hist'[j]
<1>1. row'[i] = new /\ hist'[i] = hist[i] \cup {new}
      /\ \A j \in Installations : j # i => row'[j] = row[j] /\ hist'[j] = hist[j]
  BY DEF Store, TypeOK
<1>2. \A x \in hist[i] : x.revision \in Nat /\ x.revision <= row[i].revision
  BY DEF HistoryInv, RowIsNewest, TypeOK, Row
<1>3. row[i].revision \in Nat
  BY DEF TypeOK, Row
<1>4. RowIsNewest'
  BY <1>1, <1>2, <1>3 DEF HistoryInv, RowIsNewest
<1>5. RevisionNamesState'
  BY <1>1, <1>2, <1>3 DEF HistoryInv, RevisionNamesState
<1> QED BY <1>1, <1>4, <1>5 DEF HistoryInv

(* Events keep their witnesses while the history grows.                    *)
LEMMA KeepsAudit ==
  ASSUME TypeOK, AuditIsHistory,
         \A j \in Installations : hist[j] \subseteq hist'[j],
         \A e \in audit' : e \in audit \/ \E b, a \in hist'[e.inst] : Claims(e, b, a)
  PROVE  AuditIsHistory'
<1>1. \A e \in audit : e.inst \in Installations
  BY DEF TypeOK, AuditEvent
<1> QED BY <1>1 DEF AuditIsHistory

HInv == HistoryInv /\ AuditIsHistory

(* The command's trigger compares what the handler read with the row, so   *)
(* the event claims the step the row takes.                                *)
LEMMA CommandHistory ==
  ASSUME TypeInv, HInv, NEW q \in Requests, pc[q] = "write", req[q].op = "command",
         CommandApplies(q), CommandInsert(q)
  PROVE  HInv'
<1> DEFINE r == req[q]
           i == r.inst
           x == row[i]
           before == seen[q]
           after == commandAfter(r, before)
           next == before.revision + 1
           new == [x EXCEPT !.enabled = after.enabled, !.priority = after.priority,
                            !.revision = next]
           event == [action |-> "installation.command", id |-> q, inst |-> i,
                     revision |-> next, at |-> clock,
                     before |-> commandState(before, before.revision),
                     after |-> commandState(after, next)]
<1>1. r \in CommandRequest(Nat) /\ i \in Installations
  BY RequestKinds DEF TypeInv, PhaseOK
<1>2. before \in Row /\ x \in Row
  BY <1>1 DEF TypeInv, PhaseOK, TypeOK
<1>3. after.enabled \in BOOLEAN /\ after.priority \in Priorities /\ next \in Nat
  BY <1>1, <1>2 DEF CommandRequest, commandAfter, Row
<1>4. /\ new = [enabled |-> after.enabled, priority |-> after.priority, version |-> x.version,
                config |-> x.config, revision |-> next]
      /\ new \in Row
  <2> DEFINE e == after.enabled
             m == after.priority
  <2>1. new = [x EXCEPT !.enabled = e, !.priority = m, !.revision = next]
    OBVIOUS
  <2>2. e \in BOOLEAN /\ m \in Priorities /\ next \in Nat /\ x \in Row
    BY <1>2, <1>3
  <2> HIDE DEF x, e, m, next, after
  <2>3. /\ [x EXCEPT !.enabled = e, !.priority = m, !.revision = next] =
             [enabled |-> e, priority |-> m, version |-> x.version,
              config |-> x.config, revision |-> next]
        /\ [x EXCEPT !.enabled = e, !.priority = m, !.revision = next] \in Row
    BY <2>2, SetCommandState
  <2>4. /\ new = [enabled |-> e, priority |-> m, version |-> x.version,
                  config |-> x.config, revision |-> next]
        /\ new \in Row
    BY <2>1, <2>3
  <2> QED BY <2>4 DEF e, m
<1>5. x.revision = before.revision /\ x.enabled = before.enabled /\ x.priority = before.priority
  BY DEF CommandApplies
<1>6. Store(i, new) /\ audit' = audit \cup {event}
  BY DEF CommandInsert
<1> HIDE DEF new
<1>7. /\ HistoryInv' /\ new \in hist'[i]
      /\ \A j \in Installations : hist[j] \subseteq hist'[j]
  BY <1>1, <1>2, <1>4, <1>5, <1>6, StoreHistory DEF TypeInv, HInv
<1>8. x \in hist'[i]
  BY <1>1, <1>7 DEF HInv, HistoryInv, RowIsNewest
<1>9. Claims(event, x, new)
  <2> HIDE DEF after
  <2> QED BY <1>2, <1>4, <1>5 DEF Claims, commandState, Row
<1>10. \E b, a \in hist'[event.inst] : Claims(event, b, a)
  BY <1>7, <1>8, <1>9
<1> HIDE DEF event
<1> QED BY <1>6, <1>7, <1>10, KeepsAudit DEF HInv, TypeInv

LEMMA RollbackHistory ==
  ASSUME TypeInv, HInv, NEW q \in Requests, pc[q] = "write", req[q].op = "rollback",
         RollbackApplies(q), RollbackBatch(q)
  PROVE  HInv'
<1> DEFINE r == req[q]
           i == r.inst
           x == row[i]
           next == seen[q].revision + 1
           new == [x EXCEPT !.version = r.target, !.revision = next]
           event == [action |-> "installation.rollback", id |-> q, inst |-> i,
                     revision |-> next, at |-> r.now,
                     before |-> [version |-> seen[q].version, revision |-> seen[q].revision],
                     after |-> [version |-> r.target, revision |-> next]]
<1>1. r \in RollbackRequest(Nat, Nat) /\ i \in Installations
  BY RequestKinds DEF TypeInv, PhaseOK
<1>2. seen[q] \in Row /\ x \in Row
  BY <1>1 DEF TypeInv, PhaseOK, TypeOK
<1>3. r.target \in Versions /\ next \in Nat
  BY <1>1, <1>2 DEF RollbackRequest, Row
<1>4. /\ new = [enabled |-> x.enabled, priority |-> x.priority, version |-> r.target,
                config |-> x.config, revision |-> next]
      /\ new \in Row
  <2> HIDE DEF next
  <2> QED BY <1>2, <1>3, SetVersion, Zenon
<1>5. x.revision = seen[q].revision /\ x.version = seen[q].version
  BY DEF RollbackApplies
<1>6. Store(i, new) /\ audit' = audit \cup {event}
  BY DEF RollbackBatch
<1> HIDE DEF new
<1>7. /\ HistoryInv' /\ new \in hist'[i]
      /\ \A j \in Installations : hist[j] \subseteq hist'[j]
  BY <1>1, <1>2, <1>4, <1>5, <1>6, StoreHistory DEF TypeInv, HInv
<1>8. x \in hist'[i]
  BY <1>1, <1>7 DEF HInv, HistoryInv, RowIsNewest
<1>9. Claims(event, x, new)
  BY <1>2, <1>4, <1>5 DEF Claims, Row
<1>10. \E b, a \in hist'[event.inst] : Claims(event, b, a)
  BY <1>7, <1>8, <1>9
<1> HIDE DEF event
<1> QED BY <1>6, <1>7, <1>10, KeepsAudit DEF HInv, TypeInv

LEMMA InitHistory == Init => HInv
<1> SUFFICES ASSUME Init PROVE HInv
  OBVIOUS
<1>1. TypeOK
  BY InitType DEF TypeInv
<1>2. \A i \in Installations : hist[i] = {row[i]} /\ row[i].revision \in Nat
  BY <1>1 DEF Init, TypeOK, Row
<1>3. HistoryInv
  BY <1>2 DEF HistoryInv, RowIsNewest, RevisionNamesState
<1>4. AuditIsHistory
  BY DEF Init, AuditIsHistory
<1> QED BY <1>3, <1>4 DEF HInv

LEMMA NextHistory == TypeInv /\ HInv /\ [Next]_vars => HInv'
<1> SUFFICES ASSUME TypeInv, HInv, [Next]_vars PROVE HInv'
  OBVIOUS
<1>1. ASSUME UNCHANGED <<row, audit, hist>> PROVE HInv'
  BY <1>1 DEF HInv, HistoryInv, RowIsNewest, RevisionNamesState, AuditIsHistory
<1>2. CASE Tick \/ UNCHANGED vars
  BY <1>1, <1>2 DEF Tick, vars
<1>3. ASSUME NEW q \in Requests, Step(q) PROVE HInv'
  <2>1. CASE UnchangedTables
    BY <1>1, <2>1 DEF UnchangedTables
  <2>2. CASE Begin(q)
    BY <2>1, <2>2 DEF Begin, BeginCommand, BeginRollback, BeginDirect
  <2>3. CASE WriteCommand(q)
    BY <2>1, <2>3, CommandHistory DEF WriteCommand
  <2>4. CASE WriteRollback(q)
    BY <2>1, <2>4, RollbackHistory DEF WriteRollback
  <2>5. CASE WriteDirect(q)
    <3>1. req[q].inst \in Installations
      BY <2>5, RequestKinds DEF WriteDirect, TypeInv, PhaseOK
    <3>2. HistoryInv' /\ \A j \in Installations : hist[j] \subseteq hist'[j]
      BY <2>5, <3>1, DirectWriteType, StoreHistory DEF TypeInv, HInv
    <3>3. audit' = audit
      BY <2>5 DEF WriteDirect
    <3> QED BY <3>2, <3>3, KeepsAudit DEF HInv, TypeInv
  <2>6. CASE CatchCommand(q) \/ ReadRollbackRow(q) \/ CatchRollbackReplay(q)
             \/ CatchRollbackRow(q) \/ FailDirect(q)
    BY <2>1, <2>6 DEF CatchCommand, ReadRollbackRow, CatchRollbackReplay, CatchRollbackRow,
                      FailDirect
  <2> QED BY <1>3, <2>2, <2>3, <2>4, <2>5, <2>6 DEF Step
<1> QED BY <1>2, <1>3 DEF Next

LEMMA HistoryInductive == Spec => [](TypeInv /\ HInv)
  BY InitType, InitHistory, NextType, NextHistory, PTL DEF Spec

(* A revision of an installation names one state, although four unaudited  *)
(* writers and two audited ones race for the row.                          *)
THEOREM RevisionsNameStates == Spec => []RevisionNamesState
  BY HistoryInductive, PTL DEF HInv, HistoryInv

(* No admin audit event is false history: each describes a step its        *)
(* installation really took (admin_audit_events and the triggers of        *)
(* migrations 0002 and 0003).                                              *)
THEOREM AuditTrue == Spec => []AuditIsHistory
  BY HistoryInductive, PTL DEF HInv

-----------------------------------------------------------------------------
(* What callers are told.                                                  *)

(* The request of an audited writer.                                       *)
Audited(r) == r.op \in {"command", "rollback"}

(* The handlers whose write may have been applied.                         *)
PastWrite == {"catchReplay", "catchRow", "done"}

(* What a handler may rely on between its calls.                           *)
FlightIsSound(q) ==
  /\ pc[q] \in {"write", "catchReplay", "catchRow"} /\ Audited(req[q]) =>
       OwnerOf[req[q].inst] = req[q].tenant
  /\ pc[q] = "write" /\ Audited(req[q]) => seen[q].revision = req[q].exp
  /\ pc[q] = "write" /\ req[q].op = "apiRollback" =>
       PluginOf[req[q].target] = PluginOf[FirstVersion[req[q].inst]]
  /\ pc[q] = "catchRow" /\ req[q].op = "rollback" => \A e \in audit : e.id # q

(* The event that backs a rollback's result.                               *)
Backs(e, result, inst, exp, target) ==
  /\ e.id = result.auditId /\ e.inst = inst /\ e.action = "installation.rollback"
  /\ e.before = [version |-> result.from, revision |-> exp]
  /\ e.after = [version |-> target, revision |-> result.revision]

(* Answer a of handler q to request r tells the truth.                     *)
IsTrue(q, r, a) ==
  /\ a.outcome = "updated" /\ a.changed =>
       \E e \in audit : /\ e.id = q /\ e.inst = r.inst /\ e.before.revision = r.exp
                        /\ e.revision = a.revision
  /\ a.outcome = "rolled_back" => \E e \in audit : Backs(e, a, r.inst, r.exp, r.target)
  /\ a.outcome = "conflict" =>
       /\ a.revision # r.exp
       /\ \E x \in hist[r.inst] : x.revision = a.revision
       /\ r.op = "rollback" => \A e \in audit : e.id # q
  /\ Audited(r) /\ OwnerOf[r.inst] # r.tenant =>
       a.outcome \in {"not_found", "idempotency_key_reused"}

AnswerIsSound(q) ==
  answer[q] # None => pc[q] = "done" /\ IsTrue(q, req[q], answer[q])

(* An event was written by a handler on its way, for its own tenant; the   *)
(* key of a rollback is remembered for the retention period.               *)
EventIsSound(e) ==
  LET r == req[e.id] rec == idem[<<r.tenant, r.key>>] IN
  /\ pc[e.id] \in PastWrite /\ Audited(r)
  /\ e.inst = r.inst /\ OwnerOf[r.inst] = r.tenant
  /\ r.op = "rollback" => e.at = r.now /\ rec # None /\ e.at + Retention <= rec.expires

(* A remembered result is of the key's tenant, and was applied.            *)
KeyIsSound(t, k) ==
  LET rec == idem[<<t, k>>] IN
  rec # None =>
    /\ OwnerOf[rec.hash.inst] = t
    /\ \E e \in audit : Backs(e, rec.result, rec.hash.inst, rec.hash.exp, rec.hash.target)

CallersInv ==
  /\ \A q \in Requests : FlightIsSound(q) /\ AnswerIsSound(q)
  /\ \A e \in audit : EventIsSound(e)
  /\ \A t \in Tenants, k \in Keys : KeyIsSound(t, k)
  /\ KeyAppliesOnce /\ PluginIsFixed

(* The invariant is what callers are promised, and more.                   *)
LEMMA CallersImplied == TypeInv /\ CallersInv => CallersAreServedHonestly
<1> SUFFICES ASSUME TypeInv, CallersInv PROVE CallersAreServedHonestly
  OBVIOUS
<1>1. \A q \in Requests : answer[q] # None => IsTrue(q, req[q], answer[q])
  BY DEF CallersInv, AnswerIsSound
<1>2. AnswerIsBacked
  BY <1>1 DEF AnswerIsBacked, IsTrue, Backs
<1>3. ConflictIsHonest
  BY <1>1 DEF ConflictIsHonest, IsTrue
<1>4. TenantIsolation
  <2>1. \A e \in audit : OwnerOf[e.inst] = req[e.id].tenant
    BY DEF CallersInv, EventIsSound
  <2>2. \A q \in Requests : answer[q] # None /\ Audited(req[q])
                            /\ OwnerOf[req[q].inst] # req[q].tenant =>
          answer[q].outcome \in {"not_found", "idempotency_key_reused"}
    BY <1>1 DEF IsTrue
  <2> QED BY <2>1, <2>2 DEF TenantIsolation, Audited
<1> QED BY <1>2, <1>3, <1>4 DEF CallersAreServedHonestly, CallersInv

LEMMA InitCallers == Init => CallersInv
<1> SUFFICES ASSUME Init PROVE CallersInv
  OBVIOUS
<1>1. \A q \in Requests : FlightIsSound(q) /\ AnswerIsSound(q)
  BY DEF Init, FlightIsSound, AnswerIsSound
<1>2. \A t \in Tenants, k \in Keys : KeyIsSound(t, k)
  BY DEF Init, KeyIsSound
<1>3. KeyAppliesOnce /\ \A e \in audit : EventIsSound(e)
  BY DEF Init, KeyAppliesOnce
<1>4. PluginIsFixed
  BY DEF Init, PluginIsFixed
<1> QED BY <1>1, <1>2, <1>3, <1>4 DEF CallersInv

(* A handler that does not move keeps its word while the history and the   *)
(* audit log grow by the work of others.                                   *)
LEMMA Bystander ==
  ASSUME TypeInv, NEW p \in Requests, FlightIsSound(p), AnswerIsSound(p),
         req'[p] = req[p], pc'[p] = pc[p], seen'[p] = seen[p], answer'[p] = answer[p],
         audit \subseteq audit', \A e \in audit' : e \in audit \/ e.id # p,
         \A j \in Installations : hist[j] \subseteq hist'[j]
  PROVE  FlightIsSound(p)' /\ AnswerIsSound(p)'
<1>1. FlightIsSound(p)'
  BY DEF FlightIsSound
<1>2. ASSUME answer'[p] # None PROVE pc'[p] = "done" /\ IsTrue(p, req[p], answer[p])'
  <2>1. pc[p] = "done" /\ IsTrue(p, req[p], answer[p]) /\ req[p].inst \in Installations
    BY <1>2, RequestKinds DEF AnswerIsSound, TypeInv, PhaseOK
  <2>2. hist[req[p].inst] \subseteq hist'[req[p].inst]
    BY <2>1
  <2> DEFINE r == req[p]
             a == answer[p]
  <2>3. req'[p] = r /\ answer'[p] = a
    OBVIOUS
  <2>4. IsTrue(p, r, a) /\ hist[r.inst] \subseteq hist'[r.inst]
    BY <2>1, <2>2
  <2> HIDE DEF r, a
  <2>5. /\ a.outcome = "updated" /\ a.changed =>
             \E e \in audit' : /\ e.id = p /\ e.inst = r.inst /\ e.before.revision = r.exp
                               /\ e.revision = a.revision
        /\ a.outcome = "rolled_back" => \E e \in audit' : Backs(e, a, r.inst, r.exp, r.target)
    BY <2>4, Zenon DEF IsTrue
  <2>6. /\ a.outcome = "conflict" =>
             /\ a.revision # r.exp
             /\ \E x \in hist'[r.inst] : x.revision = a.revision
             /\ r.op = "rollback" => \A e \in audit' : e.id # p
        /\ Audited(r) /\ OwnerOf[r.inst] # r.tenant =>
             a.outcome \in {"not_found", "idempotency_key_reused"}
    BY <2>4 DEF IsTrue
  <2> QED BY <2>1, <2>3, <2>5, <2>6 DEF IsTrue, Backs, Audited
<1> QED BY <1>1, <1>2 DEF AnswerIsSound

(* A step of handler q that leaves the tables alone: what is left to show  *)
(* is about q.                                                             *)
LEMMA QuietStep ==
  ASSUME TypeInv, CallersInv, NEW q \in Requests, UnchangedTables,
         \A p \in Requests : p # q => /\ req'[p] = req[p] /\ pc'[p] = pc[p]
                                      /\ seen'[p] = seen[p] /\ answer'[p] = answer[p],
         pc[q] # "idle" => req'[q] = req[q],
         pc[q] \in PastWrite => pc'[q] \in PastWrite,
         FlightIsSound(q)', AnswerIsSound(q)'
  PROVE  CallersInv'
<1>1. audit' = audit /\ hist' = hist /\ idem' = idem /\ row' = row
  BY DEF UnchangedTables
<1>2. \A p \in Requests : (FlightIsSound(p) /\ AnswerIsSound(p))'
  <2> SUFFICES ASSUME NEW p \in Requests, p # q PROVE (FlightIsSound(p) /\ AnswerIsSound(p))'
    OBVIOUS
  <2>1. FlightIsSound(p) /\ AnswerIsSound(p)
    BY DEF CallersInv
  <2> QED BY <1>1, <2>1, Bystander
<1>3. \A e \in audit : e.id \in Requests /\ EventIsSound(e)
  BY DEF TypeInv, TypeOK, AuditEvent, CallersInv
<1>4. \A e \in audit : req'[e.id] = req[e.id] /\ pc'[e.id] \in PastWrite
  BY <1>3 DEF EventIsSound, PastWrite
<1>5. \A e \in audit : EventIsSound(e)'
  BY <1>1, <1>3, <1>4 DEF EventIsSound
<1>6. \A t \in Tenants, k \in Keys : KeyIsSound(t, k)'
  BY <1>1 DEF CallersInv, KeyIsSound, Backs
<1>7. KeyAppliesOnce'
  BY <1>1, <1>4 DEF CallersInv, KeyAppliesOnce, SameKey
<1>8. PluginIsFixed'
  BY <1>1 DEF CallersInv, PluginIsFixed
<1> QED BY <1>1, <1>2, <1>5, <1>6, <1>7, <1>8 DEF CallersInv

(* A handler ends with a true answer.                                      *)
LEMMA QuietFinish ==
  ASSUME TypeInv, CallersInv, NEW q \in Requests, NEW r, NEW a,
         UnchangedTables, Finish(q, a), req' = [req EXCEPT ![q] = r],
         pc[q] # "idle" => r = req[q],
         \A p \in Requests : p # q => seen'[p] = seen[p],
         IsTrue(q, r, a)
  PROVE  CallersInv'
<1>1. /\ req'[q] = r /\ pc'[q] = "done" /\ answer'[q] = a
      /\ \A p \in Requests : p # q => req'[p] = req[p] /\ pc'[p] = pc[p] /\ answer'[p] = answer[p]
  BY DEF Finish, TypeInv, TypeOK
<1>2. FlightIsSound(q)'
  BY <1>1 DEF FlightIsSound
<1>3. audit' = audit /\ hist' = hist
  BY DEF UnchangedTables
<1>4. IsTrue(q, r, a)'
  BY <1>3 DEF IsTrue, Backs, Audited
<1>5. AnswerIsSound(q)'
  BY <1>1, <1>4 DEF AnswerIsSound
<1> QED BY <1>1, <1>2, <1>5, QuietStep DEF PastWrite

(* A handler goes on to its next call; it has not answered.                *)
LEMMA QuietContinue ==
  ASSUME TypeInv, CallersInv, NEW q \in Requests, NEW r, NEW ph,
         UnchangedTables, Continue(q, ph), req' = [req EXCEPT ![q] = r],
         pc[q] # "idle" => r = req[q],
         pc[q] # "done", pc[q] \in PastWrite => ph \in PastWrite,
         \A p \in Requests : p # q => seen'[p] = seen[p],
         FlightIsSound(q)'
  PROVE  CallersInv'
<1>1. /\ req'[q] = r /\ pc'[q] = ph
      /\ \A p \in Requests : p # q => req'[p] = req[p] /\ pc'[p] = pc[p]
      /\ answer' = answer
  BY DEF Continue, TypeInv, TypeOK
<1>2. answer[q] = None
  BY DEF CallersInv, AnswerIsSound
<1>3. AnswerIsSound(q)'
  BY <1>1, <1>2 DEF AnswerIsSound
<1> QED BY <1>1, <1>3, QuietStep

(* The answers that promise nothing are true.                              *)
LEMMA PlainTruths ==
  ASSUME NEW q, NEW r
  PROVE  /\ \A o \in {"not_found", "idempotency_key_reused"} : IsTrue(q, r, [outcome |-> o])
         /\ ~(Audited(r) /\ OwnerOf[r.inst] # r.tenant) =>
              /\ \A o \in {"error", "written"} : IsTrue(q, r, [outcome |-> o])
              /\ \A n : /\ IsTrue(q, r, [outcome |-> "same_version", revision |-> n])
                        /\ IsTrue(q, r, [outcome |-> "updated", revision |-> n, changed |-> FALSE])
<1>1. \A o \in {"not_found", "idempotency_key_reused"} : IsTrue(q, r, [outcome |-> o])
  BY DEF IsTrue
<1>2. ASSUME ~(Audited(r) /\ OwnerOf[r.inst] # r.tenant)
      PROVE  /\ \A o \in {"error", "written"} : IsTrue(q, r, [outcome |-> o])
             /\ \A n : IsTrue(q, r, [outcome |-> "same_version", revision |-> n])
  BY <1>2 DEF IsTrue
<1>3. ASSUME ~(Audited(r) /\ OwnerOf[r.inst] # r.tenant), NEW n
      PROVE  IsTrue(q, r, [outcome |-> "updated", revision |-> n, changed |-> FALSE])
  <2> DEFINE a == [outcome |-> "updated", revision |-> n, changed |-> FALSE]
  <2>1. a.outcome = "updated" /\ ~a.changed
    BY Zenon
  <2> HIDE DEF a
  <2>2. a.outcome # "rolled_back" /\ a.outcome # "conflict"
    BY <2>1
  <2>3. IsTrue(q, r, a)
    BY <1>3, <2>1, <2>2, Zenon DEF IsTrue
  <2> QED BY <2>3, Zenon DEF a
<1> QED BY <1>1, <1>2, <1>3

(* A conflict names a revision of the row, which its reader was allowed    *)
(* to read.                                                                *)
LEMMA ConflictTruth ==
  ASSUME HInv, NEW q, NEW r, r.inst \in Installations, OwnerOf[r.inst] = r.tenant,
         row[r.inst].revision # r.exp,
         r.op = "rollback" => \A e \in audit : e.id # q
  PROVE  IsTrue(q, r, [outcome |-> "conflict", revision |-> row[r.inst].revision])
<1>1. row[r.inst] \in hist[r.inst]
  BY DEF HInv, HistoryInv, RowIsNewest
<1> QED BY <1>1 DEF IsTrue

(* A replayed record is the key's own: it reports a rollback its tenant    *)
(* asked for, and only for the same request.                               *)
LEMMA ReplayTruth ==
  ASSUME TypeInv, CallersInv, NEW q, NEW r \in RollbackRequest(Nat, Nat),
         readIdempotencyRecord(r) # None
  PROVE  IsTrue(q, r, resolveReplay(readIdempotencyRecord(r), r))
<1> DEFINE rec == idem[<<r.tenant, r.key>>]
<1>1. rec # None /\ readIdempotencyRecord(r) = rec
  BY DEF readIdempotencyRecord
<1>2. r.tenant \in Tenants /\ r.key \in Keys
  BY DEF RollbackRequest
<1>3. rec \in IdemRow
  BY <1>1, <1>2 DEF TypeInv, TypeOK
<1>4. KeyIsSound(r.tenant, r.key)
  BY <1>2 DEF CallersInv
<1>5. CASE rec.hash # rollbackRequestHash(r)
  BY <1>1, <1>5, PlainTruths DEF resolveReplay
<1>6. CASE rec.hash = rollbackRequestHash(r)
  <2> DEFINE a == rec.result
  <2>1. resolveReplay(readIdempotencyRecord(r), r) = a
    BY <1>1, <1>6 DEF resolveReplay
  <2>2. a.outcome = "rolled_back"
    BY <1>3 DEF IdemRow, RolledBack
  <2>3. rec.hash.inst = r.inst /\ rec.hash.target = r.target /\ rec.hash.exp = r.exp
    BY <1>6 DEF rollbackRequestHash
  <2>4. OwnerOf[r.inst] = r.tenant /\ \E e \in audit : Backs(e, a, r.inst, r.exp, r.target)
    BY <1>1, <1>4, <2>3 DEF KeyIsSound
  <2> HIDE DEF a
  <2>5. IsTrue(q, r, a)
    BY <2>2, <2>4 DEF IsTrue
  <2> QED BY <2>1, <2>5
<1> QED BY <1>5, <1>6

(* A handler that has not come to its write has no event.                  *)
LEMMA NotYetWritten ==
  ASSUME CallersInv, NEW q, pc[q] \notin PastWrite
  PROVE  \A e \in audit : e.id # q
  BY DEF CallersInv, EventIsSound

LEMMA BeginCallers ==
  ASSUME TypeInv, HInv, CallersInv, NEW q \in Requests, Begin(q)
  PROVE  CallersInv'
<1>1. \A r : Accept(q, r) => pc[q] = "idle" /\ req' = [req EXCEPT ![q] = r] /\ req'[q] = r
  BY DEF Accept, TypeInv, TypeOK
<1>2. ASSUME NEW r \in CommandRequest(0..MaxRevision), Accept(q, r), BeginCommand(q, r)
      PROVE  CallersInv'
  <2> DEFINE current == readCommandRow(r)
  <2>1. r.inst \in Installations /\ r.op = "command"
    BY <1>2 DEF CommandRequest
  <2>2. /\ seen'[q] = current /\ UnchangedTables
        /\ \A p \in Requests : p # q => seen'[p] = seen[p]
    BY <1>2 DEF BeginCommand, TypeInv, TypeOK
  <2>3. current # None => current = row[r.inst] /\ OwnerOf[r.inst] = r.tenant
    BY DEF readCommandRow
  <2>4. CASE current = None /\ Finish(q, [outcome |-> "not_found"])
    BY <1>1, <1>2, <2>2, <2>4, PlainTruths, QuietFinish
  <2>5. CASE /\ current # None /\ current.revision # r.exp
             /\ Finish(q, [outcome |-> "conflict", revision |-> current.revision])
    <3>1. IsTrue(q, r, [outcome |-> "conflict", revision |-> current.revision])
      BY <2>1, <2>3, <2>5, ConflictTruth
    <3> QED BY <1>1, <1>2, <2>2, <2>5, <3>1, QuietFinish
  <2>6. CASE /\ current # None
             /\ Finish(q, [outcome |-> "updated", revision |-> r.exp, changed |-> FALSE])
    <3>1. IsTrue(q, r, [outcome |-> "updated", revision |-> r.exp, changed |-> FALSE])
      BY <2>3, <2>6, PlainTruths
    <3> QED BY <1>1, <1>2, <2>2, <2>6, <3>1, QuietFinish
  <2>7. CASE current # None /\ current.revision = r.exp /\ Continue(q, "write")
    <3>1. req'[q] = r /\ pc'[q] = "write"
      BY <1>1, <1>2, <2>7 DEF Continue, TypeInv, TypeOK
    <3>2. FlightIsSound(q)'
      BY <2>1, <2>2, <2>3, <2>7, <3>1 DEF FlightIsSound, Audited
    <3> QED BY <1>1, <1>2, <2>2, <2>7, <3>2, QuietContinue DEF PastWrite
  <2> QED BY <1>2, <2>4, <2>5, <2>6, <2>7 DEF BeginCommand
<1>3. ASSUME NEW r \in RollbackRequest(0..MaxRevision, {clock}), Accept(q, r), BeginRollback(q, r)
      PROVE  CallersInv'
  <2> DEFINE replay == readIdempotencyRecord(r)
  <2>1. r \in RollbackRequest(Nat, Nat) /\ r.op = "rollback"
    BY <1>3, ConstantsAssumption DEF RollbackRequest, TypeInv, TypeOK
  <2>2. UnchangedTables /\ seen' = seen
    BY <1>3 DEF BeginRollback
  <2>3. CASE replay # None /\ Finish(q, resolveReplay(replay, r))
    <3>1. IsTrue(q, r, resolveReplay(replay, r))
      BY <2>1, <2>3, ReplayTruth
    <3> QED BY <1>1, <1>3, <2>2, <2>3, <3>1, QuietFinish
  <2>4. CASE Continue(q, "readRow")
    <3>1. req'[q] = r /\ pc'[q] = "readRow"
      BY <1>1, <1>3, <2>4 DEF Continue, TypeInv, TypeOK
    <3>2. FlightIsSound(q)'
      BY <3>1 DEF FlightIsSound
    <3> QED BY <1>1, <1>3, <2>2, <2>4, <3>2, QuietContinue DEF PastWrite
  <2> QED BY <1>3, <2>3, <2>4 DEF BeginRollback
<1>4. ASSUME NEW r \in DirectRequest, Accept(q, r), BeginDirect(q, r)
      PROVE  CallersInv'
  <2>1. r.inst \in Installations /\ ~Audited(r)
    BY <1>4 DEF DirectRequest, Audited
  <2>2. UnchangedTables /\ \A p \in Requests : p # q => seen'[p] = seen[p]
    BY <1>4 DEF BeginDirect, TypeInv, TypeOK
  <2>3. CASE Finish(q, [outcome |-> "not_found"])
    BY <1>1, <1>4, <2>2, <2>3, PlainTruths, QuietFinish
  <2>4. CASE /\ Continue(q, "write")
             /\ r.op = "apiRollback" => PluginOf[r.target] = PluginOf[row[r.inst].version]
    <3>1. req'[q] = r /\ pc'[q] = "write"
      BY <1>1, <1>4, <2>4 DEF Continue, TypeInv, TypeOK
    <3>2. r.op = "apiRollback" => PluginOf[r.target] = PluginOf[FirstVersion[r.inst]]
      BY <2>1, <2>4 DEF CallersInv, PluginIsFixed
    <3>3. FlightIsSound(q)'
      BY <2>1, <3>1, <3>2 DEF FlightIsSound, Audited
    <3> QED BY <1>1, <1>4, <2>2, <2>4, <3>3, QuietContinue DEF PastWrite
  <2> QED BY <1>4, <2>3, <2>4 DEF BeginDirect
<1> QED BY <1>2, <1>3, <1>4 DEF Begin

(* The frame of a handler's later step.                                    *)
LEMMA SameRequest ==
  ASSUME TypeInv, NEW q \in Requests, req' = req
  PROVE  req' = [req EXCEPT ![q] = req[q]]
  BY DEF TypeInv, TypeOK

(* The catch blocks and the read of a rollback.                            *)
LEMMA CatchCallers ==
  ASSUME TypeInv, HInv, CallersInv, NEW q \in Requests,
         \/ CatchCommand(q) \/ ReadRollbackRow(q) \/ CatchRollbackReplay(q)
         \/ CatchRollbackRow(q) \/ FailDirect(q)
  PROVE  CallersInv'
<1> DEFINE r == req[q]
<1>1. UnchangedTables /\ req' = [req EXCEPT ![q] = r]
  BY SameRequest DEF CatchCommand, ReadRollbackRow, CatchRollbackReplay, CatchRollbackRow, FailDirect
<1>2. pc[q] # "idle" => r \in Request /\ r.inst \in Installations
  BY RequestKinds DEF TypeInv, PhaseOK
<1>3. FlightIsSound(q) /\ \A e \in audit : EventIsSound(e)
  BY DEF CallersInv
<1>4. ASSUME pc[q] = "catchRow", Audited(r), NEW latest \in {None, row[r.inst]}, seen' = seen,
             Finish(q, IF latest # None /\ latest.revision # r.exp
                       THEN [outcome |-> "conflict", revision |-> latest.revision]
                       ELSE [outcome |-> "error"])
      PROVE  CallersInv'
  <2>1. OwnerOf[r.inst] = r.tenant /\ (r.op = "rollback" => \A e \in audit : e.id # q)
    BY <1>3, <1>4 DEF FlightIsSound
  <2>2. r.inst \in Installations
    BY <1>2, <1>4
  <2>3. CASE /\ row[r.inst].revision # r.exp
             /\ Finish(q, [outcome |-> "conflict", revision |-> row[r.inst].revision])
    <3>1. IsTrue(q, r, [outcome |-> "conflict", revision |-> row[r.inst].revision])
      BY <2>1, <2>2, <2>3, ConflictTruth
    <3> QED BY <1>1, <1>4, <2>3, <3>1, QuietFinish
  <2>4. CASE Finish(q, [outcome |-> "error"])
    BY <1>1, <1>4, <2>1, <2>4, PlainTruths, QuietFinish
  <2> QED BY <1>4, <2>3, <2>4
<1>5. CASE CatchCommand(q)
  <2>1. readCommandRow(r) \in {None, row[r.inst]}
    BY DEF readCommandRow
  <2> QED BY <1>4, <1>5, <2>1 DEF CatchCommand, Audited
<1>6. CASE CatchRollbackRow(q)
  <2>1. readRollbackRow(r) \in {None, row[r.inst]}
    BY DEF readRollbackRow
  <2> QED BY <1>4, <1>6, <2>1 DEF CatchRollbackRow, Audited
<1>7. CASE FailDirect(q)
  <2>1. ~Audited(r)
    BY <1>7 DEF FailDirect, Audited
  <2> QED BY <1>1, <1>7, <2>1, PlainTruths, QuietFinish DEF FailDirect
<1>8. CASE ReadRollbackRow(q)
  <2> DEFINE current == readRollbackRow(r)
  <2>1. pc[q] = "readRow" /\ r.op = "rollback" /\ r.inst \in Installations
    BY <1>2, <1>8 DEF ReadRollbackRow, TypeInv, PhaseOK
  <2>2. seen'[q] = current /\ \A p \in Requests : p # q => seen'[p] = seen[p]
    BY <1>8 DEF ReadRollbackRow, TypeInv, TypeOK
  <2>3. current # None => current = row[r.inst] /\ OwnerOf[r.inst] = r.tenant
    BY DEF readRollbackRow
  <2>4. CASE Finish(q, [outcome |-> "not_found"])
    BY <1>1, <2>2, <2>4, PlainTruths, QuietFinish
  <2>5. CASE /\ current # None /\ current.revision # r.exp
             /\ Finish(q, [outcome |-> "conflict", revision |-> current.revision])
    <3>1. \A e \in audit : e.id # q
      BY <2>1, NotYetWritten DEF PastWrite
    <3>2. IsTrue(q, r, [outcome |-> "conflict", revision |-> current.revision])
      BY <2>1, <2>3, <2>5, <3>1, ConflictTruth
    <3> QED BY <1>1, <2>2, <2>5, <3>2, QuietFinish
  <2>6. CASE /\ current # None
             /\ Finish(q, [outcome |-> "same_version", revision |-> current.revision])
    <3>1. IsTrue(q, r, [outcome |-> "same_version", revision |-> current.revision])
      BY <2>3, <2>6, PlainTruths
    <3> QED BY <1>1, <2>2, <2>6, <3>1, QuietFinish
  <2>7. CASE current # None /\ current.revision = r.exp /\ Continue(q, "write")
    <3>1. req'[q] = r /\ pc'[q] = "write"
      BY <1>1, <2>7 DEF Continue, TypeInv, TypeOK
    <3>2. FlightIsSound(q)'
      BY <2>1, <2>2, <2>3, <2>7, <3>1 DEF FlightIsSound, Audited
    <3> QED BY <1>1, <2>1, <2>2, <2>7, <3>2, QuietContinue DEF PastWrite
  <2> QED BY <1>8, <2>4, <2>5, <2>6, <2>7 DEF ReadRollbackRow
<1>9. CASE CatchRollbackReplay(q)
  <2> DEFINE winner == readIdempotencyRecord(r)
  <2>1. pc[q] = "catchReplay" /\ r.op = "rollback" /\ r \in RollbackRequest(Nat, Nat) /\ seen' = seen
    BY <1>2, <1>9, RequestKinds DEF CatchRollbackReplay, TypeInv, PhaseOK
  <2>2. CASE winner # None /\ Finish(q, resolveReplay(winner, r))
    <3>1. IsTrue(q, r, resolveReplay(winner, r))
      BY <2>1, <2>2, ReplayTruth
    <3> QED BY <1>1, <2>1, <2>2, <3>1, QuietFinish
  <2>3. CASE winner = None /\ Continue(q, "catchRow")
    <3>1. \A e \in audit : e.id # q
      <4> SUFFICES ASSUME NEW e \in audit, e.id = q PROVE FALSE
        OBVIOUS
      <4> DEFINE rec == idem[<<r.tenant, r.key>>]
      <4>1. e.at = r.now /\ rec # None /\ e.at + Retention <= rec.expires
        BY <1>3, <2>1 DEF EventIsSound
      <4>2. rec \in IdemRow
        BY <2>1, <4>1 DEF TypeInv, TypeOK, RollbackRequest
      <4>3. rec.expires \in Nat /\ r.now \in Nat /\ Retention \in Nat \ {0}
        BY <2>1, <4>2, ConstantsAssumption DEF IdemRow, RollbackRequest
      <4>4. rec.expires > r.now
        <5> HIDE DEF rec, r
        <5> QED BY <4>1, <4>3
      <4> QED BY <2>3, <4>1, <4>4 DEF readIdempotencyRecord
    <3>2. req'[q] = r /\ pc'[q] = "catchRow" /\ audit' = audit
      BY <1>1, <2>3 DEF Continue, TypeInv, TypeOK, UnchangedTables
    <3>3. FlightIsSound(q)'
      BY <1>3, <2>1, <3>1, <3>2 DEF FlightIsSound, Audited
    <3> QED BY <1>1, <2>1, <2>3, <3>3, QuietContinue DEF PastWrite
  <2> QED BY <1>9, <2>2, <2>3 DEF CatchRollbackReplay
<1> QED BY <1>5, <1>6, <1>7, <1>8, <1>9

(* A write of handler q that adds at most its own event: what is left to   *)
(* show is about q and about what the write touched.                       *)
LEMMA WriteStep ==
  ASSUME TypeInv, CallersInv, NEW q \in Requests, pc[q] = "write",
         req' = req, seen' = seen,
         \/ \E a : Finish(q, a) /\ IsTrue(q, req[q], a)'
         \/ Continue(q, "catchReplay") /\ req[q].op = "rollback"
         \/ Continue(q, "catchRow") /\ req[q].op = "command",
         Audited(req[q]) => OwnerOf[req[q].inst] = req[q].tenant,
         audit \subseteq audit', \A e \in audit' : e \in audit \/ (e.id = q /\ EventIsSound(e)'),
         \A j \in Installations : hist[j] \subseteq hist'[j],
         \A e \in audit : e.id # q =>
           LET r == req[e.id] rec == idem[<<r.tenant, r.key>>] IN
           r.op = "rollback" /\ rec # None /\ e.at + Retention <= rec.expires =>
             (rec # None /\ e.at + Retention <= rec.expires)',
         \A t \in Tenants, k \in Keys : KeyIsSound(t, k)',
         KeyAppliesOnce', PluginIsFixed'
  PROVE  CallersInv'
<1>1. /\ \A p \in Requests : p # q => pc'[p] = pc[p] /\ answer'[p] = answer[p]
      /\ pc'[q] \in PastWrite
  BY DEF Finish, Continue, PastWrite, TypeInv, TypeOK
<1>2. \A e \in audit : e.id # q /\ e.id \in Requests /\ EventIsSound(e)
  BY NotYetWritten DEF PastWrite, CallersInv, TypeInv, TypeOK, AuditEvent
<1>3. FlightIsSound(q)'
  BY DEF FlightIsSound, Finish, Continue, TypeInv, TypeOK, Audited
<1>4. AnswerIsSound(q)'
  <2>1. answer[q] = None
    BY DEF CallersInv, AnswerIsSound
  <2> QED BY <2>1 DEF AnswerIsSound, Finish, Continue, TypeInv, TypeOK
<1>5. \A p \in Requests : (FlightIsSound(p) /\ AnswerIsSound(p))'
  <2> SUFFICES ASSUME NEW p \in Requests, p # q PROVE (FlightIsSound(p) /\ AnswerIsSound(p))'
    BY <1>3, <1>4
  <2>1. FlightIsSound(p) /\ AnswerIsSound(p)
    BY DEF CallersInv
  <2> QED BY <1>1, <2>1, Bystander
<1>6. \A e \in audit' : EventIsSound(e)'
  <2> SUFFICES ASSUME NEW e \in audit PROVE EventIsSound(e)'
    OBVIOUS
  <2>1. EventIsSound(e) /\ e.id # q /\ e.id \in Requests
    BY <1>2
  <2> QED BY <1>1, <2>1 DEF EventIsSound, Audited
<1> QED BY <1>5, <1>6 DEF CallersInv

LEMMA CommandCallers ==
  ASSUME TypeInv, HInv, CallersInv, NEW q \in Requests, pc[q] = "write", req[q].op = "command",
         CommandApplies(q), CommandInsert(q), req' = req, seen' = seen,
         \A j \in Installations : hist[j] \subseteq hist'[j],
         Finish(q, commandResult(q)) \/ Continue(q, "catchRow")
  PROVE  CallersInv'
<1> DEFINE r == req[q]
           before == seen[q]
           after == commandAfter(r, before)
           next == before.revision + 1
           event == [action |-> "installation.command", id |-> q, inst |-> r.inst,
                     revision |-> next, at |-> clock,
                     before |-> commandState(before, before.revision),
                     after |-> commandState(after, next)]
<1>1. r \in CommandRequest(Nat) /\ r.inst \in Installations /\ OwnerOf[r.inst] = r.tenant
  BY RequestKinds DEF TypeInv, PhaseOK, CommandApplies
<1>2. before.revision = r.exp
  BY DEF CallersInv, FlightIsSound, Audited
<1>3. audit' = audit \cup {event} /\ idem' = idem
  BY DEF CommandInsert
<1>4. PICK d : /\ d = event /\ d.id = q /\ d.inst = r.inst /\ d.revision = next
               /\ d.before.revision = before.revision
  <2>1. /\ event.id = q /\ event.inst = r.inst /\ event.revision = next
        /\ event.before.revision = before.revision
    <3> HIDE DEF after, next
    <3> QED BY DEF commandState
  <2> HIDE DEF event
  <2> QED BY <2>1
<1> HIDE DEF event
<1>5. \A p \in Requests : p # q => pc'[p] = pc[p]
  BY DEF Finish, Continue, TypeInv, TypeOK
<1>6. EventIsSound(d)'
  BY <1>1, <1>4 DEF EventIsSound, Audited, Finish, Continue, PastWrite, TypeInv, TypeOK
<1>7. \A a : a = commandResult(q) => IsTrue(q, r, a)'
  <2> SUFFICES ASSUME NEW a, a = commandResult(q) PROVE IsTrue(q, r, a)'
    OBVIOUS
  <2>1. a.outcome = "updated" /\ a.revision = next
    BY DEF commandResult
  <2>3. d \in audit' /\ d.before.revision = r.exp
    BY <1>2, <1>3, <1>4
  <2> HIDE DEF next
  <2>4. \E e \in audit' : /\ e.id = q /\ e.inst = r.inst /\ e.before.revision = r.exp
                          /\ e.revision = a.revision
    BY <1>4, <2>1, <2>3
  <2>5. r' = r /\ ~(Audited(r) /\ OwnerOf[r.inst] # r.tenant)
    BY <1>1
  <2> HIDE DEF r
  <2> QED BY <2>1, <2>4, <2>5 DEF IsTrue, Audited
<1>8. \A t \in Tenants, k \in Keys : KeyIsSound(t, k)'
  <2> SUFFICES ASSUME NEW t \in Tenants, NEW k \in Keys PROVE KeyIsSound(t, k)'
    OBVIOUS
  <2>1. KeyIsSound(t, k)
    BY DEF CallersInv
  <2> QED BY <1>3, <2>1 DEF KeyIsSound, Backs
<1>9. KeyAppliesOnce'
  BY <1>3, <1>4 DEF CallersInv, KeyAppliesOnce, SameKey
<1>10. PluginIsFixed'
  <2> DEFINE x == row[r.inst]
             new == [x EXCEPT !.enabled = after.enabled, !.priority = after.priority,
                              !.revision = next]
  <2>1. x \in Row
    BY <1>1 DEF TypeInv, TypeOK
  <2>2. new.version = x.version
    <3> HIDE DEF after, next
    <3> QED BY <2>1 DEF Row
  <2>3. row' = [row EXCEPT ![r.inst] = new]
    BY DEF CommandInsert, Store
  <2> HIDE DEF new
  <2> QED BY <2>2, <2>3 DEF CallersInv, PluginIsFixed, TypeInv, TypeOK
<1>11. \A e \in audit' : e \in audit \/ (e.id = q /\ EventIsSound(e)')
  BY <1>3, <1>4, <1>6
<1> QED BY <1>1, <1>3, <1>7, <1>8, <1>9, <1>10, <1>11, WriteStep

(* The batch of a rollback leaves every older rollback under its key more  *)
(* than a retention period behind: its record had expired.                 *)
LEMMA RollbackCallers ==
  ASSUME TypeInv, HInv, CallersInv, NEW q \in Requests, pc[q] = "write", req[q].op = "rollback",
         RollbackApplies(q), RollbackBatch(q), req' = req, seen' = seen, clock' = clock,
         \A j \in Installations : hist[j] \subseteq hist'[j],
         Finish(q, rollbackResult(q)) \/ Continue(q, "catchReplay")
  PROVE  CallersInv'
<1> DEFINE r == req[q]
           x == row[r.inst]
           next == seen[q].revision + 1
           event == [action |-> "installation.rollback", id |-> q, inst |-> r.inst,
                     revision |-> next, at |-> r.now,
                     before |-> [version |-> seen[q].version, revision |-> seen[q].revision],
                     after |-> [version |-> r.target, revision |-> next]]
           record == [hash |-> rollbackRequestHash(r), result |-> rollbackResult(q),
                      expires |-> adminIdempotencyExpiry(r.now)]
           old == idem[<<r.tenant, r.key>>]
<1>1. r \in RollbackRequest(Nat, Nat) /\ r.inst \in Installations /\ OwnerOf[r.inst] = r.tenant
  BY RequestKinds DEF TypeInv, PhaseOK, RollbackApplies
<1>2. seen[q].revision = r.exp
  BY DEF CallersInv, FlightIsSound, Audited
<1>3. audit' = audit \cup {event} /\ idem' = [idem EXCEPT ![<<r.tenant, r.key>>] = record]
  BY DEF RollbackBatch
<1>4. PICK d : /\ d = event /\ d.id = q /\ d.inst = r.inst /\ d.action = "installation.rollback"
               /\ d.at = r.now
               /\ d.before = [version |-> seen[q].version, revision |-> seen[q].revision]
               /\ d.after = [version |-> r.target, revision |-> next]
  <2>1. /\ event.id = q /\ event.inst = r.inst /\ event.action = "installation.rollback"
        /\ event.at = r.now
        /\ event.before = [version |-> seen[q].version, revision |-> seen[q].revision]
        /\ event.after = [version |-> r.target, revision |-> next]
    OBVIOUS
  <2> HIDE DEF event
  <2> QED BY <2>1
<1>5. PICK result : /\ result = rollbackResult(q) /\ result.outcome = "rolled_back"
                    /\ result.auditId = q /\ result.from = seen[q].version
                    /\ result.revision = next
  BY DEF rollbackResult
<1> HIDE DEF event
<1>6. Backs(d, result, r.inst, r.exp, r.target)
  BY <1>2, <1>4, <1>5 DEF Backs
<1>7. PICK rec : /\ rec = record /\ rec.result = result /\ rec.expires = r.now + Retention
                 /\ rec.hash.inst = r.inst /\ rec.hash.target = r.target /\ rec.hash.exp = r.exp
  <2>1. /\ record.result = rollbackResult(q) /\ record.expires = adminIdempotencyExpiry(r.now)
        /\ record.hash = rollbackRequestHash(r)
    BY Zenon
  <2> HIDE DEF record, r
  <2> QED BY <1>5, <2>1 DEF rollbackRequestHash, adminIdempotencyExpiry
<1> HIDE DEF record
<1>8. /\ idem' = [idem EXCEPT ![<<r.tenant, r.key>>] = rec]
      /\ idem'[<<r.tenant, r.key>>] = rec
      /\ \A k \in Tenants \X Keys : k # <<r.tenant, r.key>> => idem'[k] = idem[k]
  BY <1>1, <1>3, <1>7 DEF TypeInv, TypeOK, RollbackRequest
<1>9. rec # None /\ rec.expires \in Nat /\ Retention \in Nat \ {0} /\ r.now \in Nat
  <2>1. [hash |-> rollbackRequestHash(r), result |-> rollbackResult(q),
         expires |-> adminIdempotencyExpiry(r.now)] \in IdemRow
    <3>1. rollbackResult(q) \in RolledBack
      BY <1>1 DEF rollbackResult, RolledBack, Row, RollbackRequest, TypeInv, PhaseOK
    <3> QED BY <1>1, <3>1, ConstantsAssumption
            DEF IdemRow, rollbackRequestHash, Fingerprint, adminIdempotencyExpiry, RollbackRequest
  <2>2. rec \in IdemRow
    BY <1>7, <2>1 DEF record
  <2> QED BY <1>1, <2>2, NoneIsNoRecord, ConstantsAssumption DEF IdemRow, RollbackRequest
<1>10. \A e \in audit : e.id # q /\ e.id \in Requests /\ EventIsSound(e)
  BY NotYetWritten DEF PastWrite, CallersInv, TypeInv, TypeOK, AuditEvent
<1>11. old # None => old \in IdemRow /\ old.expires \in Nat /\ old.expires <= r.now
  <2>1. old # None => old \in IdemRow
    BY <1>1 DEF TypeInv, TypeOK, RollbackRequest
  <2>2. old # None => old.expires \in Nat
    BY <2>1 DEF IdemRow
  <2>3. old # None => ~(old.expires > r.now)
    BY DEF RollbackApplies, readIdempotencyRecord
  <2> HIDE DEF old, r
  <2> QED BY <1>9, <2>1, <2>2, <2>3
<1>12. ASSUME NEW e \in audit, req[e.id].op = "rollback",
              req[e.id].tenant = r.tenant, req[e.id].key = r.key
       PROVE  e.at \in Nat /\ e.at + Retention <= r.now
  <2>1. e.at \in Nat
    BY DEF TypeInv, TypeOK, AuditEvent
  <2>2. old # None /\ e.at + Retention <= old.expires
    BY <1>10, <1>12 DEF EventIsSound
  <2> HIDE DEF old, r
  <2> QED BY <1>9, <1>11, <2>1, <2>2
<1>13. EventIsSound(d)'
  <2>1. req'[q] = r /\ pc'[q] \in PastWrite
    BY DEF Finish, Continue, PastWrite, TypeInv, TypeOK
  <2>2. d.at + Retention <= rec.expires
    <3> HIDE DEF r
    <3> QED BY <1>4, <1>7, <1>9
  <2> QED BY <1>1, <1>4, <1>8, <1>9, <2>1, <2>2 DEF EventIsSound, Audited
<1>14. ASSUME NEW e \in audit
       PROVE  LET p == req[e.id] have == idem[<<p.tenant, p.key>>] IN
              p.op = "rollback" /\ have # None /\ e.at + Retention <= have.expires =>
                (have # None /\ e.at + Retention <= have.expires)'
  <2> DEFINE p == req[e.id]
  <2> SUFFICES ASSUME p.op = "rollback"
               PROVE  idem[<<p.tenant, p.key>>] # None
                        /\ e.at + Retention <= idem[<<p.tenant, p.key>>].expires =>
                      idem'[<<p.tenant, p.key>>] # None
                        /\ e.at + Retention <= idem'[<<p.tenant, p.key>>].expires
    OBVIOUS
  <2>1. p.tenant \in Tenants /\ p.key \in Keys
    <3>1. p \in Request
      BY <1>10 DEF EventIsSound, PastWrite, TypeInv, PhaseOK
    <3> QED BY <3>1, RequestKinds DEF RollbackRequest
  <2>2. CASE <<p.tenant, p.key>> # <<r.tenant, r.key>>
    BY <1>8, <2>1, <2>2
  <2>3. CASE p.tenant = r.tenant /\ p.key = r.key
    <3>1. e.at \in Nat /\ e.at + Retention <= r.now
      BY <1>12, <2>3
    <3>2. e.at + Retention <= rec.expires
      <4> HIDE DEF r
      <4> QED BY <1>7, <1>9, <3>1
    <3> QED BY <1>8, <1>9, <2>3, <3>2
  <2> QED BY <2>2, <2>3
<1>15. ASSUME NEW t \in Tenants, NEW k \in Keys PROVE KeyIsSound(t, k)'
  <2>1. CASE <<t, k>> # <<r.tenant, r.key>>
    <3>1. KeyIsSound(t, k) /\ idem'[<<t, k>>] = idem[<<t, k>>] /\ audit \subseteq audit'
      BY <1>3, <1>8, <2>1 DEF CallersInv
    <3> QED BY <3>1 DEF KeyIsSound, Backs
  <2>2. CASE t = r.tenant /\ k = r.key
    <3>1. idem'[<<t, k>>] = rec /\ d \in audit'
      BY <1>3, <1>4, <1>8, <2>2
    <3>2. Backs(d, rec.result, rec.hash.inst, rec.hash.exp, rec.hash.target)
      BY <1>6, <1>7
    <3> QED BY <1>1, <1>7, <2>2, <3>1, <3>2 DEF KeyIsSound, Backs
  <2> QED BY <2>1, <2>2
<1>16. KeyAppliesOnce'
  <2>1. ASSUME NEW e \in audit, SameKey(e.id, q) PROVE e.at + Retention <= d.at
    BY <1>4, <1>12, <2>1 DEF SameKey
  <2>2. \A p : SameKey(q, p) <=> SameKey(p, q)
    BY DEF SameKey
  <2>3. \A p, p2 : SameKey(p, p2)' <=> SameKey(p, p2)
    BY DEF SameKey
  <2> QED BY <1>3, <1>4, <2>1, <2>2, <2>3 DEF CallersInv, KeyAppliesOnce
<1>17. PluginIsFixed'
  <2> DEFINE new == [x EXCEPT !.version = r.target, !.revision = next]
  <2>1. x \in Row
    BY <1>1 DEF TypeInv, TypeOK
  <2>2. new.version = r.target
    <3> HIDE DEF r, next
    <3> QED BY <2>1 DEF Row
  <2>3. row' = [row EXCEPT ![r.inst] = new]
    BY DEF RollbackBatch, Store
  <2>4. PluginOf[r.target] = PluginOf[FirstVersion[r.inst]]
    BY <1>1 DEF RollbackApplies, CallersInv, PluginIsFixed
  <2> HIDE DEF new
  <2> QED BY <2>2, <2>3, <2>4 DEF CallersInv, PluginIsFixed, TypeInv, TypeOK
<1>18. \A a : a = rollbackResult(q) => IsTrue(q, r, a)'
  <2>1. IsTrue(q, r, result)'
    <3>1. d \in audit' /\ r' = r /\ ~(Audited(r) /\ OwnerOf[r.inst] # r.tenant)
      BY <1>1, <1>3, <1>4
    <3> HIDE DEF r
    <3> QED BY <1>5, <1>6, <3>1 DEF IsTrue, Backs, Audited
  <2> QED BY <1>5, <2>1
<1>19. \A e \in audit' : e \in audit \/ (e.id = q /\ EventIsSound(e)')
  BY <1>3, <1>4, <1>13
<1>20. audit \subseteq audit'
  BY <1>3
<1> HIDE DEF r
<1>21. \/ \E a : Finish(q, a) /\ IsTrue(q, req[q], a)'
       \/ Continue(q, "catchReplay") /\ req[q].op = "rollback"
  BY <1>18 DEF r
<1> QED BY <1>1, <1>14, <1>15, <1>16, <1>17, <1>19, <1>20, <1>21, WriteStep DEF r

(* The updates that leave the version alone, and the one that sets it.     *)
LEMMA VersionAfter ==
  ASSUME NEW x \in Row, NEW v, NEW n
  PROVE  /\ [x EXCEPT !.config = v, !.revision = n].version = x.version
         /\ [x EXCEPT !.enabled = v, !.revision = n].version = x.version
         /\ [x EXCEPT !.priority = v, !.revision = n].version = x.version
         /\ [x EXCEPT !.version = v, !.revision = n].version = v
  BY DEF Row

(* The unaudited writers move the row within its plugin and answer         *)
(* "written".                                                              *)
LEMMA DirectCallers ==
  ASSUME TypeInv, HInv, CallersInv, NEW q \in Requests, WriteDirect(q),
         \A j \in Installations : hist[j] \subseteq hist'[j]
  PROVE  CallersInv'
<1> DEFINE r == req[q]
           x == row[r.inst]
<1>1. r \in DirectRequest /\ r.inst \in Installations /\ ~Audited(r) /\ x \in Row
  BY RequestKinds DEF WriteDirect, TypeInv, PhaseOK, TypeOK, Audited
<1>2. audit' = audit /\ idem' = idem /\ req' = req /\ seen' = seen
  BY DEF WriteDirect
<1>3. Finish(q, [outcome |-> "written"]) /\ IsTrue(q, r, [outcome |-> "written"])'
  BY <1>1, <1>2 DEF WriteDirect, IsTrue, Audited
<1>4. \A t \in Tenants, k \in Keys : KeyIsSound(t, k)'
  <2> SUFFICES ASSUME NEW t \in Tenants, NEW k \in Keys PROVE KeyIsSound(t, k)'
    OBVIOUS
  <2>1. KeyIsSound(t, k)
    BY DEF CallersInv
  <2> QED BY <1>2, <2>1 DEF KeyIsSound, Backs
<1>5. KeyAppliesOnce'
  BY <1>2 DEF CallersInv, KeyAppliesOnce, SameKey
<1>6. \E new : /\ row' = [row EXCEPT ![r.inst] = new]
               /\ PluginOf[new.version] = PluginOf[FirstVersion[r.inst]]
  <2>1. PluginOf[x.version] = PluginOf[FirstVersion[r.inst]]
    BY <1>1 DEF CallersInv, PluginIsFixed
  <2>2. x.revision + 1 \in Nat
    BY <1>1 DEF Row
  <2>3. CASE r.op = "config" /\ Store(r.inst, updateInstallationConfig(q, x))
    <3>1. seen[q].version \in Versions
      BY <2>3 DEF WriteDirect, TypeInv, PhaseOK, Row
    <3>2. updateInstallationConfig(q, x).version = x.version
      <4>1. updateInstallationConfig(q, x) = [x EXCEPT !.config = seen[q].version, !.revision = x.revision + 1]
        BY DEF updateInstallationConfig
      <4>2. x \in Row
        BY <1>1
      <4> HIDE DEF x
      <4> QED BY <4>1, <4>2, VersionAfter
    <3> QED BY <2>1, <2>3, <3>2 DEF Store
  <2>4. CASE r.op = "apiRollback" /\ Store(r.inst, updateInstallationVersion(q, x))
    <3>1. r.target \in Versions /\ PluginOf[r.target] = PluginOf[FirstVersion[r.inst]]
      BY <1>1, <2>4 DEF DirectRequest, CallersInv, FlightIsSound, WriteDirect
    <3>2. updateInstallationVersion(q, x).version = r.target
      <4>1. updateInstallationVersion(q, x) = [x EXCEPT !.version = r.target, !.revision = x.revision + 1]
        BY DEF updateInstallationVersion
      <4>2. x \in Row
        BY <1>1
      <4> HIDE DEF x
      <4> QED BY <4>1, <4>2, VersionAfter
    <3> QED BY <2>4, <3>1, <3>2 DEF Store
  <2>5. CASE r.op = "setEnabled" /\ Store(r.inst, setInstallationEnabled(q, x))
    <3>1. r.enabled \in BOOLEAN
      BY <1>1, <2>5 DEF DirectRequest
    <3>2. setInstallationEnabled(q, x).version = x.version
      <4>1. setInstallationEnabled(q, x) = [x EXCEPT !.enabled = r.enabled, !.revision = x.revision + 1]
        BY DEF setInstallationEnabled
      <4>2. x \in Row
        BY <1>1
      <4> HIDE DEF x
      <4> QED BY <4>1, <4>2, VersionAfter
    <3> QED BY <2>1, <2>5, <3>2 DEF Store
  <2>6. CASE r.op = "setPriority" /\ Store(r.inst, updateInstallationPriority(q, x))
    <3>1. r.priority \in Priorities
      BY <1>1, <2>6 DEF DirectRequest
    <3>2. updateInstallationPriority(q, x).version = x.version
      <4>1. updateInstallationPriority(q, x) = [x EXCEPT !.priority = r.priority, !.revision = x.revision + 1]
        BY DEF updateInstallationPriority
      <4>2. x \in Row
        BY <1>1
      <4> HIDE DEF x
      <4> QED BY <4>1, <4>2, VersionAfter
    <3> QED BY <2>1, <2>6, <3>2 DEF Store
  <2> QED BY <2>3, <2>4, <2>5, <2>6 DEF WriteDirect
<1>7. PluginIsFixed'
  BY <1>1, <1>6 DEF CallersInv, PluginIsFixed, TypeInv, TypeOK
<1> QED BY <1>1, <1>2, <1>3, <1>4, <1>5, <1>7, WriteStep DEF WriteDirect

LEMMA NextCallers == TypeInv /\ HInv /\ CallersInv /\ [Next]_vars => CallersInv'
<1> SUFFICES ASSUME TypeInv, HInv, CallersInv, [Next]_vars PROVE CallersInv'
  OBVIOUS
<1>1. CASE Tick \/ UNCHANGED vars
  <2>1. UNCHANGED <<row, audit, idem, req, pc, seen, answer, hist>>
    BY <1>1 DEF Tick, vars
  <2>2. \A q \in Requests : (FlightIsSound(q) /\ AnswerIsSound(q))'
    BY <2>1, Bystander DEF CallersInv
  <2>3. \A e \in audit' : EventIsSound(e)'
    BY <2>1 DEF CallersInv, EventIsSound, Audited
  <2>4. \A t \in Tenants, k \in Keys : KeyIsSound(t, k)'
    BY <2>1 DEF CallersInv, KeyIsSound
  <2>5. KeyAppliesOnce' /\ PluginIsFixed'
    BY <2>1 DEF CallersInv, KeyAppliesOnce, SameKey, PluginIsFixed
  <2> QED BY <2>2, <2>3, <2>4, <2>5 DEF CallersInv
<1>2. ASSUME NEW q \in Requests, Step(q) PROVE CallersInv'
  <2> DEFINE r == req[q]
  <2>1. ASSUME pc[q] = "write", req' = req, UnchangedTables, seen' = seen,
               \/ Continue(q, "catchReplay") /\ r.op = "rollback"
               \/ Continue(q, "catchRow") /\ r.op = "command"
        PROVE  CallersInv'
    <3>1. FlightIsSound(q) /\ (pc'[q] = "catchReplay" \/ (pc'[q] = "catchRow" /\ r.op = "command"))
      BY <2>1 DEF CallersInv, Continue, TypeInv, TypeOK
    <3>2. FlightIsSound(q)'
      BY <2>1, <3>1 DEF FlightIsSound, Audited
    <3> QED BY <2>1, <3>2, SameRequest, QuietContinue DEF PastWrite
  <2>2. CASE WriteCommand(q)
    <3>1. CASE /\ CommandApplies(q) /\ CommandInsert(q)
               /\ Finish(q, commandResult(q)) \/ Continue(q, "catchRow")
      <4>1. \A j \in Installations : hist[j] \subseteq hist'[j]
        BY <2>2, <3>1 DEF CommandInsert, Store, TypeInv, TypeOK
      <4> QED BY <2>2, <3>1, <4>1, CommandCallers DEF WriteCommand
    <3> QED BY <2>1, <2>2, <3>1 DEF WriteCommand
  <2>3. CASE WriteRollback(q)
    <3>1. CASE /\ RollbackApplies(q) /\ RollbackBatch(q)
               /\ Finish(q, rollbackResult(q)) \/ Continue(q, "catchReplay")
      <4>1. \A j \in Installations : hist[j] \subseteq hist'[j]
        BY <2>3, <3>1 DEF RollbackBatch, Store, TypeInv, TypeOK
      <4> QED BY <2>3, <3>1, <4>1, RollbackCallers DEF WriteRollback
    <3> QED BY <2>1, <2>3, <3>1 DEF WriteRollback
  <2>4. CASE WriteDirect(q)
    <3>1. \A j \in Installations : hist[j] \subseteq hist'[j]
      <4>1. PICK new : Store(r.inst, new)
        BY <2>4 DEF WriteDirect
      <4> QED BY <4>1 DEF Store, TypeInv, TypeOK
    <3> QED BY <2>4, <3>1, DirectCallers
  <2> QED BY <1>2, <2>2, <2>3, <2>4, BeginCallers, CatchCallers DEF Step
<1> QED BY <1>1, <1>2 DEF Next

(* Callers are told what happened, a key acts once, conflicts were real    *)
(* and tenants and plugins stay apart, over any overlap of any number of   *)
(* handlers and lost acknowledgements (admin-installations.ts:127,         *)
(* admin-rollbacks.ts:150).                                                *)
THEOREM CallersServedHonestly == Spec => []CallersAreServedHonestly
<1>1. Spec => [](TypeInv /\ HInv /\ CallersInv)
  BY InitType, InitHistory, InitCallers, NextType, NextHistory, NextCallers, PTL DEF Spec
<1> QED BY <1>1, CallersImplied, PTL
=============================================================================
