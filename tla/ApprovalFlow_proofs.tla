------------------------ MODULE ApprovalFlow_proofs ------------------------
(***************************************************************************)
(* For any number of handlers, tenants, keys and roles: what a decision    *)
(* does follows from one audit event, and what callers are told agrees     *)
(* with the tables.                                                        *)
(***************************************************************************)
EXTENDS ApprovalFlow, TLAPS

(* A handler is in a phase of its operation, holds the time it read, and   *)
(* the approval it is about to decide exists for its tenant.               *)
CallMatchesPhase(h) ==
  /\ req[h] = None <=> pc[h] = "idle"
  /\ answer[h] # None => pc[h] = "done"
  /\ pc[h] \in {"batch", "catch"} => req[h].op = "request"
  /\ pc[h] \in {"decide", "catchDecide"} => req[h].op = "decide"
  /\ pc[h] \in {"apiWrite", "apiContinue"} => req[h].op = "apiDecide"
  /\ pc[h] = "batch" => req[h].now <= clock
  /\ pc[h] \in {"idle", "batch"} => approval[h] = None
  /\ pc[h] \in {"decide", "apiWrite", "apiContinue"} =>
       LET a == approval[req[h].approval] IN
       /\ a # None /\ a.tenant = req[h].tenant
       /\ pc[h] = "decide" => a.created <= req[h].at
       /\ pc[h] = "apiContinue" => a.state \in Decisions

(* An approval belongs to the request that created it, and is credited to  *)
(* the call that decided it; only an installation request has grants, and  *)
(* what is installed is what was requested.                                *)
ApprovalOrigin ==
  \A a \in Handlers :
    /\ approval[a] # None =>
         /\ req[a] # None /\ approval[a].tenant = req[a].tenant /\ approval[a].created <= clock
         /\ \/ /\ req[a].op = "request" /\ approval[a].hook = "installation.request"
               /\ approval[a].created = req[a].now /\ grantRequest[a] = req[a].proposal
            \/ req[a].op = "plugin" /\ approval[a].hook = "plugin" /\ grantRequest[a] = None
         /\ approval[a].by = None <=> approval[a].state = "pending"
         /\ approval[a].by # None =>
              req[approval[a].by] # None /\ req[approval[a].by].op \in {"decide", "apiDecide"}
    /\ approval[a] = None => grantRequest[a] = None
    /\ installation[a] # None => approval[a] # None /\ installation[a] = grantRequest[a]

(* An audit event records the request of a call of the admin route that is *)
(* past its write; it, and a continuation, are about an approval.          *)
EventOrigin ==
  /\ \A e \in decided :
       /\ req[e.by] # None /\ req[e.by].op = "decide" /\ pc[e.by] \in {"catchDecide", "done"}
       /\ e.approval = req[e.by].approval /\ e.decision = req[e.by].decision
       /\ approval[e.approval] # None
  /\ \A c \in continued : approval[c.approval] # None

(* The record of a key names the latest approval requested under it; the   *)
(* earlier ones are a retention period older.                              *)
KeyOrigin ==
  /\ \A t \in Tenants, k \in Keys : idem[<<t, k>>] # None =>
       LET rec == idem[<<t, k>>] a == rec.approval IN
       /\ approval[a] # None /\ approval[a].tenant = t /\ grantRequest[a] = rec.hash /\ grantRequest[a] # None
       /\ req[a].key = k /\ rec.expires = approval[a].created + Retention
  /\ \A a \in Handlers : grantRequest[a] # None =>
       LET rec == idem[<<req[a].tenant, req[a].key>>] IN
       /\ rec # None
       /\ rec.approval = a \/ approval[a].created + Retention <= approval[rec.approval].created

(* What AnswersAreHonest says of the answer of one handler; the approval   *)
(* of a refusal as already decided exists.                                 *)
AnswerIsBacked(h) ==
  /\ answer[h] # None /\ req[h].op = "decide" =>
       /\ answer[h].outcome \in Decisions =>
            \E e \in decided : /\ e.by = h /\ e.approval = req[h].approval
                               /\ e.decision = answer[h].outcome
       /\ answer[h].outcome = "already_decided" =>
            approval[req[h].approval] # None /\ approval[req[h].approval].state # "pending"
       /\ answer[h].outcome \in {"not_found", "role_forbidden", "expired"} =>
            \A e \in decided : e.by # h
  /\ answer[h] # None /\ answer[h].outcome = "pending" =>
       LET a == answer[h].approval IN
       approval[a] # None /\ approval[a].tenant = req[h].tenant /\ grantRequest[a] = req[h].proposal

(* Two approvals of one tenant and key are a retention period apart.       *)
KeysApart ==
  \A a, b \in Handlers :
    /\ a # b /\ grantRequest[a] # None /\ grantRequest[b] # None
    /\ req[a].tenant = req[b].tenant /\ req[a].key = req[b].key
    => \/ approval[a].created + Retention <= approval[b].created
       \/ approval[b].created + Retention <= approval[a].created

FlowInv ==
  /\ TypeOK /\ (\A h \in Handlers : CallMatchesPhase(h) /\ AnswerIsBacked(h))
  /\ ApprovalOrigin /\ EventOrigin /\ KeyOrigin /\ KeysApart
  /\ DecisionIsSound

-----------------------------------------------------------------------------
(* The fields of a request, by its operation.                              *)
LEMMA RequestFields ==
  ASSUME NEW r \in Request
  PROVE  /\ r.tenant \in Tenants /\ r.op \in {"request", "decide", "apiDecide", "plugin"}
         /\ r.op = "request" => r.key \in Keys /\ r.proposal \in Proposals /\ r.now \in Nat
         /\ r.op \in {"decide", "apiDecide"} =>
              r.approval \in Handlers /\ r.role \in Roles /\ r.decision \in Decisions /\ r.at \in Nat
BY DEF Request

LEMMA InitFlow == Init => FlowInv
<1> SUFFICES ASSUME Init PROVE FlowInv
  OBVIOUS
<1>1. TypeOK
  BY DEF Init, TypeOK, Phases
<1>2. \A h \in Handlers : CallMatchesPhase(h) /\ AnswerIsBacked(h)
  BY DEF Init, CallMatchesPhase, AnswerIsBacked
<1>3. ApprovalOrigin /\ EventOrigin /\ KeyOrigin /\ KeysApart
  BY DEF Init, ApprovalOrigin, EventOrigin, KeyOrigin, KeysApart
<1>4. DecisionIsSound
  BY DEF Init, DecisionIsSound, OneDecision, GrantNeedsDecision, ApprovedIsInstalled, DecisionIsAuthorised,
         ContinuationFollowsDecision
<1> QED
  BY <1>1, <1>2, <1>3, <1>4 DEF FlowInv

-----------------------------------------------------------------------------
(* A step of h: its request if it begins, its next phase, its answer.      *)
Moves(h, r, p, a) ==
  /\ req' = [req EXCEPT ![h] = r] /\ pc' = [pc EXCEPT ![h] = p] /\ answer' = [answer EXCEPT ![h] = a]
  /\ r \in Request /\ p \in Phases \ {"idle"} /\ a \in Answer \cup {None}
  /\ pc[h] # "done" /\ (pc[h] = "idle" \/ r = req[h])
  /\ pc[h] = "catchDecide" => p = "done"

(* A step that writes no table, or runs the continuation of a decided      *)
(* approval, keeps the invariant, if the handler that takes it is left in  *)
(* a phase, or with an answer, that the tables bear.                       *)
LEMMA QuietKeepsFlow ==
  ASSUME FlowInv, NEW h \in Handlers, NEW r, NEW p, NEW a, Moves(h, r, p, a),
         UNCHANGED <<approval, grantRequest, installation, decided, idem, clock>>,
         continued' \subseteq [approval : Handlers, decision : Decisions, by : Handlers],
         \A c \in continued' \ continued : approval[c.approval] # None /\ approval[c.approval].state \in Decisions,
         CallMatchesPhase(h)', AnswerIsBacked(h)'
  PROVE  FlowInv'
<1>1. TypeOK'
  BY DEF FlowInv, TypeOK, Moves
<1>2. UNCHANGED <<approval, grantRequest, installation, decided, idem, clock>>
  OBVIOUS
<1>3. \A b \in Handlers : b # h => req'[b] = req[b] /\ pc'[b] = pc[b] /\ answer'[b] = answer[b]
  BY DEF Moves, FlowInv, TypeOK
<1>4. req'[h] = r /\ pc'[h] = p /\ answer'[h] = a /\ (pc[h] = "idle" \/ r = req[h])
  BY DEF Moves, FlowInv, TypeOK
<1>5. \A b \in Handlers : (CallMatchesPhase(b) /\ AnswerIsBacked(b))'
  <2> SUFFICES ASSUME NEW b \in Handlers, b # h PROVE (CallMatchesPhase(b) /\ AnswerIsBacked(b))'
    OBVIOUS
  <2>1. CallMatchesPhase(b)'
    BY <1>2, <1>3 DEF FlowInv, CallMatchesPhase
  <2>2. AnswerIsBacked(b)'
    BY <1>2, <1>3 DEF FlowInv, AnswerIsBacked
  <2> QED BY <2>1, <2>2
<1>6. pc[h] = "idle" => approval[h] = None /\ req[h] = None
  BY DEF FlowInv, CallMatchesPhase
<1>7. \A b \in Handlers : req[b] # None => req'[b] = req[b]
  BY <1>3, <1>4, <1>6
<1>8. ApprovalOrigin'
  BY <1>2, <1>7 DEF FlowInv, TypeOK, Approval, ApprovalOrigin
<1>9. EventOrigin'
  <2>1. \A b \in Handlers : pc[b] \in {"catchDecide", "done"} => pc'[b] \in {"catchDecide", "done"}
    BY <1>3, <1>4 DEF Moves
  <2> QED
    BY <2>1, <1>2, <1>7 DEF FlowInv, TypeOK, Event, EventOrigin
<1>10. \A b \in Handlers : grantRequest[b] # None => approval[b] # None /\ req'[b] = req[b]
  BY <1>7 DEF FlowInv, ApprovalOrigin
<1>11. KeyOrigin'
  <2>1. \A t \in Tenants, k \in Keys : idem[<<t, k>>] # None => idem[<<t, k>>].approval \in Handlers
    BY DEF FlowInv, TypeOK, IdemRow
  <2> QED
    BY <1>2, <1>10, <2>1 DEF FlowInv, KeyOrigin
<1>12. KeysApart'
  BY <1>2, <1>10 DEF FlowInv, KeysApart
<1>13. DecisionIsSound'
  <2>1. \A b \in Handlers : approval[b] # None => req'[b] = req[b] /\ (approval[b].by # None => approval[b].by \in Handlers)
    BY <1>7 DEF FlowInv, TypeOK, Approval, ApprovalOrigin
  <2>2. \A b \in Handlers : approval[b] # None /\ approval[b].by # None => req'[approval[b].by] = req[approval[b].by]
    BY <1>7, <2>1 DEF FlowInv, ApprovalOrigin
  <2>3. OneDecision'
    BY <1>2, <2>2 DEF FlowInv, DecisionIsSound, OneDecision
  <2>4. GrantNeedsDecision'
    BY <1>2, <2>1 DEF FlowInv, DecisionIsSound, GrantNeedsDecision, ApprovalOrigin
  <2>5. ApprovedIsInstalled'
    BY <1>2, <2>2 DEF FlowInv, DecisionIsSound, ApprovedIsInstalled
  <2>6. DecisionIsAuthorised'
    BY <1>2, <1>7 DEF FlowInv, TypeOK, Event, DecisionIsSound, DecisionIsAuthorised, EventOrigin
  <2>7. ContinuationFollowsDecision'
    BY <1>2 DEF FlowInv, DecisionIsSound, ContinuationFollowsDecision
  <2> QED
    BY <2>3, <2>4, <2>5, <2>6, <2>7 DEF DecisionIsSound
<1> QED
  BY <1>1, <1>5, <1>8, <1>9, <1>11, <1>12, <1>13 DEF FlowInv

(* Beginning, finishing and continuing are moves.                          *)
LEMMA FinishMoves ==
  ASSUME FlowInv, NEW h \in Handlers, NEW r \in Request, NEW a \in Answer, Finish(h, a), pc[h] # "done",
         Accept(h, r) \/ (UNCHANGED req /\ r = req[h] /\ pc[h] # "idle")
  PROVE  Moves(h, r, "done", a) /\ req'[h] = r /\ pc'[h] = "done" /\ answer'[h] = a
BY DEF FlowInv, TypeOK, Finish, Accept, Moves, Phases

LEMMA ContinueMoves ==
  ASSUME FlowInv, NEW h \in Handlers, NEW r \in Request, NEW p \in Phases \ {"idle"}, Continue(h, p),
         pc[h] \notin {"done", "catchDecide"},
         Accept(h, r) \/ (UNCHANGED req /\ r = req[h] /\ pc[h] # "idle")
  PROVE  Moves(h, r, p, None) /\ req'[h] = r /\ pc'[h] = p /\ answer'[h] = None
<1>1. answer[h] = None
  BY DEF FlowInv, CallMatchesPhase
<1> QED
  BY <1>1 DEF FlowInv, TypeOK, Continue, Accept, Moves

(* What the record of a key is replayed as.                                *)
LEMMA ReplayIsBacked ==
  ASSUME FlowInv, NEW r \in Request, r.op = "request", readIdempotencyRecord(r) # None
  PROVE  LET a == resolveReplay(readIdempotencyRecord(r), r) IN
         /\ a \in Answer /\ a.outcome \in {"pending", "idempotency_key_reused"}
         /\ a.outcome = "pending" =>
              /\ approval[a.approval] # None /\ approval[a.approval].tenant = r.tenant
              /\ grantRequest[a.approval] = r.proposal
<1> DEFINE rec == readIdempotencyRecord(r)
<1>1. r.tenant \in Tenants /\ r.key \in Keys /\ rec = idem[<<r.tenant, r.key>>] /\ rec # None
  BY RequestFields DEF readIdempotencyRecord
<1>2. rec \in IdemRow
  BY <1>1 DEF FlowInv, TypeOK
<1>3. /\ approval[rec.approval] # None /\ approval[rec.approval].tenant = r.tenant
      /\ grantRequest[rec.approval] = rec.hash
  BY <1>1 DEF FlowInv, KeyOrigin
<1> HIDE DEF rec
<1>4. rec.approval \in Handlers
  BY <1>2 DEF IdemRow
<1>5. CASE rec.hash # r.proposal
  <2>1. resolveReplay(rec, r) = [outcome |-> "idempotency_key_reused"]
    BY <1>5 DEF resolveReplay
  <2> QED BY <2>1 DEF rec, Answer
<1>6. CASE rec.hash = r.proposal
  <2>1. resolveReplay(rec, r) = [outcome |-> "pending", approval |-> rec.approval]
    BY <1>6 DEF resolveReplay
  <2>2. [outcome |-> "pending", approval |-> rec.approval] \in Answer
    BY <1>4 DEF Answer
  <2> QED BY <1>3, <1>6, <2>1, <2>2 DEF rec
<1> QED BY <1>5, <1>6

LEMMA BeginRequestKeepsFlow ==
  ASSUME FlowInv, NEW h \in Handlers, NEW r \in Request, r.op = "request", r.now = clock,
         Accept(h, r), BeginRequest(h, r)
  PROVE  FlowInv'
<1>1. UNCHANGED <<approval, grantRequest, installation, decided, idem, clock, continued>> /\ pc[h] = "idle"
      /\ approval[h] = None
  BY DEF BeginRequest, tables, Accept, FlowInv, CallMatchesPhase
<1>2. continued' \subseteq [approval : Handlers, decision : Decisions, by : Handlers]
  BY <1>1 DEF FlowInv, TypeOK
<1>3. ASSUME NEW a \in Answer, Finish(h, a), a.outcome \in {"pending", "idempotency_key_reused", "refused"},
             a.outcome = "pending" => /\ approval[a.approval] # None /\ approval[a.approval].tenant = r.tenant
                                      /\ grantRequest[a.approval] = r.proposal
      PROVE  FlowInv'
  <2>1. Moves(h, r, "done", a) /\ req'[h] = r /\ pc'[h] = "done" /\ answer'[h] = a
    BY <1>1, <1>3, FinishMoves
  <2>2. CallMatchesPhase(h)'
    BY <1>1, <2>1, NoneIsNoValue DEF CallMatchesPhase
  <2>3. AnswerIsBacked(h)'
    BY <1>1, <1>3, <2>1 DEF AnswerIsBacked, Decisions
  <2> QED
    BY <1>1, <1>2, <2>1, <2>2, <2>3, QuietKeepsFlow
<1>4. ASSUME Continue(h, "batch") PROVE FlowInv'
  <2>1. Moves(h, r, "batch", None) /\ req'[h] = r /\ pc'[h] = "batch" /\ answer'[h] = None
    BY <1>1, <1>4, ContinueMoves DEF Phases
  <2>2. CallMatchesPhase(h)' /\ AnswerIsBacked(h)'
    BY <1>1, <2>1, NoneIsNoValue, RequestFields DEF CallMatchesPhase, AnswerIsBacked, FlowInv, TypeOK
  <2> QED
    BY <1>1, <1>2, <2>1, <2>2, QuietKeepsFlow
<1>5. [outcome |-> "refused"] \in Answer
  BY DEF Answer
<1> QED
  BY <1>3, <1>4, <1>5, ReplayIsBacked DEF BeginRequest

(* The approval a decision reads exists and is of the caller's tenant.     *)
LEMMA ReadApproval ==
  ASSUME NEW r, readApproval(r) # None
  PROVE  readApproval(r) = approval[r.approval] /\ approval[r.approval] # None
         /\ approval[r.approval].tenant = r.tenant
BY DEF readApproval

LEMMA BeginDecideKeepsFlow ==
  ASSUME FlowInv, NEW h \in Handlers, NEW r \in Request, r.at = clock, Accept(h, r),
         (r.op = "decide" /\ BeginDecide(h, r)) \/ (r.op = "apiDecide" /\ BeginApiDecide(h, r))
  PROVE  FlowInv'
<1>1. UNCHANGED <<approval, grantRequest, installation, decided, idem, clock, continued>> /\ pc[h] = "idle"
      /\ approval[h] = None
  BY DEF BeginDecide, BeginApiDecide, tables, Accept, FlowInv, CallMatchesPhase
<1>2. continued' \subseteq [approval : Handlers, decision : Decisions, by : Handlers]
  BY <1>1 DEF FlowInv, TypeOK
<1>3. \A e \in decided : e.by # h
  BY <1>1 DEF FlowInv, EventOrigin
<1>4. ASSUME NEW o \in {"not_found", "role_forbidden", "already_decided", "expired"},
             Finish(h, [outcome |-> o]),
             o = "already_decided" => approval[r.approval] # None /\ approval[r.approval].state # "pending"
      PROVE  FlowInv'
  <2> DEFINE a == [outcome |-> o]
  <2>0. a \in Answer /\ a.outcome = o
    BY DEF Answer
  <2> HIDE DEF a
  <2>1. Moves(h, r, "done", a) /\ req'[h] = r /\ pc'[h] = "done" /\ answer'[h] = a
    BY <1>1, <1>4, <2>0, FinishMoves DEF a
  <2>2. CallMatchesPhase(h)'
    BY <1>1, <2>1, NoneIsNoValue DEF CallMatchesPhase
  <2>3. AnswerIsBacked(h)'
    BY <1>1, <1>3, <1>4, <2>0, <2>1 DEF AnswerIsBacked, Decisions
  <2> QED
    BY <1>1, <1>2, <2>1, <2>2, <2>3, QuietKeepsFlow
<1>5. ASSUME NEW p \in {"decide", "apiWrite"}, Continue(h, p), readApproval(r) # None,
             r.op = "decide" <=> p = "decide"
      PROVE  FlowInv'
  <2>1. Moves(h, r, p, None) /\ req'[h] = r /\ pc'[h] = p /\ answer'[h] = None
    BY <1>1, <1>5, ContinueMoves DEF Phases
  <2>2. approval[r.approval] # None /\ approval[r.approval].tenant = r.tenant
        /\ approval[r.approval].created <= clock
    BY <1>5, ReadApproval, RequestFields DEF FlowInv, ApprovalOrigin
  <2>3. CallMatchesPhase(h)' /\ AnswerIsBacked(h)'
    BY <1>1, <1>5, <2>1, <2>2, NoneIsNoValue, RequestFields DEF CallMatchesPhase, AnswerIsBacked
  <2> QED
    BY <1>1, <1>2, <2>1, <2>3, QuietKeepsFlow
<1>6. CASE r.op = "decide" /\ BeginDecide(h, r)
  BY <1>4, <1>5, <1>6, ReadApproval DEF BeginDecide
<1>7. CASE r.op = "apiDecide" /\ BeginApiDecide(h, r)
  BY <1>4, <1>5, <1>7, ReadApproval DEF BeginApiDecide, resolveApprovalDecisionTransition
<1> QED
  BY <1>6, <1>7

(* The steps of a handler that write no table: a write that was rejected,  *)
(* what its catch block answers, a failure of the internal API.            *)
LEMMA HandleKeepsFlow ==
  ASSUME FlowInv, NEW h \in Handlers, UNCHANGED tables, UNCHANGED <<clock, req>>,
         \/ pc[h] = "batch" /\ Continue(h, "catch")
         \/ pc[h] = "decide" /\ Continue(h, "catchDecide")
         \/ CatchRequest(h) \/ CatchDecision(h) \/ ApiFail(h)
  PROVE  FlowInv'
<1>1. UNCHANGED <<approval, grantRequest, installation, decided, idem, clock, continued, req>>
  BY DEF tables
<1>2. continued' \subseteq [approval : Handlers, decision : Decisions, by : Handlers]
  BY <1>1 DEF FlowInv, TypeOK
<1>3. pc[h] \notin {"idle", "done"}
  BY DEF CatchRequest, CatchDecision, ApiFail
<1>4. req[h] \in Request /\ req[h] # None
  BY <1>3 DEF FlowInv, TypeOK, CallMatchesPhase
<1>5. ASSUME NEW a \in Answer, Finish(h, a), AnswerIsBacked(h)' PROVE FlowInv'
  <2>1. Moves(h, req[h], "done", a) /\ pc'[h] = "done" /\ answer'[h] = a
    BY <1>1, <1>3, <1>4, <1>5, FinishMoves
  <2>2. CallMatchesPhase(h)'
    BY <1>1, <1>4, <2>1 DEF CallMatchesPhase
  <2> QED
    BY <1>1, <1>2, <1>5, <2>1, <2>2, QuietKeepsFlow
<1>6. ASSUME NEW p \in {"catch", "catchDecide"}, Continue(h, p),
             \/ pc[h] = "batch" /\ p = "catch"
             \/ pc[h] = "decide" /\ p = "catchDecide"
      PROVE FlowInv'
  <2>1. Moves(h, req[h], p, None) /\ pc'[h] = p /\ answer'[h] = None
    BY <1>1, <1>4, <1>6, ContinueMoves DEF Phases
  <2>2. CallMatchesPhase(h)' /\ AnswerIsBacked(h)'
    BY <1>1, <1>4, <1>6, <2>1 DEF FlowInv, CallMatchesPhase, AnswerIsBacked
  <2> QED
    BY <1>1, <1>2, <2>1, <2>2, QuietKeepsFlow
<1>7. [outcome |-> "error"] \in Answer /\ [outcome |-> "already_decided"] \in Answer
  BY DEF Answer
<1>8. \A a : Finish(h, a) => answer'[h] = a
  BY DEF Finish, FlowInv, TypeOK
<1>9. CASE CatchRequest(h)
  <2> DEFINE a == IF readIdempotencyRecord(req[h]) # None
                  THEN resolveReplay(readIdempotencyRecord(req[h]), req[h]) ELSE [outcome |-> "error"]
  <2>1. req[h].op = "request"
    BY <1>9 DEF CatchRequest, FlowInv, CallMatchesPhase
  <2>2. /\ a \in Answer
        /\ a.outcome = "pending" =>
              /\ approval[a.approval] # None /\ approval[a.approval].tenant = req[h].tenant
              /\ grantRequest[a.approval] = req[h].proposal
    BY <1>4, <1>7, <2>1, ReplayIsBacked
  <2>3. Finish(h, a)
    BY <1>9 DEF CatchRequest
  <2> HIDE DEF a
  <2>4. AnswerIsBacked(h)'
    BY <1>1, <1>8, <2>1, <2>2, <2>3 DEF AnswerIsBacked
  <2> QED BY <1>5, <2>2, <2>3, <2>4
<1>10. CASE CatchDecision(h)
  <2> DEFINE current == readApproval(req[h])
  <2>1. Finish(h, IF current # None /\ current.state # "pending"
                  THEN [outcome |-> "already_decided"] ELSE [outcome |-> "error"])
    BY <1>10 DEF CatchDecision
  <2>2. CASE current # None /\ current.state # "pending"
    <3>1. Finish(h, [outcome |-> "already_decided"])
      BY <2>1, <2>2
    <3>2. AnswerIsBacked(h)'
      BY <1>1, <1>8, <2>2, <3>1, ReadApproval DEF AnswerIsBacked, Decisions
    <3> QED BY <1>5, <1>7, <3>1, <3>2
  <2>3. CASE ~(current # None /\ current.state # "pending")
    <3>1. Finish(h, [outcome |-> "error"])
      BY <2>1, <2>3
    <3>2. AnswerIsBacked(h)'
      BY <1>1, <1>8, <3>1 DEF AnswerIsBacked, Decisions
    <3> QED BY <1>5, <1>7, <3>1, <3>2
  <2> QED BY <2>2, <2>3
<1>11. CASE ApiFail(h)
  <2>1. Finish(h, [outcome |-> "error"])
    BY <1>11 DEF ApiFail
  <2>2. AnswerIsBacked(h)'
    BY <1>1, <1>8, <2>1 DEF AnswerIsBacked, Decisions
  <2> QED BY <1>5, <1>7, <2>1, <2>2
<1> QED
  BY <1>6, <1>9, <1>10, <1>11

LEMMA ContinuationKeepsFlow ==
  ASSUME FlowInv, NEW h \in Handlers, runApprovalContinuation(h)
  PROVE  FlowInv'
<1> DEFINE r == req[h]
           c == [approval |-> r.approval, decision |-> r.decision, by |-> h]
           a == [outcome |-> r.decision]
<1>1. /\ UNCHANGED <<approval, grantRequest, installation, decided, idem, clock, req>> /\ pc[h] = "apiContinue"
      /\ continued' = continued \cup {c} /\ Finish(h, a)
  BY DEF runApprovalContinuation
<1>2. /\ r \in Request /\ r # None /\ r.op = "apiDecide"
      /\ approval[r.approval] # None /\ approval[r.approval].state \in Decisions
  BY <1>1 DEF FlowInv, TypeOK, CallMatchesPhase
<1>3. r.approval \in Handlers /\ r.decision \in Decisions
  BY <1>2, RequestFields
<1>4. c \in [approval : Handlers, decision : Decisions, by : Handlers] /\ c.approval = r.approval
  BY <1>3
<1>5. a \in Answer /\ a.outcome \in Decisions
  BY <1>3 DEF Answer
<1> HIDE DEF a, c
<1>6. Moves(h, r, "done", a) /\ pc'[h] = "done" /\ answer'[h] = a
  BY <1>1, <1>2, <1>5, FinishMoves
<1>7. CallMatchesPhase(h)' /\ AnswerIsBacked(h)'
  BY <1>1, <1>2, <1>5, <1>6 DEF CallMatchesPhase, AnswerIsBacked, Decisions
<1>8. continued' \subseteq [approval : Handlers, decision : Decisions, by : Handlers]
  BY <1>1, <1>4 DEF FlowInv, TypeOK
<1>9. \A d \in continued' \ continued : approval[d.approval] # None /\ approval[d.approval].state \in Decisions
  BY <1>1, <1>2, <1>4
<1> QED
  BY <1>1, <1>6, <1>7, <1>8, <1>9, QuietKeepsFlow

LEMMA TickKeepsFlow ==
  ASSUME FlowInv, Tick
  PROVE  FlowInv'
<1>1. UNCHANGED <<approval, grantRequest, installation, decided, idem, continued, req, pc, answer>>
      /\ clock \in Nat /\ clock' = clock + 1
  BY DEF Tick, tables, FlowInv, TypeOK
<1>2. TypeOK'
  BY <1>1 DEF FlowInv, TypeOK
<1>3. \A h \in Handlers : (CallMatchesPhase(h) /\ AnswerIsBacked(h))'
  <2> SUFFICES ASSUME NEW h \in Handlers PROVE CallMatchesPhase(h)' /\ AnswerIsBacked(h)'
    OBVIOUS
  <2>1. pc[h] = "batch" => req[h].now \in Nat
    BY RequestFields DEF FlowInv, TypeOK, CallMatchesPhase
  <2>2. CallMatchesPhase(h)'
    BY <1>1, <2>1 DEF FlowInv, CallMatchesPhase
  <2>3. AnswerIsBacked(h)'
    BY <1>1 DEF FlowInv, AnswerIsBacked
  <2> QED BY <2>2, <2>3
<1>4. \A a \in Handlers : approval[a] # None => approval[a].created \in Nat
  BY DEF FlowInv, TypeOK, Approval
<1>5. ApprovalOrigin'
  BY <1>1, <1>4 DEF FlowInv, ApprovalOrigin
<1>6. EventOrigin' /\ KeyOrigin' /\ KeysApart'
  BY <1>1 DEF FlowInv, EventOrigin, KeyOrigin, KeysApart
<1>7. DecisionIsSound'
  BY <1>1 DEF FlowInv, DecisionIsSound, OneDecision, GrantNeedsDecision, ApprovedIsInstalled,
              DecisionIsAuthorised, ContinuationFollowsDecision
<1> QED
  BY <1>2, <1>3, <1>5, <1>6, <1>7 DEF FlowInv

-----------------------------------------------------------------------------
(* A fresh approval leaves what the others hold as it was.                 *)
LEMMA CreateKeepsFlow ==
  ASSUME FlowInv, NEW h \in Handlers, NEW r, NEW p, NEW a, Moves(h, r, p, a), NEW v \in Approval,
         approval[h] = None, approval' = [approval EXCEPT ![h] = v], pc[h] # "catchDecide",
         v.tenant = r.tenant, v.created <= clock, v.state = "pending", v.by = None,
         grantRequest' \in [Handlers -> Proposals \cup {None}],
         \A b \in Handlers : b # h => grantRequest'[b] = grantRequest[b],
         \/ /\ r.op = "request" /\ v.hook = "installation.request"
            /\ v.created = r.now /\ grantRequest'[h] = r.proposal
         \/ r.op = "plugin" /\ v.hook = "plugin" /\ grantRequest'[h] = None,
         idem' \in [Tenants \X Keys -> IdemRow \cup {None}],
         UNCHANGED <<installation, decided, continued, clock>>,
         CallMatchesPhase(h)', AnswerIsBacked(h)', KeyOrigin', KeysApart'
  PROVE  FlowInv'
<1>1. TypeOK'
  BY DEF FlowInv, TypeOK, Moves
<1>2. \A b \in Handlers : b # h => /\ req'[b] = req[b] /\ pc'[b] = pc[b] /\ answer'[b] = answer[b]
                                 /\ approval'[b] = approval[b] /\ grantRequest'[b] = grantRequest[b]
  BY DEF Moves, FlowInv, TypeOK
<1>3. /\ req'[h] = r /\ pc'[h] = p /\ answer'[h] = a /\ approval'[h] = v /\ v # None /\ r # None
      /\ (pc[h] = "idle" \/ r = req[h]) /\ installation[h] = None
  BY NoneIsNoValue DEF Moves, FlowInv, TypeOK, ApprovalOrigin
<1>4. \A b \in Handlers : approval[b] # None => approval'[b] = approval[b] /\ grantRequest'[b] = grantRequest[b]
  BY <1>2
<1>5. \A b \in Handlers : req[b] # None => req'[b] = req[b]
  BY <1>2, <1>3 DEF FlowInv, CallMatchesPhase
<1>6. \A b \in Handlers : (CallMatchesPhase(b) /\ AnswerIsBacked(b))'
  <2> SUFFICES ASSUME NEW b \in Handlers, b # h PROVE CallMatchesPhase(b)' /\ AnswerIsBacked(b)'
    OBVIOUS
  <2>1. req[b] # None => req[b] \in Request
    BY DEF FlowInv, TypeOK
  <2>2. pc[b] \in {"decide", "apiWrite", "apiContinue"} => approval'[req[b].approval] = approval[req[b].approval]
    BY <1>4, <2>1, RequestFields DEF FlowInv, CallMatchesPhase
  <2>3. CallMatchesPhase(b)'
    BY <1>2, <2>2 DEF FlowInv, CallMatchesPhase
  <2>4. answer[b] # None => req[b] # None /\ answer[b] \in Answer
    BY DEF FlowInv, TypeOK, CallMatchesPhase
  <2>5. answer[b] # None /\ req[b].op = "decide" /\ answer[b].outcome = "already_decided" =>
          approval'[req[b].approval] # None /\ approval'[req[b].approval].state # "pending"
    BY <1>4, <2>1, <2>4, RequestFields DEF FlowInv, AnswerIsBacked
  <2>6. answer[b] # None /\ answer[b].outcome = "pending" => answer[b].approval \in Handlers
    BY <2>4 DEF Answer, Decisions
  <2>7. answer[b] # None /\ answer[b].outcome = "pending" =>
          LET c == answer[b].approval IN
          approval'[c] # None /\ approval'[c].tenant = req[b].tenant /\ grantRequest'[c] = req[b].proposal
    BY <1>4, <2>6 DEF FlowInv, AnswerIsBacked
  <2>8. AnswerIsBacked(b)'
    BY <1>2, <2>5, <2>7 DEF FlowInv, AnswerIsBacked
  <2> QED BY <2>3, <2>8
<1>7. ApprovalOrigin'
  <2> SUFFICES ASSUME NEW b \in Handlers
      PROVE /\ approval'[b] # None =>
                /\ req'[b] # None /\ approval'[b].tenant = req'[b].tenant /\ approval'[b].created <= clock'
                /\ \/ /\ req'[b].op = "request" /\ approval'[b].hook = "installation.request"
                      /\ approval'[b].created = req'[b].now /\ grantRequest'[b] = req'[b].proposal
                   \/ req'[b].op = "plugin" /\ approval'[b].hook = "plugin" /\ grantRequest'[b] = None
                /\ approval'[b].by = None <=> approval'[b].state = "pending"
                /\ approval'[b].by # None =>
                      req'[approval'[b].by] # None /\ req'[approval'[b].by].op \in {"decide", "apiDecide"}
            /\ approval'[b] = None => grantRequest'[b] = None
            /\ installation'[b] # None => approval'[b] # None /\ installation'[b] = grantRequest'[b]
    BY DEF ApprovalOrigin
  <2>1. CASE b = h
    BY <2>1, <1>3
  <2>2. CASE b # h
    <3>1. approval[b] # None => approval[b].by \in Handlers \cup {None}
      BY DEF FlowInv, TypeOK, Approval
    <3> QED
      BY <2>2, <3>1, <1>2, <1>5 DEF FlowInv, ApprovalOrigin
  <2> QED BY <2>1, <2>2
<1>8. EventOrigin'
  <2>1. \A b \in Handlers : pc[b] \in {"catchDecide", "done"} => pc'[b] = pc[b]
    BY <1>2 DEF Moves
  <2>2. \A e \in decided : e.by \in Handlers /\ e.approval \in Handlers
    BY DEF FlowInv, TypeOK, Event
  <2>3. \A c \in continued : c.approval \in Handlers
    BY DEF FlowInv, TypeOK
  <2> QED
    BY <2>1, <2>2, <2>3, <1>4, <1>5 DEF FlowInv, EventOrigin
<1>9. DecisionIsSound'
  <2>1. \A b \in Handlers : approval[b] # None =>
          /\ approval[b].by # None => approval[b].by \in Handlers /\ req'[approval[b].by] = req[approval[b].by]
          /\ req'[b] = req[b]
    BY <1>5 DEF FlowInv, TypeOK, Approval, ApprovalOrigin
  <2>2. OneDecision'
    <3>1. ASSUME NEW b \in Handlers, approval'[b] # None, approval'[b].by # None, req'[approval'[b].by].op = "decide"
          PROVE  \E e \in decided : e.approval = b /\ e.decision = approval'[b].state /\ e.by = approval'[b].by
      <4>1. b # h
        BY <1>3, <3>1
      <4> QED
        BY <4>1, <3>1, <2>1, <1>2 DEF FlowInv, DecisionIsSound, OneDecision
    <3> QED BY <3>1 DEF FlowInv, DecisionIsSound, OneDecision
  <2>3. GrantNeedsDecision'
    BY <2>1, <1>4 DEF FlowInv, DecisionIsSound, GrantNeedsDecision, ApprovalOrigin
  <2>4. ApprovedIsInstalled'
    <3> SUFFICES ASSUME NEW b \in Handlers, approval'[b] # None, approval'[b].hook = "installation.request"
                 PROVE  \/ installation'[b] # None <=> approval'[b].state = "approved"
                        \/ approval'[b].by # None /\ req'[approval'[b].by].op = "apiDecide"
      BY DEF ApprovedIsInstalled
    <3>1. CASE b = h
      BY <3>1, <1>3
    <3>2. CASE b # h
      BY <3>2, <1>2, <2>1 DEF FlowInv, DecisionIsSound, ApprovedIsInstalled
    <3> QED BY <3>1, <3>2
  <2>5. DecisionIsAuthorised'
    BY <1>4, <1>5 DEF FlowInv, TypeOK, Event, DecisionIsSound, DecisionIsAuthorised, EventOrigin
  <2>6. ContinuationFollowsDecision'
    BY <1>4 DEF FlowInv, TypeOK, DecisionIsSound, ContinuationFollowsDecision, EventOrigin
  <2> QED
    BY <2>2, <2>3, <2>4, <2>5, <2>6 DEF DecisionIsSound
<1> QED
  BY <1>1, <1>6, <1>7, <1>8, <1>9 DEF FlowInv

LEMMA PluginKeepsFlow ==
  ASSUME FlowInv, NEW h \in Handlers, NEW r \in Request, r.op = "plugin", Accept(h, r), PluginRequest(h, r)
  PROVE  FlowInv'
<1> DEFINE a == [outcome |-> "asked"]
<1>1. PICK role \in RequiredRoles, expires \in clock .. clock + Retention :
        approval' = [approval EXCEPT ![h] =
          [tenant |-> r.tenant, role |-> role, hook |-> "plugin", state |-> "pending",
           created |-> clock, expires |-> expires, by |-> None]]
  BY DEF PluginRequest
<1> DEFINE v == [tenant |-> r.tenant, role |-> role, hook |-> "plugin", state |-> "pending",
                 created |-> clock, expires |-> expires, by |-> None]
<1>2. v \in Approval
  <2>1. r.tenant \in Tenants /\ role \in Roles
    BY RequestFields, ApprovalConstants DEF Roles
  <2>2. clock \in Nat /\ expires \in Nat
    BY ApprovalConstants DEF FlowInv, TypeOK
  <2> QED
    BY <2>1, <2>2 DEF Approval, Hooks, States
<1>3. a \in Answer /\ a.outcome = "asked"
  BY DEF Answer
<1>4. Finish(h, a) /\ UNCHANGED <<grantRequest, installation, decided, idem, continued, clock>> /\ pc[h] = "idle"
  BY DEF PluginRequest, Accept
<1>5. v.tenant = r.tenant /\ v.created = clock /\ v.state = "pending" /\ v.by = None /\ v.hook = "plugin"
  OBVIOUS
<1> HIDE DEF a
<1>6. Moves(h, r, "done", a) /\ req'[h] = r /\ pc'[h] = "done" /\ answer'[h] = a
  BY <1>3, <1>4, FinishMoves
<1>7. approval[h] = None /\ grantRequest[h] = None
  BY <1>4 DEF FlowInv, CallMatchesPhase, ApprovalOrigin
<1>8. CallMatchesPhase(h)' /\ AnswerIsBacked(h)'
  BY <1>3, <1>6, NoneIsNoValue DEF CallMatchesPhase, AnswerIsBacked
<1>9. \A b \in Handlers : grantRequest[b] # None => approval'[b] = approval[b] /\ req'[b] = req[b]
  <2>1. \A b \in Handlers : b # h => approval'[b] = approval[b] /\ req'[b] = req[b]
    BY <1>1, <1>6 DEF FlowInv, TypeOK, Moves
  <2> QED BY <2>1, <1>7
<1>10. KeyOrigin'
  <2>1. \A t \in Tenants, k \in Keys : idem[<<t, k>>] # None => idem[<<t, k>>].approval \in Handlers
    BY DEF FlowInv, TypeOK, IdemRow
  <2>2. \A b \in Handlers : grantRequest[b] # None => req[b] \in Request /\ req[b].op = "request"
    BY DEF FlowInv, TypeOK, ApprovalOrigin
  <2>3. \A b \in Handlers : grantRequest[b] # None =>
          idem[<<req[b].tenant, req[b].key>>] # None /\ idem[<<req[b].tenant, req[b].key>>].approval \in Handlers
          /\ grantRequest[idem[<<req[b].tenant, req[b].key>>].approval] # None
    BY <2>1, <2>2, RequestFields DEF FlowInv, KeyOrigin
  <2>4. \A t \in Tenants, k \in Keys : idem'[<<t, k>>] # None =>
          LET rec == idem'[<<t, k>>] b == rec.approval IN
          /\ approval'[b] # None /\ approval'[b].tenant = t /\ grantRequest'[b] = rec.hash /\ grantRequest'[b] # None
          /\ req'[b].key = k /\ rec.expires = approval'[b].created + Retention
    BY <1>4, <1>9, <2>1 DEF FlowInv, KeyOrigin
  <2>5. \A b \in Handlers : grantRequest'[b] # None =>
          LET rec == idem'[<<req'[b].tenant, req'[b].key>>] IN
          /\ rec # None
          /\ rec.approval = b \/ approval'[b].created + Retention <= approval'[rec.approval].created
    BY <1>4, <1>9, <2>3 DEF FlowInv, KeyOrigin
  <2> QED BY <2>4, <2>5 DEF KeyOrigin
<1>11. KeysApart'
  BY <1>4, <1>9 DEF FlowInv, KeysApart
<1> HIDE DEF v
<1>12. approval' = [approval EXCEPT ![h] = v]
  BY <1>1 DEF v
<1>13. v.created <= clock
  BY <1>5 DEF FlowInv, TypeOK
<1>14. idem' \in [Tenants \X Keys -> IdemRow \cup {None}] /\ grantRequest' \in [Handlers -> Proposals \cup {None}]
       /\ UNCHANGED <<installation, decided, continued, clock>> /\ grantRequest'[h] = None
       /\ \A b \in Handlers : b # h => grantRequest'[b] = grantRequest[b]
  BY <1>4, <1>7 DEF FlowInv, TypeOK
<1>15. pc[h] # "catchDecide"
  BY <1>4
<1> QED
  BY <1>2, <1>5, <1>6, <1>7, <1>8, <1>10, <1>11, <1>12, <1>13, <1>14, <1>15, CreateKeepsFlow

(* The request batch: the key is taken over from a record that expired, or *)
(* from none.                                                              *)
LEMMA BatchKeepsFlow ==
  ASSUME FlowInv, NEW h \in Handlers, pc[h] = "batch", RequestBatch(h), UNCHANGED <<clock, req>>,
         Finish(h, [outcome |-> "pending", approval |-> h]) \/ Continue(h, "catch")
  PROVE  FlowInv'
<1> DEFINE r == req[h]
           v == [tenant |-> r.tenant, role |-> "admin", hook |-> "installation.request", state |-> "pending",
                 created |-> r.now, expires |-> r.now + Retention, by |-> None]
           key == <<r.tenant, r.key>>
           rec == [hash |-> r.proposal, approval |-> h, expires |-> r.now + Retention]
           ans == [outcome |-> "pending", approval |-> h]
<1>1. /\ r \in Request /\ r.op = "request" /\ r # None /\ r.tenant \in Tenants /\ r.key \in Keys
      /\ r.proposal \in Proposals /\ r.now \in Nat /\ r.now <= clock /\ approval[h] = None /\ grantRequest[h] = None
  BY RequestFields DEF FlowInv, TypeOK, CallMatchesPhase, ApprovalOrigin
<1>2. /\ approval' = [approval EXCEPT ![h] = v] /\ grantRequest' = [grantRequest EXCEPT ![h] = r.proposal]
      /\ idem' = [idem EXCEPT ![key] = rec] /\ UNCHANGED <<installation, decided, continued>>
      /\ readIdempotencyRecord(r) = None
  BY DEF RequestBatch, adminIdempotencyExpiry
<1>3. v \in Approval /\ v.tenant = r.tenant /\ v.created = r.now /\ v.state = "pending" /\ v.by = None
      /\ v.hook = "installation.request"
  BY <1>1, ApprovalConstants DEF Approval, Roles, Hooks, States
<1>4. rec \in IdemRow /\ rec.hash = r.proposal /\ rec.approval = h /\ rec.expires = r.now + Retention
  BY <1>1, ApprovalConstants DEF IdemRow
<1>5. ans \in Answer /\ ans.outcome = "pending" /\ ans.approval = h
  BY DEF Answer
<1>7. idem[key] = None \/ idem[key].expires <= r.now
  <2>1. idem[key] \in IdemRow \cup {None}
    BY <1>1 DEF FlowInv, TypeOK
  <2> QED
    BY <1>1, <1>2, <2>1 DEF readIdempotencyRecord, IdemRow
<1> HIDE DEF v, rec, ans
<1>8. PICK p \in {"done", "catch"}, a \in {ans, None} :
        /\ Moves(h, r, p, a) /\ req'[h] = r /\ pc'[h] = p /\ answer'[h] = a
        /\ p = "catch" => a = None
  BY <1>1, <1>5, FinishMoves, ContinueMoves DEF ans, Phases
<1>9. approval'[h] = v /\ grantRequest'[h] = r.proposal /\ v # None /\ r.proposal # None
      /\ \A b \in Handlers : b # h => approval'[b] = approval[b] /\ grantRequest'[b] = grantRequest[b]
  BY <1>1, <1>2, <1>3, NoneIsNoValue DEF FlowInv, TypeOK
<1>10. CallMatchesPhase(h)' /\ AnswerIsBacked(h)'
  BY <1>1, <1>3, <1>5, <1>8, <1>9, NoneIsNoValue DEF CallMatchesPhase, AnswerIsBacked
<1>11. \A t \in Tenants, k \in Keys :
         \/ t = r.tenant /\ k = r.key /\ idem'[<<t, k>>] = rec
         \/ (t # r.tenant \/ k # r.key) /\ idem'[<<t, k>>] = idem[<<t, k>>]
  BY <1>1, <1>2 DEF FlowInv, TypeOK
<1>12. \A b \in Handlers : grantRequest[b] # None =>
         /\ b # h /\ req[b].tenant \in Tenants /\ req[b].key \in Keys /\ approval[b] # None /\ approval[b].created \in Nat
         /\ LET old == idem[<<req[b].tenant, req[b].key>>] IN
            /\ old # None /\ old.approval \in Handlers /\ approval[old.approval].created \in Nat /\ old.approval # h
            /\ old.expires = approval[old.approval].created + Retention
            /\ old.approval = b \/ approval[b].created + Retention <= approval[old.approval].created
  <2> SUFFICES ASSUME NEW b \in Handlers, grantRequest[b] # None
      PROVE
         /\ b # h /\ req[b].tenant \in Tenants /\ req[b].key \in Keys /\ approval[b] # None /\ approval[b].created \in Nat
         /\ LET old == idem[<<req[b].tenant, req[b].key>>] IN
            /\ old # None /\ old.approval \in Handlers /\ approval[old.approval].created \in Nat /\ old.approval # h
            /\ old.expires = approval[old.approval].created + Retention
            /\ old.approval = b \/ approval[b].created + Retention <= approval[old.approval].created
    OBVIOUS
  <2>1. approval[b] # None /\ req[b] # None /\ req[b].op = "request" /\ b # h
    BY <1>1 DEF FlowInv, ApprovalOrigin
  <2>2. req[b].tenant \in Tenants /\ req[b].key \in Keys
    BY <2>1, RequestFields DEF FlowInv, TypeOK
  <2>3. \A c \in Handlers : approval[c] # None => approval[c].created \in Nat
    BY DEF FlowInv, TypeOK, Approval
  <2> DEFINE old == idem[<<req[b].tenant, req[b].key>>]
  <2>4. old # None /\ (old.approval = b \/ approval[b].created + Retention <= approval[old.approval].created)
    BY DEF FlowInv, KeyOrigin
  <2>5. old.approval \in Handlers
    BY <2>2, <2>4 DEF FlowInv, TypeOK, IdemRow
  <2>6. approval[old.approval] # None /\ old.expires = approval[old.approval].created + Retention
    BY <2>2, <2>4 DEF FlowInv, KeyOrigin
  <2> HIDE DEF old
  <2>7. approval[old.approval].created \in Nat /\ old.approval # h
    BY <1>1, <2>3, <2>5, <2>6
  <2> QED
    BY <2>1, <2>2, <2>3, <2>4, <2>5, <2>6, <2>7 DEF old
<1>13. \A b \in Handlers : grantRequest[b] # None /\ req[b].tenant = r.tenant /\ req[b].key = r.key =>
         approval[b].created + Retention <= r.now
  <2> SUFFICES ASSUME NEW b \in Handlers, grantRequest[b] # None, req[b].tenant = r.tenant, req[b].key = r.key
               PROVE  approval[b].created + Retention <= r.now
    OBVIOUS
  <2>1. idem[key] # None /\ idem[key].expires <= r.now
    BY <1>7, <1>12
  <2> QED
    BY <1>1, <1>12, <2>1, ApprovalConstants
<1>14. KeyOrigin'
  <2>1. ASSUME NEW t \in Tenants, NEW k \in Keys, idem'[<<t, k>>] # None
        PROVE  LET new == idem'[<<t, k>>] b == new.approval IN
               /\ approval'[b] # None /\ approval'[b].tenant = t /\ grantRequest'[b] = new.hash /\ grantRequest'[b] # None
               /\ req'[b].key = k /\ new.expires = approval'[b].created + Retention
    <3>1. CASE t = r.tenant /\ k = r.key
      BY <3>1, <1>3, <1>4, <1>8, <1>9, <1>11
    <3>2. CASE t # r.tenant \/ k # r.key
      <4>1. idem[<<t, k>>] # None /\ idem'[<<t, k>>] = idem[<<t, k>>]
        BY <2>1, <3>2, <1>11
      <4>2. idem[<<t, k>>].approval \in Handlers /\ approval[idem[<<t, k>>].approval] # None
        BY <4>1 DEF FlowInv, TypeOK, IdemRow, KeyOrigin
      <4> QED
        BY <4>1, <4>2, <1>1, <1>9 DEF FlowInv, KeyOrigin
    <3> QED BY <3>1, <3>2
  <2>2. ASSUME NEW b \in Handlers, grantRequest'[b] # None
        PROVE  LET new == idem'[<<req'[b].tenant, req'[b].key>>] IN
               /\ new # None
               /\ new.approval = b \/ approval'[b].created + Retention <= approval'[new.approval].created
    <3>1. rec # None
      BY <1>4, NoneIsNoValue
    <3>2. CASE b = h
      BY <3>1, <3>2, <1>1, <1>4, <1>8, <1>11
    <3>3. CASE b # h
      <4>1. grantRequest[b] # None /\ req'[b] = req[b] /\ approval'[b] = approval[b]
        BY <2>2, <3>3, <1>9
      <4>2. req[b].tenant \in Tenants /\ req[b].key \in Keys
        BY <4>1, <1>12
      <4>3. CASE req[b].tenant = r.tenant /\ req[b].key = r.key
        BY <3>1, <4>1, <4>2, <4>3, <1>3, <1>4, <1>9, <1>11, <1>13
      <4>4. CASE req[b].tenant # r.tenant \/ req[b].key # r.key
        BY <4>1, <4>2, <4>4, <1>9, <1>11, <1>12
      <4> QED BY <4>3, <4>4
    <3> QED BY <3>2, <3>3
  <2> QED BY <2>1, <2>2 DEF KeyOrigin
<1>15. KeysApart'
  <2> SUFFICES ASSUME NEW b \in Handlers, NEW c \in Handlers, b # c, grantRequest'[b] # None, grantRequest'[c] # None,
                      req[b].tenant = req[c].tenant, req[b].key = req[c].key
               PROVE  \/ approval'[b].created + Retention <= approval'[c].created
                      \/ approval'[c].created + Retention <= approval'[b].created
    BY DEF KeysApart
  <2>1. CASE b = h
    BY <2>1, <1>3, <1>9, <1>13
  <2>2. CASE c = h
    BY <2>2, <1>3, <1>9, <1>13
  <2>3. CASE b # h /\ c # h
    BY <2>3, <1>9 DEF FlowInv, KeysApart
  <2> QED BY <2>1, <2>2, <2>3
<1>16. idem' \in [Tenants \X Keys -> IdemRow \cup {None}] /\ grantRequest' \in [Handlers -> Proposals \cup {None}]
  BY <1>1, <1>2, <1>4 DEF FlowInv, TypeOK
<1>17. v.created <= clock /\ pc[h] # "catchDecide" /\ UNCHANGED <<installation, decided, continued, clock>>
  BY <1>1, <1>2, <1>3
<1>18. /\ approval[h] = None /\ approval' = [approval EXCEPT ![h] = v] /\ v \in Approval /\ v.created <= clock
       /\ v.tenant = r.tenant /\ v.state = "pending" /\ v.by = None
       /\ r.op = "request" /\ v.hook = "installation.request" /\ v.created = r.now /\ grantRequest'[h] = r.proposal
       /\ \A b \in Handlers : b # h => grantRequest'[b] = grantRequest[b]
  BY <1>1, <1>2, <1>3, <1>9, <1>17
<1>19. /\ CallMatchesPhase(h)' /\ AnswerIsBacked(h)' /\ KeyOrigin' /\ KeysApart'
       /\ Moves(h, r, p, a) /\ pc[h] # "catchDecide"
       /\ UNCHANGED <<installation, decided, continued, clock>>
  BY <1>8, <1>10, <1>14, <1>15, <1>17
<1> HIDE DEF r, key
<1> QED
  BY <1>16, <1>18, <1>19, CreateKeepsFlow

-----------------------------------------------------------------------------
(* A step that decides an approval changes its state and the call it is    *)
(* credited to, and nothing else of it.                                    *)
Decides(h, x) ==
  /\ approval[x] # None
  /\ approval' = [approval EXCEPT ![x].state = req[h].decision, ![x].by = h]

LEMMA DecidedApproval ==
  ASSUME FlowInv, NEW h \in Handlers, NEW x \in Handlers, Decides(h, x), req[h].decision \in Decisions
  PROVE  /\ approval' \in [Handlers -> Approval \cup {None}]
         /\ \A b \in Handlers : b # x => approval'[b] = approval[b]
         /\ approval'[x].state = req[h].decision /\ approval'[x].by = h /\ approval'[x] # None
         /\ \A b \in Handlers : approval[b] # None =>
              /\ approval'[b] # None /\ approval'[b].tenant = approval[b].tenant /\ approval'[b].role = approval[b].role
              /\ approval'[b].hook = approval[b].hook /\ approval'[b].created = approval[b].created
              /\ approval'[b].expires = approval[b].expires
<1> DEFINE old == approval[x]
           new == [[old EXCEPT !.state = req[h].decision] EXCEPT !.by = h]
           mid == [approval EXCEPT ![x] = [old EXCEPT !.state = req[h].decision]]
<1>1. old \in Approval /\ old # None
  BY DEF Decides, FlowInv, TypeOK
<1>2. approval' = [mid EXCEPT ![x] = [mid[x] EXCEPT !.by = h]]
  BY DEF Decides
<1>3. mid[x] = [old EXCEPT !.state = req[h].decision] /\ (\A b \in Handlers : b # x => mid[b] = approval[b])
      /\ mid = [b \in Handlers |-> mid[b]]
  BY DEF FlowInv, TypeOK
<1> HIDE DEF mid
<1>4. approval' = [mid EXCEPT ![x] = new]
  BY <1>2, <1>3
<1>5. new = [tenant |-> old.tenant, role |-> old.role, hook |-> old.hook, state |-> req[h].decision,
             created |-> old.created, expires |-> old.expires, by |-> h]
  <2> DEFINE now == [old EXCEPT !.state = req[h].decision]
  <2>1. now = [tenant |-> old.tenant, role |-> old.role, hook |-> old.hook, state |-> req[h].decision,
               created |-> old.created, expires |-> old.expires, by |-> old.by]
    BY <1>1 DEF Approval
  <2> HIDE DEF now
  <2>2. [now EXCEPT !.by = h] =
          [tenant |-> old.tenant, role |-> old.role, hook |-> old.hook, state |-> req[h].decision,
           created |-> old.created, expires |-> old.expires, by |-> h]
    BY <2>1
  <2> QED BY <2>2 DEF now
<1> HIDE DEF new, old
<1>6. new \in Approval
  BY <1>1, <1>5 DEF Approval, States
<1>7. approval'[x] = new /\ (\A b \in Handlers : b # x => approval'[b] = approval[b])
      /\ approval' = [b \in Handlers |-> approval'[b]]
  BY <1>3, <1>4
<1>8. approval' \in [Handlers -> Approval \cup {None}]
  BY <1>6, <1>7 DEF FlowInv, TypeOK
<1> QED
  BY <1>1, <1>5, <1>6, <1>7, <1>8, NoneIsNoValue DEF old

(* What a decision leaves of the invariant whoever makes it.               *)
LEMMA DecideKeepsFlow ==
  ASSUME FlowInv, NEW h \in Handlers, NEW x \in Handlers, NEW p, NEW a, Moves(h, req[h], p, a), Decides(h, x),
         req[h].op \in {"decide", "apiDecide"}, req[h].decision \in Decisions,
         decided \subseteq decided', \A e \in decided' \ decided : e.by = h,
         UNCHANGED <<grantRequest, idem, continued, clock>>,
         \A b \in Handlers : installation'[b] = installation[b] \/ (b = x /\ installation'[b] = grantRequest[b])
  PROVE  /\ \A b \in Handlers : b # h => (CallMatchesPhase(b) /\ AnswerIsBacked(b))'
         /\ ApprovalOrigin' /\ KeyOrigin' /\ KeysApart' /\ ContinuationFollowsDecision' /\ req' = req
<1>1. /\ approval' \in [Handlers -> Approval \cup {None}]
      /\ \A b \in Handlers : b # x => approval'[b] = approval[b]
      /\ approval'[x].state = req[h].decision /\ approval'[x].by = h /\ approval'[x] # None
      /\ \A b \in Handlers : approval[b] # None =>
              /\ approval'[b] # None /\ approval'[b].tenant = approval[b].tenant /\ approval'[b].role = approval[b].role
              /\ approval'[b].hook = approval[b].hook /\ approval'[b].created = approval[b].created
              /\ approval'[b].expires = approval[b].expires
  BY DecidedApproval
<1>2. req' = req /\ \A b \in Handlers : b # h => pc'[b] = pc[b] /\ answer'[b] = answer[b]
  BY DEF Moves, FlowInv, TypeOK
<1>3. approval[x] # None /\ \A b \in Handlers : approval'[b] = None <=> approval[b] = None
  BY <1>1 DEF Decides
<1>4. \A b \in Handlers : approval[b] # None /\ approval[b].state # "pending" => approval'[b].state # "pending"
  BY <1>1 DEF Decisions
<1>5. \A b \in Handlers : approval[b] # None /\ approval[b].state \in Decisions => approval'[b].state \in Decisions
  BY <1>1
<1>6. \A b \in Handlers : b # h => (CallMatchesPhase(b) /\ AnswerIsBacked(b))'
  <2> SUFFICES ASSUME NEW b \in Handlers, b # h PROVE CallMatchesPhase(b)' /\ AnswerIsBacked(b)'
    OBVIOUS
  <2>1. req[b] # None => req[b] \in Request
    BY DEF FlowInv, TypeOK
  <2>2. pc[b] \in {"decide", "apiWrite", "apiContinue"} => req[b].approval \in Handlers /\ approval[req[b].approval] # None
    BY <2>1, RequestFields DEF FlowInv, CallMatchesPhase
  <2>3. pc[b] = "apiContinue" => approval[req[b].approval].state \in Decisions
    BY DEF FlowInv, CallMatchesPhase
  <2>4. CallMatchesPhase(b)'
    BY <1>1, <1>2, <1>3, <1>5, <2>2, <2>3 DEF FlowInv, CallMatchesPhase
  <2>5. answer[b] # None => req[b] # None /\ answer[b] \in Answer
    BY DEF FlowInv, TypeOK, CallMatchesPhase
  <2>6. answer[b] # None /\ answer[b].outcome = "pending" => answer[b].approval \in Handlers
    BY <2>5 DEF Answer, Decisions
  <2>7. answer[b] # None /\ req[b].op = "decide" => req[b].approval \in Handlers
    BY <2>1, <2>5, RequestFields
  <2>8. answer[b] # None /\ req[b].op = "decide" =>
       /\ answer[b].outcome \in Decisions =>
            \E e \in decided' : /\ e.by = b /\ e.approval = req[b].approval
                                /\ e.decision = answer[b].outcome
       /\ answer[b].outcome = "already_decided" =>
            approval'[req[b].approval] # None /\ approval'[req[b].approval].state # "pending"
       /\ answer[b].outcome \in {"not_found", "role_forbidden", "expired"} =>
            \A e \in decided' : e.by # b
    BY <1>1, <1>4, <2>7 DEF FlowInv, AnswerIsBacked
  <2>9. answer[b] # None /\ answer[b].outcome = "pending" =>
       LET c == answer[b].approval IN
       approval'[c] # None /\ approval'[c].tenant = req[b].tenant /\ grantRequest'[c] = req[b].proposal
    BY <1>1, <2>6 DEF FlowInv, AnswerIsBacked
  <2>10. AnswerIsBacked(b)'
    BY <1>2, <2>8, <2>9 DEF AnswerIsBacked
  <2> QED BY <2>4, <2>10
<1>7. ApprovalOrigin'
  <2> SUFFICES ASSUME NEW b \in Handlers
      PROVE /\ approval'[b] # None =>
                /\ req'[b] # None /\ approval'[b].tenant = req'[b].tenant /\ approval'[b].created <= clock'
                /\ \/ /\ req'[b].op = "request" /\ approval'[b].hook = "installation.request"
                      /\ approval'[b].created = req'[b].now /\ grantRequest'[b] = req'[b].proposal
                   \/ req'[b].op = "plugin" /\ approval'[b].hook = "plugin" /\ grantRequest'[b] = None
                /\ approval'[b].by = None <=> approval'[b].state = "pending"
                /\ approval'[b].by # None =>
                      req'[approval'[b].by] # None /\ req'[approval'[b].by].op \in {"decide", "apiDecide"}
            /\ approval'[b] = None => grantRequest'[b] = None
            /\ installation'[b] # None => approval'[b] # None /\ installation'[b] = grantRequest'[b]
    BY DEF ApprovalOrigin
  <2>0. h # None /\ req[h] # None /\ "pending" \notin Decisions
    BY NoneIsNoValue DEF Moves, Decisions
  <2>1. approval'[b] # None => (approval'[b].by = None <=> approval'[b].state = "pending")
    BY <1>1, <1>3, <2>0 DEF FlowInv, ApprovalOrigin
  <2>2. approval'[b] # None /\ approval'[b].by # None =>
          req[approval'[b].by] # None /\ req[approval'[b].by].op \in {"decide", "apiDecide"}
    BY <1>1, <1>3, <2>0 DEF FlowInv, ApprovalOrigin
  <2> QED
    BY <1>1, <1>2, <1>3, <2>1, <2>2 DEF FlowInv, ApprovalOrigin
<1>8. KeyOrigin'
  <2>1. \A t \in Tenants, k \in Keys : idem[<<t, k>>] # None =>
          idem[<<t, k>>].approval \in Handlers /\ approval[idem[<<t, k>>].approval] # None
    BY DEF FlowInv, TypeOK, IdemRow, KeyOrigin
  <2>2. \A b \in Handlers : grantRequest[b] # None => approval[b] # None /\ req[b].op = "request" /\ req[b] \in Request
    BY DEF FlowInv, TypeOK, ApprovalOrigin
  <2>3. \A b \in Handlers : grantRequest[b] # None => req[b].tenant \in Tenants /\ req[b].key \in Keys
    BY <2>2, RequestFields
  <2> QED
    BY <1>1, <1>2, <2>1, <2>2, <2>3 DEF FlowInv, KeyOrigin
<1>9. KeysApart'
  <2>1. \A b \in Handlers : grantRequest[b] # None => approval[b] # None
    BY DEF FlowInv, ApprovalOrigin
  <2> QED
    BY <1>1, <1>2, <2>1 DEF FlowInv, KeysApart
<1>10. ContinuationFollowsDecision'
  BY <1>5 DEF FlowInv, TypeOK, EventOrigin, DecisionIsSound, ContinuationFollowsDecision
<1> QED
  BY <1>2, <1>6, <1>7, <1>8, <1>9, <1>10

(* The internal API's UPDATE.                                              *)
LEMMA ApiUpdateKeepsFlow ==
  ASSUME FlowInv, NEW h \in Handlers, ApiUpdate(h)
  PROVE  FlowInv'
<1> DEFINE r == req[h]
           x == r.approval
<1>1. /\ pc[h] = "apiWrite" /\ r \in Request /\ r # None /\ r.op = "apiDecide"
      /\ UNCHANGED <<grantRequest, installation, decided, idem, continued, clock, req>>
  BY DEF ApiUpdate, FlowInv, TypeOK, CallMatchesPhase
<1>2. x \in Handlers /\ r.decision \in Decisions
  BY <1>1, RequestFields
<1>3. Decides(h, x) /\ approval[x].tenant = r.tenant
  BY <1>1 DEF ApiUpdate, Decides, FlowInv, CallMatchesPhase
<1>4. Moves(h, r, "apiContinue", None) /\ pc'[h] = "apiContinue" /\ answer'[h] = None
  BY <1>1, ContinueMoves DEF ApiUpdate, Phases
<1>5. /\ \A b \in Handlers : b # h => (CallMatchesPhase(b) /\ AnswerIsBacked(b))'
      /\ ApprovalOrigin' /\ KeyOrigin' /\ KeysApart' /\ ContinuationFollowsDecision' /\ req' = req
  BY <1>1, <1>2, <1>3, <1>4, DecideKeepsFlow
<1>6. /\ approval' \in [Handlers -> Approval \cup {None}]
      /\ \A b \in Handlers : b # x => approval'[b] = approval[b]
      /\ approval'[x].state = r.decision /\ approval'[x].by = h /\ approval'[x] # None
      /\ \A b \in Handlers : approval[b] # None =>
              /\ approval'[b] # None /\ approval'[b].tenant = approval[b].tenant /\ approval'[b].role = approval[b].role
              /\ approval'[b].hook = approval[b].hook /\ approval'[b].created = approval[b].created
              /\ approval'[b].expires = approval[b].expires
  BY <1>2, <1>3, DecidedApproval
<1> HIDE DEF x
<1>7. CallMatchesPhase(h)' /\ AnswerIsBacked(h)'
  BY <1>1, <1>2, <1>3, <1>4, <1>6 DEF CallMatchesPhase, AnswerIsBacked, Decides, x
<1>8. TypeOK'
  BY <1>1, <1>4, <1>6 DEF FlowInv, TypeOK, Moves
<1>9. EventOrigin'
  <2>1. \A b \in Handlers : pc[b] \in {"catchDecide", "done"} => pc'[b] = pc[b]
    BY <1>1, <1>4 DEF Moves, FlowInv, TypeOK
  <2>2. (\A e \in decided : e.by \in Handlers /\ e.approval \in Handlers) /\ \A c \in continued : c.approval \in Handlers
    BY DEF FlowInv, TypeOK, Event
  <2> QED
    BY <1>1, <1>6, <2>1, <2>2 DEF FlowInv, EventOrigin
<1>10. DecisionIsSound'
  <2>0. h # None
    BY NoneIsNoValue
  <2>1. OneDecision'
    BY <1>1, <1>6 DEF FlowInv, DecisionIsSound, OneDecision
  <2>2. GrantNeedsDecision'
    BY <1>1 DEF FlowInv, DecisionIsSound, GrantNeedsDecision
  <2>3. ApprovedIsInstalled'
    BY <1>1, <1>6, <2>0 DEF FlowInv, DecisionIsSound, ApprovedIsInstalled
  <2>4. DecisionIsAuthorised'
    BY <1>1, <1>6 DEF FlowInv, TypeOK, Event, EventOrigin, DecisionIsSound, DecisionIsAuthorised
  <2> QED
    BY <1>5, <2>1, <2>2, <2>3, <2>4 DEF DecisionIsSound
<1> QED
  BY <1>5, <1>7, <1>8, <1>9, <1>10 DEF FlowInv

(* The batch of the admin route: the audit event, whose trigger decides    *)
(* the approval, and the installation.                                     *)
LEMMA WriteDecisionKeepsFlow ==
  ASSUME FlowInv, NEW h \in Handlers, pc[h] = "decide", UNCHANGED <<clock, req, grantRequest, idem, continued>>,
         DecisionApplies(h), approvalAuditStatement(h), approvedInstallationStatements(h),
         Finish(h, [outcome |-> req[h].decision]) \/ Continue(h, "catchDecide")
  PROVE  FlowInv'
<1> DEFINE r == req[h]
           x == r.approval
           e == [approval |-> x, by |-> h, role |-> r.role, decision |-> r.decision, at |-> r.at]
           ans == [outcome |-> r.decision]
<1>1. /\ r \in Request /\ r # None /\ r.op = "decide" /\ approval[x] # None
      /\ approval[x].tenant = r.tenant /\ approval[x].created <= r.at
  BY DEF FlowInv, TypeOK, CallMatchesPhase
<1>2. x \in Handlers /\ r.decision \in Decisions /\ r.role \in Roles /\ r.at \in Nat
  BY <1>1, RequestFields
<1>3. Decides(h, x) /\ decided' = decided \cup {e}
  BY <1>1 DEF approvalAuditStatement, Decides
<1>4. e \in Event /\ e.approval = x /\ e.by = h /\ e.role = r.role /\ e.decision = r.decision /\ e.at = r.at
  BY <1>2 DEF Event
<1>5. ans \in Answer /\ ans.outcome = r.decision
  BY <1>2 DEF Answer
<1> HIDE DEF e, ans
<1>6. PICK p \in {"done", "catchDecide"}, a \in {ans, None} :
        /\ Moves(h, r, p, a) /\ pc'[h] = p /\ answer'[h] = a
        /\ p = "catchDecide" => a = None
  BY <1>1, <1>5, FinishMoves, ContinueMoves DEF ans, Phases
<1>7. /\ approval[x].state = "pending" /\ canRoleDecide(r.role) /\ approval[x].expires > r.at
      /\ approval[x].role \in {"manager", "admin"} \/ normalizeRbacRole(r.role) = normalizeRbacRole(approval[x].role)
      /\ \A f \in decided : f.approval # x
  BY DEF DecisionApplies
<1>8. /\ \A b \in Handlers : b # x => installation'[b] = installation[b]
      /\ \/ /\ r.decision = "approved" /\ approval[x].hook = "installation.request"
            /\ grantRequest[x] # None /\ installation'[x] = grantRequest[x]
         \/ /\ ~(r.decision = "approved" /\ approval[x].hook = "installation.request")
            /\ installation'[x] = installation[x]
      /\ installation' \in [Handlers -> Proposals \cup {None}]
  BY <1>2 DEF approvedInstallationStatements, FlowInv, TypeOK
<1>9. /\ \A b \in Handlers : b # h => (CallMatchesPhase(b) /\ AnswerIsBacked(b))'
      /\ ApprovalOrigin' /\ KeyOrigin' /\ KeysApart' /\ ContinuationFollowsDecision' /\ req' = req
  <2>1. decided \subseteq decided' /\ \A f \in decided' \ decided : f.by = h
    BY <1>3, <1>4
  <2>2. \A b \in Handlers : installation'[b] = installation[b] \/ (b = x /\ installation'[b] = grantRequest[b])
    BY <1>8
  <2> HIDE DEF x
  <2> QED
    BY <1>1, <1>2, <1>3, <1>6, <2>1, <2>2, DecideKeepsFlow
<1>10. /\ approval' \in [Handlers -> Approval \cup {None}]
       /\ \A b \in Handlers : b # x => approval'[b] = approval[b]
       /\ approval'[x].state = r.decision /\ approval'[x].by = h /\ approval'[x] # None
       /\ \A b \in Handlers : approval[b] # None =>
               /\ approval'[b] # None /\ approval'[b].tenant = approval[b].tenant /\ approval'[b].role = approval[b].role
               /\ approval'[b].hook = approval[b].hook /\ approval'[b].created = approval[b].created
               /\ approval'[b].expires = approval[b].expires
  BY <1>2, <1>3, DecidedApproval
<1>11. \A f \in decided : f.by # h
  BY DEF FlowInv, EventOrigin
<1> HIDE DEF x
<1>12. CallMatchesPhase(h)' /\ AnswerIsBacked(h)'
  BY <1>1, <1>2, <1>3, <1>4, <1>5, <1>6, NoneIsNoValue DEF CallMatchesPhase, AnswerIsBacked, Decisions, x
<1>13. TypeOK'
  BY <1>3, <1>4, <1>6, <1>8, <1>10 DEF FlowInv, TypeOK, Moves
<1>14. EventOrigin'
  <2>1. \A b \in Handlers : pc[b] \in {"catchDecide", "done"} => pc'[b] = pc[b]
    BY <1>6 DEF Moves, FlowInv, TypeOK
  <2>2. (\A f \in decided : f.by \in Handlers /\ f.approval \in Handlers) /\ \A c \in continued : c.approval \in Handlers
    BY DEF FlowInv, TypeOK, Event
  <2>3. \A c \in continued' : approval'[c.approval] # None
    BY <1>10, <2>2 DEF FlowInv, EventOrigin
  <2>4. \A f \in decided : /\ req'[f.by] # None /\ req'[f.by].op = "decide" /\ pc'[f.by] \in {"catchDecide", "done"}
                           /\ f.approval = req'[f.by].approval /\ f.decision = req'[f.by].decision
                           /\ approval'[f.approval] # None
    BY <1>9, <1>10, <2>1, <2>2 DEF FlowInv, EventOrigin
  <2>5. /\ req'[e.by] # None /\ req'[e.by].op = "decide" /\ pc'[e.by] \in {"catchDecide", "done"}
        /\ e.approval = req'[e.by].approval /\ e.decision = req'[e.by].decision
        /\ approval'[e.approval] # None
    BY <1>1, <1>4, <1>6, <1>9, <1>10 DEF x
  <2> QED
    BY <1>3, <2>3, <2>4, <2>5 DEF EventOrigin
<1>15. DecisionIsSound'
  <2>1. OneDecision'
    <3>1. \A f, g \in decided' : f.approval = g.approval => f = g
      BY <1>3, <1>4, <1>7 DEF FlowInv, DecisionIsSound, OneDecision
    <3>2. ASSUME NEW b \in Handlers, approval'[b] # None, approval'[b].by # None, req'[approval'[b].by].op = "decide"
          PROVE  \E f \in decided' : f.approval = b /\ f.decision = approval'[b].state /\ f.by = approval'[b].by
      <4>1. CASE b = x
        BY <4>1, <1>3, <1>4, <1>10
      <4>2. CASE b # x
        BY <4>2, <3>2, <1>3, <1>9, <1>10 DEF FlowInv, DecisionIsSound, OneDecision
      <4> QED BY <4>1, <4>2
    <3> QED BY <3>1, <3>2 DEF OneDecision
  <2>2. GrantNeedsDecision'
    <3> SUFFICES ASSUME NEW b \in Handlers, installation'[b] # None
                 PROVE  installation'[b] = req[b].proposal /\ \E f \in decided' : f.approval = b /\ f.decision = "approved"
      BY <1>9 DEF GrantNeedsDecision
    <3>1. CASE installation'[b] = installation[b]
      BY <3>1, <1>3 DEF FlowInv, DecisionIsSound, GrantNeedsDecision
    <3>2. CASE installation'[b] # installation[b]
      <4>1. b = x /\ installation'[x] = grantRequest[x] /\ r.decision = "approved" /\ grantRequest[x] # None
        BY <3>2, <1>8
      <4>2. grantRequest[x] = req[x].proposal
        BY <1>1, <1>2, <4>1 DEF x, FlowInv, ApprovalOrigin
      <4> QED BY <4>1, <4>2, <1>3, <1>4
    <3> QED BY <3>1, <3>2
  <2>3. ApprovedIsInstalled'
    <3> SUFFICES ASSUME NEW b \in Handlers, approval'[b] # None, approval'[b].hook = "installation.request"
                 PROVE  \/ installation'[b] # None <=> approval'[b].state = "approved"
                        \/ approval'[b].by # None /\ req'[approval'[b].by].op = "apiDecide"
      BY DEF ApprovedIsInstalled
    <3>1. CASE b = x
      <4>1. approval[x].hook = "installation.request" /\ approval[x].by = None
        BY <3>1, <1>1, <1>2, <1>7, <1>10 DEF x, FlowInv, ApprovalOrigin
      <4>2. installation[x] = None
        BY <4>1, <1>1, <1>2, <1>7 DEF x, FlowInv, DecisionIsSound, ApprovedIsInstalled
      <4> QED
        BY <3>1, <4>1, <4>2, <1>2, <1>8, <1>10 DEF Decisions
    <3>2. CASE b # x
      BY <3>2, <1>8, <1>9, <1>10 DEF FlowInv, DecisionIsSound, ApprovedIsInstalled
    <3> QED BY <3>1, <3>2
  <2>4. DecisionIsAuthorised'
    <3> SUFFICES ASSUME NEW f \in decided'
                 PROVE  LET c == approval'[f.approval] IN
                        /\ req'[f.by].tenant = c.tenant
                        /\ f.role \notin {"operator", "viewer"}
                        /\ c.role \in {"owner", "tenant-admin"} => f.role = c.role
                        /\ c.created <= f.at /\ f.at < c.expires
      BY DEF DecisionIsAuthorised
    <3>1. CASE f \in decided
      BY <3>1, <1>9, <1>10 DEF FlowInv, TypeOK, Event, EventOrigin, DecisionIsSound, DecisionIsAuthorised
    <3>2. CASE f = e
      <4>1. approval[x].expires \in Nat /\ approval[x].created \in Nat
        BY <1>1, <1>2 DEF x, FlowInv, TypeOK, Approval
      <4>2. r.role \notin {"operator", "viewer"}
            /\ (approval[x].role \in {"owner", "tenant-admin"} => r.role = approval[x].role)
        BY <1>7 DEF canRoleDecide, normalizeRbacRole
      <4>3. approval'[x].tenant = approval[x].tenant /\ approval'[x].role = approval[x].role
            /\ approval'[x].created = approval[x].created /\ approval'[x].expires = approval[x].expires
        BY <1>1, <1>2, <1>10 DEF x
      <4>4. approval[x].tenant = r.tenant /\ approval[x].created <= r.at
        BY <1>1 DEF x
      <4> QED
        BY <3>2, <4>1, <4>2, <4>3, <4>4, <1>2, <1>4, <1>7, <1>9
    <3> QED BY <3>1, <3>2, <1>3
  <2> QED
    BY <1>9, <2>1, <2>2, <2>3, <2>4 DEF DecisionIsSound
<1> QED
  BY <1>9, <1>12, <1>13, <1>14, <1>15 DEF FlowInv

-----------------------------------------------------------------------------
LEMMA NextKeepsFlow == FlowInv /\ [Next]_vars => FlowInv'
<1> SUFFICES ASSUME FlowInv, [Next]_vars PROVE FlowInv'
  OBVIOUS
<1>0. clock \in Nat
  BY DEF FlowInv, TypeOK
<1>1. ASSUME NEW h \in Handlers, Begin(h) PROVE FlowInv'
  <2>1. ASSUME NEW r \in [op : {"request"}, tenant : Tenants, key : Keys, proposal : Proposals, now : {clock}],
               Accept(h, r), BeginRequest(h, r)
        PROVE  FlowInv'
    <3>1. r \in Request /\ r.op = "request" /\ r.now = clock
      BY <1>0 DEF Request
    <3> QED BY <2>1, <3>1, BeginRequestKeepsFlow
  <2>2. ASSUME NEW r \in [op : {"plugin"}, tenant : Tenants], Accept(h, r), PluginRequest(h, r)
        PROVE  FlowInv'
    <3>1. r \in Request /\ r.op = "plugin"
      BY DEF Request
    <3> QED BY <2>2, <3>1, PluginKeepsFlow
  <2>3. ASSUME NEW o \in {"decide", "apiDecide"},
               NEW r \in [op : {o}, tenant : Tenants, approval : Handlers, role : ActorRoles,
                          decision : Decisions, at : {clock}], Accept(h, r),
               (o = "decide" /\ BeginDecide(h, r)) \/ (o = "apiDecide" /\ BeginApiDecide(h, r))
        PROVE  FlowInv'
    <3>1. ActorRoles \subseteq Roles
      BY ApprovalConstants DEF Roles
    <3>2. r \in Request /\ r.op = o /\ r.at = clock
      BY <1>0, <3>1 DEF Request
    <3> QED BY <2>3, <3>2, BeginDecideKeepsFlow
  <2> QED
    BY <1>1, <2>1, <2>2, <2>3 DEF Begin
<1>2. ASSUME NEW h \in Handlers, Handle(h) PROVE FlowInv'
  <2>1. CASE WriteRequest(h)
    BY <2>1, BatchKeepsFlow, HandleKeepsFlow DEF WriteRequest
  <2>2. CASE WriteDecision(h)
    BY <2>2, WriteDecisionKeepsFlow, HandleKeepsFlow DEF WriteDecision
  <2>3. CASE CatchRequest(h) \/ CatchDecision(h) \/ ApiFail(h)
    BY <2>3, HandleKeepsFlow DEF CatchRequest, CatchDecision, ApiFail
  <2>4. CASE ApiUpdate(h)
    BY <2>4, ApiUpdateKeepsFlow
  <2>5. CASE runApprovalContinuation(h)
    BY <2>5, ContinuationKeepsFlow
  <2> QED
    BY <1>2, <2>1, <2>2, <2>3, <2>4, <2>5 DEF Handle
<1>3. CASE UNCHANGED vars
  <2>1. UNCHANGED <<approval, grantRequest, installation, decided, idem, continued, clock, req, pc, answer>>
    BY <1>3 DEF vars
  <2>2. TypeOK' /\ ApprovalOrigin' /\ EventOrigin' /\ KeyOrigin' /\ KeysApart'
    BY <2>1 DEF FlowInv, TypeOK, ApprovalOrigin, EventOrigin, KeyOrigin, KeysApart
  <2>3. \A h \in Handlers : (CallMatchesPhase(h) /\ AnswerIsBacked(h))'
    BY <2>1 DEF FlowInv, CallMatchesPhase, AnswerIsBacked
  <2>4. DecisionIsSound'
    BY <2>1 DEF FlowInv, DecisionIsSound, OneDecision, GrantNeedsDecision, ApprovedIsInstalled,
                DecisionIsAuthorised, ContinuationFollowsDecision
  <2> QED
    BY <2>2, <2>3, <2>4 DEF FlowInv
<1> QED
  BY <1>1, <1>2, <1>3, TickKeepsFlow DEF Next

LEMMA FlowInvariance == Spec => []FlowInv
BY InitFlow, NextKeepsFlow, PTL DEF Spec

(* The tables of the approvals and the handlers keep their types           *)
(* (admin-approvals.ts, admin-install-requests.ts).                        *)
THEOREM FlowTypes == Spec => []TypeOK
<1>1. FlowInv => TypeOK
  BY DEF FlowInv
<1> QED
  BY <1>1, FlowInvariance, PTL

(* A decision is taken once, by an approver of the tenant with the role    *)
(* the approval asks for and before it expires; the grant, the             *)
(* installation and the continuation follow from it, whichever calls race, *)
(* fail or lose their acknowledgement (admin-approvals.ts, trigger of      *)
(* migration 0010).                                                        *)
THEOREM DecisionsAreSound == Spec => []DecisionIsSound
<1>1. FlowInv => DecisionIsSound
  BY DEF FlowInv
<1> QED
  BY <1>1, FlowInvariance, PTL

(* What a caller is told agrees with the tables, and repeating a request   *)
(* under its key yields the one pending approval (resolveReplay and the    *)
(* catch blocks of admin-install-requests.ts and admin-approvals.ts).      *)
THEOREM AnswersAreBacked == Spec => []AnswersAreHonest
<1>1. FlowInv => AnswersAreHonest
  BY DEF FlowInv, AnswerIsBacked, KeysApart, AnswersAreHonest, DecisionAnswerIsHonest, RequestOnce
<1> QED
  BY <1>1, FlowInvariance, PTL
=============================================================================
