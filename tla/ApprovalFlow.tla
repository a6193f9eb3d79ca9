---------------------------- MODULE ApprovalFlow ----------------------------
(***************************************************************************)
(* Approvals: the installation request of an operator                      *)
(* (admin-install-requests.ts), the decision of an approver                *)
(* (admin-approvals.ts with the trigger of migration 0010), which makes    *)
(* the requested grants live in the same D1 batch, the approvals plugins   *)
(* ask for (capabilities, storage.ts) and, where it is wired, the older    *)
(* decision of the internal API (api.ts, storage.ts), which runs the       *)
(* plugin's continuation.                                                  *)
(***************************************************************************)
EXTENDS Naturals, FiniteSets

CONSTANTS Handlers,          \* handler invocations; one that asks names its approval
          Tenants, Keys,
          Proposals,         \* normalized installation proposals
          Unavailable,       \* proposals that name no version of the tenant's app, or do not validate
          ApiDecisions,      \* whether the internal API's decideApproval is wired
          ActorRoles,        \* roles of the callers who decide
          RequiredRoles,     \* roles plugins name in their approvals
          Retention,         \* idempotency retention and approval lifetime (both 24h)
          MaxClock, None

ASSUME ApprovalConstants ==
  /\ Unavailable \subseteq Proposals
  /\ ApiDecisions \in BOOLEAN
  /\ {ActorRoles, RequiredRoles} \subseteq
       SUBSET {"owner", "admin", "tenant-admin", "manager", "operator", "viewer"}
  /\ Retention \in Nat \ {0} /\ MaxClock \in Nat

VARIABLES
  approval,      \* approvals, by the invocation that created them
  grantRequest,  \* installation_grant_requests, by approval
  installation,  \* installations created from a grant request, by approval
  decided,       \* approval_audit_events
  idem,          \* installation_request_idempotency, by (tenant, key)
  continued,     \* continuations the internal API ran
  clock, req, pc, answer

vars == <<approval, grantRequest, installation, decided, idem, continued, clock, req, pc, answer>>
tables == <<approval, grantRequest, installation, decided, idem, continued>>

Roles == {"owner", "admin", "tenant-admin", "manager", "operator", "viewer"}
Decisions == {"approved", "rejected"}
States == {"pending"} \cup Decisions
Hooks == {"installation.request", "plugin"}

Approval == [tenant : Tenants, role : Roles, hook : Hooks, state : States,
             created : Nat, expires : Nat, by : Handlers \cup {None}]
Request == [op : {"request"}, tenant : Tenants, key : Keys, proposal : Proposals, now : Nat]
      \cup [op : {"decide", "apiDecide"}, tenant : Tenants, approval : Handlers, role : Roles,
            decision : Decisions, at : Nat]
      \cup [op : {"plugin"}, tenant : Tenants]
Event == [approval : Handlers, by : Handlers, role : Roles, decision : Decisions, at : Nat]
Answer == [outcome : {"pending"}, approval : Handlers]
     \cup [outcome : Decisions \cup {"not_found", "role_forbidden", "already_decided", "expired",
                                     "idempotency_key_reused", "refused", "error", "asked"}]
IdemRow == [hash : Proposals, approval : Handlers, expires : Nat]
Phases == {"idle", "batch", "catch", "decide", "catchDecide", "apiWrite", "apiContinue", "done"}

ASSUME NoneIsNoValue ==
  /\ None \notin Handlers /\ None \notin Proposals
  /\ None \notin Approval /\ None \notin IdemRow /\ None \notin Request /\ None \notin Answer

TypeOK ==
  /\ approval \in [Handlers -> Approval \cup {None}]
  /\ grantRequest \in [Handlers -> Proposals \cup {None}]
  /\ installation \in [Handlers -> Proposals \cup {None}]
  /\ decided \subseteq Event
  /\ idem \in [Tenants \X Keys -> IdemRow \cup {None}]
  /\ continued \subseteq [approval : Handlers, decision : Decisions, by : Handlers]
  /\ clock \in Nat
  /\ req \in [Handlers -> Request \cup {None}]
  /\ pc \in [Handlers -> Phases]
  /\ answer \in [Handlers -> Answer \cup {None}]

Init ==
  /\ approval = [h \in Handlers |-> None]
  /\ grantRequest = [h \in Handlers |-> None]
  /\ installation = [h \in Handlers |-> None]
  /\ decided = {} /\ continued = {}
  /\ idem = [k \in Tenants \X Keys |-> None]
  /\ clock = 0
  /\ req = [h \in Handlers |-> None]
  /\ pc = [h \in Handlers |-> "idle"]
  /\ answer = [h \in Handlers |-> None]

Accept(h, r) == pc[h] = "idle" /\ req' = [req EXCEPT ![h] = r] /\ UNCHANGED clock
Finish(h, a) == answer' = [answer EXCEPT ![h] = a] /\ pc' = [pc EXCEPT ![h] = "done"]
Continue(h, phase) == pc' = [pc EXCEPT ![h] = phase] /\ UNCHANGED answer

-----------------------------------------------------------------------------
(* requestInstallation.                                                    *)

readIdempotencyRecord(r) ==
  LET rec == idem[<<r.tenant, r.key>>]
  IN  IF rec # None /\ rec.expires > r.now THEN rec ELSE None

(* Mutated: answers with another column of the record.                     *)
resolveReplay_WrongColumn(rec, r) == [outcome |-> "pending", approval |-> rec.hash]

resolveReplay(rec, r) ==
  IF rec.hash # r.proposal THEN [outcome |-> "idempotency_key_reused"]
  ELSE [outcome |-> "pending", approval |-> rec.approval]

(* The proposal is resolved from tables nobody updates, so its reads are   *)
(* part of this step.                                                      *)
BeginRequest(h, r) ==
  LET replay == readIdempotencyRecord(r) IN
  /\ UNCHANGED tables
  /\ \/ replay # None /\ Finish(h, resolveReplay(replay, r))
     \/ replay = None /\ r.proposal \in Unavailable /\ Finish(h, [outcome |-> "refused"])
     \/ replay = None /\ r.proposal \notin Unavailable /\ Continue(h, "batch")

adminIdempotencyExpiry(now) == now + Retention

(* Mutated: the key is not a primary key of the idempotency table.         *)
RequestBatch_AnyKey(h) ==
  LET r == req[h] IN
  /\ approval' = [approval EXCEPT ![h] =
       [tenant |-> r.tenant, role |-> "admin", hook |-> "installation.request",
        state |-> "pending", created |-> r.now, expires |-> r.now + Retention, by |-> None]]
  /\ grantRequest' = [grantRequest EXCEPT ![h] = r.proposal]
  /\ UNCHANGED <<idem, installation, decided, continued>>

(* One batch: drop the expired record, create approval, grant request and  *)
(* audit event under fresh ids, insert the record under its primary key.   *)
RequestBatch(h) ==
  LET r == req[h] IN
  /\ readIdempotencyRecord(r) = None
  /\ approval' = [approval EXCEPT ![h] =
       [tenant |-> r.tenant, role |-> "admin", hook |-> "installation.request",
        state |-> "pending", created |-> r.now, expires |-> r.now + Retention, by |-> None]]
  /\ grantRequest' = [grantRequest EXCEPT ![h] = r.proposal]
  /\ idem' = [idem EXCEPT ![<<r.tenant, r.key>>] =
       [hash |-> r.proposal, approval |-> h, expires |-> adminIdempotencyExpiry(r.now)]]
  /\ UNCHANGED <<installation, decided, continued>>

WriteRequest(h) ==
  /\ pc[h] = "batch"
  /\ UNCHANGED <<clock, req>>
  /\ \/ /\ RequestBatch(h)
        /\ \/ Finish(h, [outcome |-> "pending", approval |-> h])
           \/ Continue(h, "catch")             \* committed, but the D1 call rejected
     \/ UNCHANGED tables /\ Continue(h, "catch")  \* key taken, or D1 failed

CatchRequest(h) ==
  LET winner == readIdempotencyRecord(req[h]) IN
  /\ pc[h] = "catch"
  /\ UNCHANGED tables /\ UNCHANGED <<clock, req>>
  /\ Finish(h, IF winner # None THEN resolveReplay(winner, req[h]) ELSE [outcome |-> "error"])

(* createApprovalsRequestProvider: a plugin asks for an approval with a    *)
(* role, a lifetime and a continuation hook of its own.                    *)
PluginRequest(h, r) ==
  /\ \E role \in RequiredRoles, expires \in clock .. clock + Retention :
       approval' = [approval EXCEPT ![h] =
         [tenant |-> r.tenant, role |-> role, hook |-> "plugin", state |-> "pending",
          created |-> clock, expires |-> expires, by |-> None]]
  /\ Finish(h, [outcome |-> "asked"])
  /\ UNCHANGED <<grantRequest, installation, decided, idem, continued>>

-----------------------------------------------------------------------------
(* decide.                                                                 *)

normalizeRbacRole(role) == IF role = "manager" THEN "admin" ELSE role
canRoleDecide(role) == role \in {"owner", "admin", "tenant-admin", "manager"}
canDecideApproval(actorRole, requiredRole) ==
  /\ canRoleDecide(actorRole)
  /\ \/ normalizeRbacRole(requiredRole) = "admin"
     \/ normalizeRbacRole(actorRole) = normalizeRbacRole(requiredRole)

readApproval(r) ==
  LET a == approval[r.approval] IN IF a # None /\ a.tenant = r.tenant THEN a ELSE None

(* decidedAt is read here, after the approval; the write comes later.      *)
BeginDecide(h, r) ==
  LET a == readApproval(r) IN
  /\ UNCHANGED tables
  /\ \/ a = None /\ Finish(h, [outcome |-> "not_found"])
     \/ /\ a # None /\ ~canDecideApproval(r.role, a.role)
        /\ Finish(h, [outcome |-> "role_forbidden"])
     \/ /\ a # None /\ canDecideApproval(r.role, a.role) /\ a.state # "pending"
        /\ Finish(h, [outcome |-> "already_decided"])
     \/ /\ a # None /\ canDecideApproval(r.role, a.role) /\ a.state = "pending"
        /\ a.expires <= r.at
        /\ Finish(h, [outcome |-> "expired"])
     \/ /\ a # None /\ canDecideApproval(r.role, a.role) /\ a.state = "pending"
        /\ a.expires > r.at
        /\ Continue(h, "decide")

(* Trigger approval_audit_events_apply_decision, and the UNIQUE approval   *)
(* of its table.                                                           *)
DecisionApplies(h) ==
  LET r == req[h] a == approval[r.approval] IN
  /\ a.tenant = r.tenant /\ a.state = "pending"
  /\ canRoleDecide(r.role)
  /\ \/ a.role \in {"manager", "admin"}
     \/ normalizeRbacRole(r.role) = normalizeRbacRole(a.role)
  /\ a.expires > r.at
  /\ \A e \in decided : e.approval # r.approval

approvalAuditStatement(h) ==
  LET r == req[h] IN
  /\ decided' = decided \cup {[approval |-> r.approval, by |-> h, role |-> r.role,
                               decision |-> r.decision, at |-> r.at]}
  /\ approval' = [approval EXCEPT ![r.approval].state = r.decision, ![r.approval].by = h]

(* An approved installation request inserts the installation, under the id *)
(* reserved by the request, and its audit event in the same batch.         *)
approvedInstallationStatements(h) ==
  LET r == req[h] IN
  IF r.decision = "approved" /\ approval[r.approval].hook = "installation.request"
  THEN /\ grantRequest[r.approval] # None
       /\ installation[r.approval] = None
       /\ installation' = [installation EXCEPT ![r.approval] = grantRequest[r.approval]]
  ELSE UNCHANGED installation

(* Mutated: the statements are not one batch; the first may stay alone.    *)
WriteDecision_NoBatch(h) ==
  /\ pc[h] = "decide"
  /\ approvedInstallationStatements(h)
  /\ \/ DecisionApplies(h) /\ approvalAuditStatement(h) /\ Finish(h, [outcome |-> req[h].decision])
     \/ UNCHANGED <<approval, decided>> /\ Continue(h, "catchDecide")
  /\ UNCHANGED <<clock, req, grantRequest, idem, continued>>

WriteDecision(h) ==
  /\ pc[h] = "decide"
  /\ UNCHANGED <<clock, req>>
  /\ \/ /\ DecisionApplies(h) /\ approvalAuditStatement(h) /\ approvedInstallationStatements(h)
        /\ UNCHANGED <<grantRequest, idem, continued>>
        /\ \/ Finish(h, [outcome |-> req[h].decision])
           \/ Continue(h, "catchDecide")
     \/ UNCHANGED tables /\ Continue(h, "catchDecide")

CatchDecision(h) ==
  LET current == readApproval(req[h]) IN
  /\ pc[h] = "catchDecide"
  /\ UNCHANGED tables /\ UNCHANGED <<clock, req>>
  /\ Finish(h, IF current # None /\ current.state # "pending"
               THEN [outcome |-> "already_decided"] ELSE [outcome |-> "error"])

-----------------------------------------------------------------------------
(* decideApproval of the internal API: the transition table is consulted   *)
(* on the row read, the UPDATE is by id alone.                             *)

resolveApprovalDecisionIdentity(role) == canRoleDecide(role)

authorizeApprovalRole(role, required) ==
  required = "manager" \/ normalizeRbacRole(role) = normalizeRbacRole(required)

resolveApprovalDecisionTransition(from) == from = "pending"

(* The identity is checked before the approval is read.                    *)
BeginApiDecide(h, r) ==
  LET a == readApproval(r) IN
  /\ ApiDecisions
  /\ UNCHANGED tables
  /\ \/ ~resolveApprovalDecisionIdentity(r.role) /\ Finish(h, [outcome |-> "role_forbidden"])
     \/ /\ resolveApprovalDecisionIdentity(r.role)
        /\ \/ a = None /\ Finish(h, [outcome |-> "not_found"])
           \/ /\ a # None /\ ~authorizeApprovalRole(r.role, a.role)
              /\ Finish(h, [outcome |-> "role_forbidden"])
           \/ /\ a # None /\ authorizeApprovalRole(r.role, a.role)
              /\ ~resolveApprovalDecisionTransition(a.state)
              /\ Finish(h, [outcome |-> "already_decided"])
           \/ /\ a # None /\ authorizeApprovalRole(r.role, a.role)
              /\ resolveApprovalDecisionTransition(a.state)
              /\ Continue(h, "apiWrite")

ApiUpdate(h) ==
  LET r == req[h] IN
  /\ pc[h] = "apiWrite"
  /\ approval' = [approval EXCEPT ![r.approval].state = r.decision, ![r.approval].by = h]
  /\ Continue(h, "apiContinue")
  /\ UNCHANGED <<grantRequest, installation, decided, idem, continued, clock, req>>

runApprovalContinuation(h) ==
  LET r == req[h] IN
  /\ pc[h] = "apiContinue"
  /\ continued' = continued \cup {[approval |-> r.approval, decision |-> r.decision, by |-> h]}
  /\ Finish(h, [outcome |-> r.decision])
  /\ UNCHANGED <<approval, grantRequest, installation, decided, idem, clock, req>>

(* The UPDATE, an execution record or the continuation rejects.            *)
ApiFail(h) ==
  /\ pc[h] \in {"apiWrite", "apiContinue"}
  /\ Finish(h, [outcome |-> "error"])
  /\ UNCHANGED tables /\ UNCHANGED <<clock, req>>

-----------------------------------------------------------------------------
Begin(h) ==
  \/ \E r \in [op : {"request"}, tenant : Tenants, key : Keys, proposal : Proposals, now : {clock}] :
       Accept(h, r) /\ BeginRequest(h, r)
  \/ \E r \in [op : {"plugin"}, tenant : Tenants] : Accept(h, r) /\ PluginRequest(h, r)
  \/ \E r \in [op : {"decide"}, tenant : Tenants, approval : Handlers, role : ActorRoles,
               decision : Decisions, at : {clock}] : Accept(h, r) /\ BeginDecide(h, r)
  \/ \E r \in [op : {"apiDecide"}, tenant : Tenants, approval : Handlers, role : ActorRoles,
               decision : Decisions, at : {clock}] : Accept(h, r) /\ BeginApiDecide(h, r)

Tick == clock < MaxClock /\ clock' = clock + 1 /\ UNCHANGED tables /\ UNCHANGED <<req, pc, answer>>

Handle(h) == \/ WriteRequest(h) \/ CatchRequest(h)
             \/ WriteDecision(h) \/ CatchDecision(h)
             \/ ApiUpdate(h) \/ runApprovalContinuation(h) \/ ApiFail(h)

Next == Tick \/ \E h \in Handlers : Begin(h) \/ Handle(h)

Spec == Init /\ [][Next]_vars

-----------------------------------------------------------------------------
(* Properties.                                                             *)

(* Decisions of the admin route stay single: an approval that several      *)
(* approvers decide at once has one audit event, and a decision the row    *)
(* credits to the admin route is the one that event records.               *)
OneDecision ==
  /\ \A d, e \in decided : d.approval = e.approval => d = e
  /\ \A a \in Handlers : approval[a] # None /\ approval[a].by # None /\ req[approval[a].by].op = "decide" =>
       \E e \in decided : /\ e.approval = a /\ e.decision = approval[a].state
                          /\ e.by = approval[a].by

(* No capability grant is live that an approver did not approve, exactly   *)
(* as the operator proposed it and the approver saw it (the batch of       *)
(* admin-approvals.ts).                                                    *)
GrantNeedsDecision ==
  \A a \in Handlers : installation[a] # None =>
    /\ installation[a] = req[a].proposal
    /\ \E e \in decided : e.approval = a /\ e.decision = "approved"

(* An installation request the admin route approved is installed; one it   *)
(* rejected, or nobody decided, is not.                                    *)
ApprovedIsInstalled ==
  \A a \in Handlers : approval[a] # None /\ approval[a].hook = "installation.request" =>
    \/ installation[a] # None <=> approval[a].state = "approved"
    \/ approval[a].by # None /\ req[approval[a].by].op = "apiDecide"

(* Whoever decided was an approver of the approval's tenant with the role  *)
(* the approval asks for, and decided while it had not expired, also when  *)
(* the clock passed the expiry before the write.                           *)
DecisionIsAuthorised ==
  \A e \in decided :
    LET a == approval[e.approval] IN
    /\ req[e.by].tenant = a.tenant
    /\ e.role \notin {"operator", "viewer"}
    /\ a.role \in {"owner", "tenant-admin"} => e.role = a.role
    /\ a.created <= e.at /\ e.at < a.expires

(* The answer of a decision agrees with the tables: success is backed by   *)
(* the handler's own event, and a refusal as already decided means that    *)
(* some decision was made.                                                 *)
DecisionAnswerIsHonest ==
  \A h \in Handlers : answer[h] # None /\ req[h].op = "decide" =>
    /\ answer[h].outcome \in Decisions =>
         \E e \in decided : /\ e.by = h /\ e.approval = req[h].approval
                            /\ e.decision = answer[h].outcome
    /\ answer[h].outcome = "already_decided" => approval[req[h].approval].state # "pending"
    /\ answer[h].outcome \in {"not_found", "role_forbidden", "expired"} =>
         \A e \in decided : e.by # h

(* Repeating a request under its key, concurrently or after a lost answer, *)
(* returns the pending approval of the same tenant and proposal, and two   *)
(* approvals of one tenant and key are a retention period apart.           *)
RequestOnce ==
  /\ \A h \in Handlers : answer[h] # None /\ answer[h].outcome = "pending" =>
       LET a == answer[h].approval IN
       approval[a] # None /\ approval[a].tenant = req[h].tenant /\ grantRequest[a] = req[h].proposal
  /\ \A a, b \in Handlers :
       /\ a # b /\ grantRequest[a] # None /\ grantRequest[b] # None
       /\ req[a].tenant = req[b].tenant /\ req[a].key = req[b].key
       => \/ approval[a].created + Retention <= approval[b].created
          \/ approval[b].created + Retention <= approval[a].created

(***************************************************************************)
(* A continuation runs only for an approval that is decided                *)
(* (decideApproval of api.ts:622).                                         *)
(***************************************************************************)
ContinuationFollowsDecision == \A c \in continued : approval[c.approval].state \in Decisions

(***************************************************************************)
(* What a decision does: it is taken once, by somebody who may, and the    *)
(* grant, the installation and the continuation follow from it             *)
(* (admin-approvals.ts:76-114).                                            *)
(***************************************************************************)
DecisionIsSound ==
  OneDecision /\ GrantNeedsDecision /\ ApprovedIsInstalled /\ DecisionIsAuthorised /\ ContinuationFollowsDecision

(***************************************************************************)
(* What callers are told, after lost acknowledgements and repeated         *)
(* requests (admin-approvals.ts:115, admin-install-requests.ts:160).       *)
(***************************************************************************)
AnswersAreHonest == DecisionAnswerIsHonest /\ RequestOnce
=============================================================================
