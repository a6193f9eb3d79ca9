----------------------------- MODULE Execution -----------------------------
(***************************************************************************)
(* Hooks dispatched by a host: an outbound webhook through the proxy       *)
(* (proxy/src/index.ts), whose transform chain decides what is forwarded,  *)
(* or an event or policy hook planned as apps/example-saas/src/index.ts    *)
(* does.  Each run passes the daily budget first (budget-guard.ts), is a   *)
(* DynamicWorker run, and is counted when it has ended.  The operator      *)
(* changes installations and mappings meanwhile.                           *)
(***************************************************************************)
EXTENDS DynamicWorker

CONSTANTS Dispatches, MaxSteps,
          Scenarios,           \* what is dispatched, over which installations and rows
          AllowedOrigins, Mappings,       \* of the proxy, and what operators write
          DailyBudget,
          MaxOperations        \* bound on the operator's changes

ASSUME HostConstants ==
  /\ RunIds = Dispatches \X (1..MaxSteps)
  /\ MaxSteps \in Nat \ {0} /\ MaxOperations \in Nat /\ DailyBudget \in Nat \ {0}

(* A scenario begins with rows of earlier executions, and with             *)
(* installations that have an id and are enabled or not.                   *)
ASSUME ScenariosAreSound ==
  \A s \in Scenarios :
    /\ \A row \in s.rows : row.id \notin RunIds /\ row.createdAt \in 0..MaxClock
    /\ \A i \in DOMAIN s.installations :
         {"id", "enabled"} \subseteq DOMAIN s.installations[i] /\ s.installations[i].enabled \in BOOLEAN

VARIABLES
  scenario,
  installations,       \* a sequence of rows
  mapping,             \* the proxy's mapping of the one inbound path
  dispatch,            \* of each dispatch: the mapping and the plan it holds
  gate,                \* the budget check of each run
  forwarded,           \* what destinations received
  operations,          \* the operator's changes so far
  concurrent           \* the most runs that were past the check and not counted

hostVars == <<scenario, installations, mapping, dispatch, gate, forwarded, operations, concurrent>>
vars == <<ledgerVars, workerVars, hostVars>>

NoDispatch == [phase |-> "idle", plan |-> None, mapping |-> None, payload |-> None]
Runs(d) == IF dispatch[d].plan = None THEN {} ELSE {<<d, i>> : i \in DOMAIN dispatch[d].plan.steps}

Ends(d, phase) == dispatch' = [dispatch EXCEPT ![d].phase = phase]

-----------------------------------------------------------------------------
(* handleWebhookProxy: the mapping is read, then the installations; the    *)
(* mapping that was read is the one the webhook goes to.                   *)
FindMapping(d) ==
  /\ d \in DOMAIN scenario.dispatches /\ scenario.dispatches[d].hook = "webhook.outbound"
  /\ dispatch[d].phase = "idle"
  /\ IF mapping = None THEN Ends(d, "refused")
     ELSE dispatch' = [dispatch EXCEPT ![d].phase = "mapped", ![d].mapping = mapping]
  /\ UNCHANGED <<ledgerVars, workerVars, scenario, installations, mapping, gate, forwarded,
                 operations, concurrent>>

(* A scenario may dispatch its hooks one after the other.                  *)
Before(d) == \A e \in 1..(d - 1) : dispatch[e].phase # "idle" /\ \A r \in Runs(e) : run[r].stage = "done"

(* A transform with one installation is planned; an event's payloads are   *)
(* routed to the schema version of each installation first.                *)
PlanDispatch(d) ==
  d \in DOMAIN scenario.dispatches /\ (scenario.inTurn => Before(d)) /\
  LET wanted == scenario.dispatches[d]
      plan == planExecution(wanted.hook, wanted.type, "default", installations)
      routed == routeHookPayloads(wanted.hook, installations, scenario.schemas) IN
  /\ dispatch[d].phase = IF wanted.hook = "webhook.outbound" THEN "mapped" ELSE "idle"
  /\ IF plan.ok /\ (wanted.type = "event" => routed.ok)
     THEN dispatch' = [dispatch EXCEPT ![d].phase = "planned", ![d].plan = plan]
     ELSE Ends(d, "refused")
  /\ UNCHANGED <<ledgerVars, workerVars, scenario, installations, mapping, gate, forwarded,
                 operations, concurrent>>

-----------------------------------------------------------------------------
(* enforceBudgetBeforeExecution: the counter is read without its lock.     *)
(* The budget is one of executions; the one of CPU time, read and added in *)
(* the same steps, is left out.                                            *)
isBudgetExceeded(usage) == usage >= DailyBudget

InFlight == {r \in RunIds : gate[r] = "admitted" /\ counting[r].phase \notin {"counted", "failed"}}

AtLeast(a, b) == IF a >= b THEN a ELSE b

RequestOf(d, i) ==
  LET step == dispatch[d].plan.steps[i]
      wanted == scenario.dispatches[d]
      current == CHOOSE row \in Range(installations) : row.id = step.id IN
  [hook |-> wanted.hook, hookType |-> wanted.type, lossless |-> wanted.lossless, asks |-> wanted.asks,
   installation |-> step.id, artifact |-> current.artifact, grantRevision |-> current.grantRevision]

Previous(d, i) == IF i = 1 \/ dispatch[d].plan.mode = "parallel" THEN TRUE ELSE run[<<d, i - 1>>].stage = "done"

CheckBudget(d, i) ==
  LET r == <<d, i>> IN
  /\ dispatch[d].phase = "planned" /\ r \in Runs(d) /\ gate[r] = "none" /\ Previous(d, i)
  /\ IF scenario.budgeted /\ isBudgetExceeded(counter)
     THEN gate' = [gate EXCEPT ![r] = "disabling"] /\ UNCHANGED <<run, cache, concurrent>>
     ELSE /\ gate' = [gate EXCEPT ![r] = "admitted"]
          /\ concurrent' = AtLeast(concurrent, Cardinality(InFlight) + 1)
          /\ BeginRun(r, RequestOf(d, i))
  /\ UNCHANGED <<ledgerVars, scenario, installations, mapping, dispatch, forwarded, operations>>

SetEnabled(id, enabled) ==
  installations' = [i \in DOMAIN installations |->
                      IF installations[i].id = id THEN [installations[i] EXCEPT !.enabled = enabled]
                      ELSE installations[i]]

Gate(r, phase) == gate' = [gate EXCEPT ![r] = phase]

DisableInstallation(r) ==
  /\ gate[r] = "disabling"
  /\ \/ SetEnabled(dispatch[r[1]].plan.steps[r[2]].id, FALSE) /\ \E phase \in {"recording", "threw"} : Gate(r, phase)
     \/ Gate(r, "threw") /\ UNCHANGED installations
  /\ UNCHANGED <<ledgerVars, workerVars, scenario, mapping, dispatch, forwarded, operations, concurrent>>

(* The execution that was refused is written, and its notice published.    *)
RecordRefusal(r) ==
  /\ gate[r] = "recording"
  /\ \/ executions' = executions \cup {ExecutionRow(r, "budget_exceeded", "message", TRUE, clock)}
        /\ \E phase \in {"refused", "threw"} : Gate(r, phase)
     \/ Gate(r, "threw") /\ UNCHANGED executions
  /\ UNCHANGED <<clock, recording, metered, counterVars, archiveVars, workerVars, scenario,
                 installations, mapping, dispatch, forwarded, operations, concurrent>>

(* A host with a budget counts each run that has ended.                    *)
CountRun(r) ==
  /\ scenario.budgeted /\ gate[r] = "admitted" /\ run[r].stage = "done" /\ counting[r].phase = "none"
  /\ counting' = [counting EXCEPT ![r].phase = "queued"] /\ lockQueue' = Append(lockQueue, r)
  /\ UNCHANGED <<clock, recorderVars, counter, archiveVars, workerVars, hostVars>>

-----------------------------------------------------------------------------
Ended(r) == gate[r] \in {"refused", "threw"} \/ run[r].stage = "done"

(* What the chain's executor gets of a run: its value, or its error.       *)
Ran(r) ==
  IF gate[r] # "admitted" THEN [ok |-> FALSE, code |-> "plugin_result_invalid"]
  ELSE IF run[r].answer.kind = "value" THEN [ok |-> TRUE, value |-> run[r].answer.value]
  ELSE [ok |-> FALSE, code |-> run[r].answer.code]

Original == None

FinishChain(d) ==
  LET r == <<d, 1>>
      chain == IF dispatch[d].plan.steps = <<>> THEN [ok |-> TRUE, payload |-> Original]
               ELSE runTransformChain(dispatch[d].plan, Original, Ran(r)) IN
  /\ dispatch[d].phase = "planned" /\ dispatch[d].mapping # None
  /\ \A s \in Runs(d) : Ended(s)
  /\ IF chain.ok
     THEN dispatch' = [dispatch EXCEPT ![d].phase = "forwarding", ![d].payload = chain.payload]
     ELSE Ends(d, "refused")
  /\ UNCHANGED <<ledgerVars, workerVars, scenario, installations, mapping, gate, forwarded,
                 operations, concurrent>>

(* forward is called once; what it answers is the caller's.                *)
Forward(d) ==
  /\ dispatch[d].phase = "forwarding"
  /\ forwarded' = forwarded \cup {[dispatch |-> d, to |-> dispatch[d].mapping.destination, body |-> dispatch[d].payload]}
  /\ \E phase \in {"done", "refused"} : Ends(d, phase)
  /\ UNCHANGED <<ledgerVars, workerVars, scenario, installations, mapping, gate, operations, concurrent>>

-----------------------------------------------------------------------------
(* The operator: upsertProxyMapping and deleteProxyMapping, a new artifact *)
(* or grant revision for an installation, reEnableBudgetDisabledInstallation. *)
Operates(on) ==
  /\ operations < MaxOperations /\ on \in scenario.operated /\ operations' = operations + 1
  /\ UNCHANGED <<ledgerVars, workerVars, scenario, dispatch, gate, forwarded, concurrent>>

UpsertMapping ==
  /\ Operates("mapping")
  /\ \E m \in Mappings : validateProxyMapping(m, AllowedOrigins) /\ mapping' = m
  /\ UNCHANGED installations

DeleteMapping == Operates("mapping") /\ mapping' = None /\ UNCHANGED installations

Reconfigure(i) ==
  /\ Operates("installation")
  /\ \E artifact \in {"a1", "a2"} :
       installations' = [installations EXCEPT ![i].artifact = artifact, ![i].grantRevision = @ + 1]
  /\ UNCHANGED mapping

ReEnable(i) == Operates("budget") /\ SetEnabled(installations[i].id, TRUE) /\ UNCHANGED mapping

Init ==
  /\ scenario \in Scenarios
  /\ LedgerInit(scenario.rows) /\ WorkerInit
  /\ installations = scenario.installations
  /\ mapping \in {m \in Mappings : validateProxyMapping(m, AllowedOrigins)}
  /\ dispatch = [d \in Dispatches |-> NoDispatch]
  /\ gate = [r \in RunIds |-> "none"]
  /\ forwarded = {} /\ operations = 0 /\ concurrent = 0

Next ==
  \/ \E d \in Dispatches :
       \/ FindMapping(d) \/ PlanDispatch(d) \/ FinishChain(d) \/ Forward(d)
       \/ \E i \in 1..MaxSteps : CheckBudget(d, i)
  \/ \E r \in RunIds :
       \/ DisableInstallation(r) \/ RecordRefusal(r) \/ CountRun(r)
       \/ RunStep(r) /\ UNCHANGED hostVars
       \/ (RecordInCounter(r) \/ PutCounter(r)) /\ UNCHANGED <<workerVars, hostVars>>
  \/ scenario.archived /\ ArchiveStep /\ UNCHANGED <<workerVars, hostVars>>
  \/ UpsertMapping \/ DeleteMapping
  \/ \E i \in DOMAIN installations : Reconfigure(i) \/ ReEnable(i)

(* The wall-clock timers fire, and the calls of the recorder answer or     *)
(* fail; the worker, its capability calls and the evidence may hang.       *)
Fairness ==
  \A r \in RunIds :
    /\ WF_vars((TimerFires(r) \/ InvocationThrows(r) \/ EvidenceTimerFires(r) \/ AnswerRun(r)) /\ UNCHANGED hostVars)
    /\ WF_vars((WriteExecution(r) \/ MeterExecution(r)) /\ UNCHANGED <<workerVars, hostVars>>)

Spec == Init /\ [][Next]_vars /\ Fairness

-----------------------------------------------------------------------------
TypeOK ==
  /\ LedgerTypeOK
  /\ \A r \in RunIds :
       /\ run[r].stage \in {"idle", "fetching", "running", "draining", "responded", "threw",
                            "settled", "recording", "done"}
       /\ run[r].answer.kind \in IF run[r].stage = "done" THEN {"value", "error"} ELSE {"none"}
       /\ gate[r] \in {"none", "admitted", "disabling", "recording", "refused", "threw"}
  /\ \A d \in Dispatches :
       dispatch[d].phase \in {"idle", "mapped", "planned", "forwarding", "done", "refused"}
  /\ operations \in 0..MaxOperations /\ concurrent \in 0..Cardinality(RunIds)

(* A run executes the artifact, and holds the bindings of the grant        *)
(* revision, its own request names: no warm worker keeps older ones        *)
(* (deriveWorkerId, getCode).                                              *)
WorkerIsTheRequests ==
  \A r \in RunIds :
    LET worker == run[r].worker IN
    worker # None => /\ worker.artifact = run[r].request.artifact
                     /\ worker.env.installation = run[r].request.installation
                     /\ worker.env.grantRevision = run[r].request.grantRevision

(* What a run answers is what was recorded of it: a value, or an allowed   *)
(* policy, only with a row that says success, and a policy whose run       *)
(* failed is denied (createCloudflareDynamicWorkerCaller).                 *)
AnswerIsRecorded ==
  \A r \in RunIds :
    LET answer == run[r].answer
        Row(status) == \E row \in Written : row.id = r /\ row.status = status IN
    /\ answer.kind = "value" /\ answer.code = None => Row("success")
    /\ answer.kind = "value" /\ answer.value.status # "deny" => Row("success")
    /\ answer.kind = "error" /\ answer.code \in {"egress_denied", "plugin_timeout"} =>
         \E status \in {"egress_denied", "timeout"} : Row(status)

(* An execution recorded as a success left behind no capability call that  *)
(* was under way when its response was made, and none that had failed      *)
(* unnoticed: the calls of the handler, and those made while the runtime   *)
(* waited for them (the loop of cloudflare.ts:1049).                       *)
SuccessIsSettled ==
  \A row \in Written : row.id \in RunIds /\ row.status = "success" =>
    \A i \in DOMAIN run[row.id].calls : i <= run[row.id].made =>
      Settled(run[row.id].calls, i) /\ ~Unhandled(run[row.id].calls, i)

(* A success leaves no capability call under way: the claim of             *)
(* .changeset/calm-workers-call.md:20 that unawaited calls are drained     *)
(* before the wrapper can emit a successful response.  The loop of         *)
(* cloudflare.ts:1049 cannot wait for a call that is made after it.        *)
SuccessLeavesNoCallInFlight ==
  \A row \in Written : row.id \in RunIds /\ row.status = "success" =>
    \A i \in DOMAIN run[row.id].calls : Settled(run[row.id].calls, i)

(* What a destination receives is the output of a recorded, successful     *)
(* transform of that webhook, and the destination is one operators may map *)
(* (handleWebhookProxy, runTransformChain).                                *)
ForwardedIsTransformed ==
  \A sent \in forwarded :
    /\ sent.to.origin \in AllowedOrigins /\ isPublicHttpUrl(sent.to)
    /\ \E row \in Written : row.id = sent.body /\ row.id[1] = sent.dispatch /\ row.status = "success"

(* The budget is passed by no more than the runs that were under way at    *)
(* one time, and a refused run leaves its installation disabled until an   *)
(* operator enables it (enforceBudgetBeforeExecution).                     *)
BudgetHolds ==
  /\ counter <= DailyBudget - 1 + concurrent
  /\ \A r \in RunIds : gate[r] \in {"recording", "refused"} /\ operations = 0 =>
       \A row \in Range(installations) : row.id = dispatch[r[1]].plan.steps[r[2]].id => ~row.enabled

(* A run the caller has begun is answered, whatever the worker, its        *)
(* capability calls and the evidence do.                                   *)
RunIsAnswered == \A r \in RunIds : run[r].stage = "fetching" ~> run[r].stage = "done"

(***************************************************************************)
(* Every run is answered; its answer agrees with its record, and a success *)
(* has left behind no capability call made before its response             *)
(* (cloudflare.ts:321, 594, 1049).                                         *)
(***************************************************************************)
RunEndsHonestly == [](AnswerIsRecorded /\ SuccessIsSettled) /\ RunIsAnswered

(***************************************************************************)
(* The daily budget binds and is charged at most once a run, and no        *)
(* increment is lost (budget-guard.ts:45, usage-counter.ts:63,             *)
(* execution-usage-recorder.ts:63).                                        *)
(***************************************************************************)
BudgetIsKept == BudgetHolds /\ UsageIsCountedOnce /\ CounterKeepsIncrements
=============================================================================
