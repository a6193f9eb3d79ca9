--------------------------- MODULE DynamicWorker ---------------------------
(***************************************************************************)
(* One run of a plugin in a Cloudflare Dynamic Worker                      *)
(* (loader/src/cloudflare.ts): the caller takes a worker from the Loader,  *)
(* which keeps workers warm by id, posts the hook to it under a wall-clock *)
(* timeout, reads the trusted evidence of what it did, and records the     *)
(* execution before it answers.  The runtime inside the worker waits for   *)
(* the capability calls the handler left behind; what these go on to call  *)
(* while it waits is waited for too, and what is called later is not.      *)
(***************************************************************************)
EXTENDS ExecutionLedger, HostDispatch

CONSTANTS Durations,            \* whether a measured duration is a whole number
          Classifications       \* what a host's classifier makes of an error

VARIABLES
  run,                 \* of each invocation
  cache                \* the Loader's warm workers

workerVars == <<run, cache>>

(* The codes of invocations that failed.                                   *)
FailureCodes == {"plugin_timeout", "egress_denied", "plugin_memory_exceeded", "plugin_subrequest_exceeded",
                 "plugin_result_invalid", "runtime_unavailable"}

ASSUME NoneIsNoCode == None \notin FailureCodes

NoOutcome == [timedOut |-> FALSE, budget |-> FALSE, failed |-> FALSE, code |-> None, value |-> None]
NoAnswer == [kind |-> "none", code |-> None, value |-> None]
Idle == [stage |-> "idle", request |-> None, worker |-> None, alive |-> FALSE, startedAt |-> 0,
         calls |-> <<>>, looked |-> 0, made |-> 0, response |-> None, outcome |-> NoOutcome,
         answer |-> NoAnswer]

Answer(kind, code, value) == [kind |-> kind, code |-> code, value |-> value]
Throws(code) == Answer("error", code, None)

-----------------------------------------------------------------------------
validateRunRequest(request) ==
  /\ request.hook = "webhook.outbound" => request.hookType = "transform"
  /\ request.lossless

(* Mutated: the revision of the grants is not part of the id.              *)
deriveWorkerId_Ungranted(request) ==
  [request EXCEPT !.hook = None, !.hookType = None, !.lossless = None, !.asks = None,
                 !.grantRevision = None]

(* What the id is a hash of: everything but the hook and its payload, of   *)
(* which asks is the number of capability calls it makes a handler do.     *)
deriveWorkerId(request) ==
  [request EXCEPT !.hook = None, !.hookType = None, !.lossless = None, !.asks = None]

(* The bindings a host creates carry the authority of the grants it was    *)
(* given; it may fail to, or create some a worker must not have.           *)
createScopeBindings(request) ==
  {[scoped |-> TRUE, installation |-> request.installation, grantRevision |-> request.grantRevision],
   [scoped |-> FALSE]}

(* getCode: the artifact must be the bytes that were asked for.            *)
getCode(request) ==
  {IF ~delivered THEN [ok |-> FALSE, code |-> "plugin_artifact_invalid"]
   ELSE IF ~bindings.scoped THEN [ok |-> FALSE, code |-> "runtime_unavailable"]
   ELSE [ok |-> TRUE, worker |-> [id |-> deriveWorkerId(request), artifact |-> request.artifact,
                                  env |-> bindings]] :
     delivered \in BOOLEAN, bindings \in createScopeBindings(request)}

BeginRun(r, request) ==
  /\ run[r].stage = "idle"
  /\ run' = [run EXCEPT ![r] =
       IF validateRunRequest(request)
       THEN [Idle EXCEPT !.stage = "fetching", !.request = request, !.startedAt = clock]
       ELSE [Idle EXCEPT !.stage = "done", !.request = request, !.answer = Throws("input_invalid")]]
  /\ UNCHANGED cache

(* Loader.get: a warm worker of that id, or one that is loaded now.        *)
LoadWorker(r) ==
  /\ run[r].stage = "fetching"
  /\ \/ \E worker \in cache :
          /\ worker.id = deriveWorkerId(run[r].request)
          /\ run' = [run EXCEPT ![r].stage = "running", ![r].worker = worker, ![r].alive = TRUE]
          /\ UNCHANGED cache
     \/ \E code \in getCode(run[r].request) :
          IF code.ok
          THEN /\ cache' = {w \in cache : w.id # code.worker.id} \cup {code.worker}
               /\ run' = [run EXCEPT ![r].stage = "running", ![r].worker = code.worker, ![r].alive = TRUE]
          ELSE /\ run' = [run EXCEPT ![r].stage = "done", ![r].answer = Throws(code.code)]
               /\ UNCHANGED cache
  /\ UNCHANGED ledgerVars

-----------------------------------------------------------------------------
(* Inside the worker.  A handler calls capabilities, awaiting them or not, *)
(* and returns while some are under way; a promise chain it left behind    *)
(* calls for as long as the worker runs, whatever the caller waits for.    *)
CallCapability(r) ==
  /\ run[r].alive /\ Len(run[r].calls) < run[r].request.asks
  /\ \E handled \in BOOLEAN :
       run' = [run EXCEPT ![r].calls = Append(@, [state |-> "flight", rejectionHandled |-> handled])]
  /\ UNCHANGED <<cache, ledgerVars>>

CapabilitySettles(r) ==
  /\ run[r].alive
  /\ \E i \in DOMAIN run[r].calls, state \in {"fulfilled", "rejected"} :
       /\ run[r].calls[i].state = "flight"
       /\ run' = [run EXCEPT ![r].calls[i].state = state]
  /\ UNCHANGED <<cache, ledgerVars>>

Value(status, made) == [status |-> status, output |-> made]
Accepted(type) == CASE type = "event" -> {"accepted"} [] type = "transform" -> {"transformed"}
                    [] type = "policy" -> {"allow", "deny"}

(* validatePluginDispatchResult, validateHookReturn: a dispatch that       *)
(* failed, a return of the hook's type, or an error.                       *)
DispatchFailed == "dispatch_failed"
dispatchResults(r) ==
  {Value(status, r) : status \in Accepted(run[r].request.hookType) \cup {DispatchFailed}}

HandlerReturns(r) ==
  /\ run[r].stage = "running"
  /\ \/ \E value \in dispatchResults(r) :
          run' = [run EXCEPT ![r].stage = "draining", ![r].response = value]
     \/ run' = [run EXCEPT ![r].stage = "threw"]
  /\ UNCHANGED <<cache, ledgerVars>>

Settled(calls, i) == calls[i].state # "flight"
Unhandled(calls, i) == calls[i].state = "rejected" /\ ~calls[i].rejectionHandled

(* Mutated: calls nobody awaited are not waited for.                       *)
Awaited_Skipped(calls, i) == TRUE

(* await tracked.settlement.                                               *)
Awaited(calls, i) == Settled(calls, i)

(* The loop over inFlightCapabilityCalls, in the order they were made:     *)
(* looked is its index, and the length is read again at every turn.        *)
DrainNext(r) ==
  LET calls == run[r].calls
      i == run[r].looked + 1 IN
  /\ run[r].stage = "draining" /\ i \in DOMAIN calls /\ Awaited(calls, i)
  /\ run' = IF Unhandled(calls, i) THEN [run EXCEPT ![r].stage = "threw", ![r].response = None]
            ELSE [run EXCEPT ![r].looked = i]
  /\ UNCHANGED <<cache, ledgerVars>>

(* The loop ends, and the value is serialised, or is not JSON.  made is    *)
(* history: the calls there were by then.                                  *)
DrainEnds(r) ==
  /\ run[r].stage = "draining" /\ run[r].looked >= Len(run[r].calls)
  /\ \/ run' = [run EXCEPT ![r].stage = "responded", ![r].made = Len(run[r].calls)]
     \/ run' = [run EXCEPT ![r].stage = "threw", ![r].response = None]
  /\ UNCHANGED <<cache, ledgerVars>>

(* A limit of the platform ends the worker; one that is ended later does   *)
(* no more than stop calling.                                              *)
WorkerIsKilled(r) ==
  /\ run[r].stage \in {"running", "draining"}
  /\ run' = [run EXCEPT ![r].alive = FALSE, ![r].stage = "threw", ![r].response = None]
  /\ UNCHANGED <<cache, ledgerVars>>

-----------------------------------------------------------------------------
(* The caller.  A late answer of a run that timed out is not looked at.    *)
Settle(r, outcome) == run' = [run EXCEPT ![r].stage = "settled", ![r].response = None, ![r].outcome = outcome]

Failure(code) == [NoOutcome EXCEPT !.failed = TRUE, !.code = code]

(* The codes a host's classifier may give an error; any other answer, or   *)
(* an error of its own, is runtime_unavailable.                            *)
BudgetCodes == {"plugin_memory_exceeded", "plugin_subrequest_exceeded"}
classifyInvocationError ==
  Classifications \cap (BudgetCodes \cup {"plugin_result_invalid", "runtime_unavailable"})

InvocationThrows(r) ==
  /\ run[r].stage = "threw"
  /\ \E code \in classifyInvocationError :
       Settle(r, IF code \in BudgetCodes THEN [NoOutcome EXCEPT !.budget = TRUE, !.code = code]
                 ELSE Failure(code))
  /\ UNCHANGED <<cache, ledgerVars>>

(* getPluginDispatchFailureCode and isCanonicalPolicyResult.               *)
invocationOutcome(r) ==
  LET value == run[r].response
      type == run[r].request.hookType IN
  IF value.status = DispatchFailed THEN Failure("plugin_result_invalid")
  ELSE IF type = "policy" /\ value.status \notin Accepted(type) THEN Failure("plugin_result_invalid")
  ELSE [NoOutcome EXCEPT !.value = value]

(* readResponseValue: a body that is too long or is not the runtime's      *)
(* fails the invocation.                                                   *)
ReadResponse(r) ==
  /\ run[r].stage = "responded"
  /\ \/ Settle(r, invocationOutcome(r))
     \/ run' = [run EXCEPT ![r].stage = "threw", ![r].response = None]
  /\ UNCHANGED <<cache, ledgerVars>>

TimerFires(r) ==
  /\ run[r].stage \in {"fetching", "running", "draining", "responded"}
  /\ Settle(r, [NoOutcome EXCEPT !.timedOut = TRUE])
  /\ UNCHANGED <<cache, ledgerVars>>

invocationFailureCode(outcome, deniedEgress) ==
  IF outcome.timedOut THEN "plugin_timeout" ELSE IF outcome.budget THEN outcome.code
  ELSE IF deniedEgress THEN "egress_denied" ELSE IF outcome.failed THEN outcome.code ELSE None

executionStatus(outcome, deniedEgress) ==
  IF outcome.timedOut THEN "timeout" ELSE IF outcome.budget THEN "budget_exceeded"
  ELSE IF deniedEgress THEN "egress_denied" ELSE IF outcome.failed THEN "error" ELSE "success"

(* The row, and the call of the recorder.  durationMs is the difference of *)
(* two readings of performance.now.                                        *)
RecordRun(r, deniedEgress) ==
  LET code == invocationFailureCode(run[r].outcome, deniedEgress)
      status == executionStatus(run[r].outcome, deniedEgress) IN
  /\ run' = [run EXCEPT ![r].stage = "recording", ![r].outcome.code = code]
  /\ \E whole \in Durations :
       recording' = [recording EXCEPT ![r] =
         Recording("writing", ExecutionRow(r, status, code, whole, run[r].startedAt))]
  /\ UNCHANGED <<cache, clock, executions, metered, counterVars, archiveVars>>

(* Evidence that is malformed, or could not be read, counts as none.       *)
ReadEvidence(r) ==
  /\ run[r].stage = "settled"
  /\ \E deniedEgress \in BOOLEAN : RecordRun(r, deniedEgress)

EvidenceTimerFires(r) == run[r].stage = "settled" /\ RecordRun(r, FALSE)

(* Mutated: a failed run of an event is not answered.                      *)
answerOf_Silent(r) ==
  LET code == run[r].outcome.code IN
  IF recording[r].phase = "failed" THEN Throws("runtime_unavailable")
  ELSE IF code = None THEN Answer("value", None, run[r].outcome.value)
  ELSE IF run[r].request.hookType = "policy" THEN Answer("value", code, Value("deny", r))
  ELSE NoAnswer

answerOf(r) ==
  LET code == run[r].outcome.code IN
  IF recording[r].phase = "failed" THEN Throws("runtime_unavailable")
  ELSE IF code = None THEN Answer("value", None, run[r].outcome.value)
  ELSE IF run[r].request.hookType = "policy" THEN Answer("value", code, Value("deny", r))
  ELSE Throws(code)

AnswerRun(r) ==
  /\ run[r].stage = "recording" /\ recording[r].phase \in {"recorded", "failed"}
  /\ run' = [run EXCEPT ![r].stage = "done", ![r].outcome = NoOutcome, ![r].answer = answerOf(r)]
  /\ UNCHANGED <<cache, ledgerVars>>

WorkerInit == run = [r \in RunIds |-> Idle] /\ cache = {}

RunStep(r) ==
  \/ LoadWorker(r) \/ CallCapability(r) \/ CapabilitySettles(r) \/ HandlerReturns(r)
  \/ DrainNext(r) \/ DrainEnds(r)
  \/ WorkerIsKilled(r) \/ InvocationThrows(r) \/ ReadResponse(r) \/ TimerFires(r)
  \/ ReadEvidence(r) \/ EvidenceTimerFires(r) \/ AnswerRun(r)
  \/ (WriteExecution(r) \/ MeterExecution(r)) /\ UNCHANGED workerVars
=============================================================================
