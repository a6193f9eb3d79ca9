---------------------------- MODULE LocalRuntime ----------------------------
(***************************************************************************)
(* A hook dispatched to the local sandbox (loader/src/index.ts) and tried  *)
(* again by runWithRetryPolicy (host-sdk/src/index.ts).  Every attempt is  *)
(* a worker thread: the handler runs there and its capability calls are    *)
(* messages to the parent, which answers them through CapabilityBroker.    *)
(* The parent settles the attempt once, on the worker's last message, on a *)
(* timer or on the death of the worker, and asks for its termination.      *)
(* Until that takes effect the worker runs on, and what it posts is still  *)
(* served; broker calls under way go on.                                   *)
(***************************************************************************)
EXTENDS CapabilityBroker

CONSTANTS Hooks,           \* a type, and what the handler asks for on each attempt
          MaxSubrequests

(* What handlers ask for, and what an attempt can come to.                 *)
Requests == UNION {ToSet(hook.tries[a]) : hook \in Hooks, a \in Attempts}
Results == {"accepted", "transformed", "allow", "deny", "lossy", "failed"}
Outcomes == [ok : {TRUE, FALSE, None}, value : Results]

ASSUME RuntimeConstants ==
  /\ \A hook \in Hooks :
       /\ hook.type \in {"event", "transform", "policy"}
       /\ \A a \in Attempts : hook.tries[a] \in Seq(ToSet(hook.tries[a]))
  /\ MaxSubrequests \in 0..MaxCalls
  /\ IsFiniteSet(Attempts) /\ Attempts = 1..Cardinality(Attempts)

(* The value a key-value input puts is its size.                           *)
ASSUME PutsHaveASize ==
  \A request \in Requests :
    request.name = "kv.state" /\ Proper(request.value) => request.value \in Nat

ASSUME NoneIsNoOutcome ==
  /\ None \notin {TRUE, FALSE} /\ None \notin Outcomes
  /\ None \notin [input : Requests, result : Calls, fields : SUBSET {"found", "amount", "memo"}]

VARIABLES
  hook,                \* the hook dispatched
  worker,              \* the worker of each attempt
  subrequests,         \* counted in the worker
  pending,             \* capability calls the worker waits for
  message,             \* what the worker posts last, known once the handler has ended
  ahead,               \* the calls posted before that message
  made,                \* history: the calls made when the handler was found complete
  timer,               \* the parent's timer
  settled              \* how the parent settled the attempt

runtimeVars == <<hook, worker, subrequests, pending, message, ahead, made, timer, settled>>
vars == <<phase, held, input, providerVars, brokerVars, runtimeVars>>

(* What an attempt can come to: a canonical result, an SDK failure inside  *)
(* a result, or an error.  Nothing the parent does depends on the code of  *)
(* a failure, so the codes are not told apart.                             *)
Accepted(type) == CASE type = "event" -> {"accepted"} [] type = "transform" -> {"transformed"}
                    [] type = "policy" -> {"allow", "deny"}
Value(v) == [ok |-> TRUE, value |-> v]
DispatchFailure == [ok |-> FALSE, value |-> "failed"]
Error == [ok |-> None, value |-> "failed"]

(* A worker that is gone takes with it what it waits for and would post.   *)
Gone(a) ==
  /\ worker' = [worker EXCEPT ![a] = "gone"]
  /\ pending' = [pending EXCEPT ![a] = {}] /\ message' = [message EXCEPT ![a] = None]
  /\ ahead' = [ahead EXCEPT ![a] = 0]

-----------------------------------------------------------------------------
(* retryPolicyForHookType and shouldRetryHookFailure: only events are      *)
(* tried again.                                                            *)
maxAttempts == IF hook.type = "event" THEN 2 ELSE 1

shouldRetry(a) == settled[a].ok = None /\ a < maxAttempts

StartAttempt(a) ==
  /\ worker[a] = "none"
  /\ IF a = 1 THEN TRUE ELSE settled[a - 1] # None /\ shouldRetry(a - 1)
  /\ \/ /\ worker' = [worker EXCEPT ![a] = "starting"]
        /\ timer' = [timer EXCEPT ![a] = "startup"]
        /\ UNCHANGED settled
     \/ /\ worker' = [worker EXCEPT ![a] = "gone"]    \* new Worker throws
        /\ settled' = [settled EXCEPT ![a] = Error]
        /\ UNCHANGED timer
  /\ UNCHANGED <<phase, held, input, providerVars, brokerVars, hook, subrequests,
                 pending, message, ahead, made>>

(* run: the bundle is evaluated before the worker reports that it started. *)
EvaluateBundle(a) ==
  /\ worker[a] = "starting"
  /\ \/ worker' = [worker EXCEPT ![a] = "running"] /\ UNCHANGED message
     \/ /\ worker' = [worker EXCEPT ![a] = "failed"]
        /\ message' = [message EXCEPT ![a] = Error]
  /\ UNCHANGED <<phase, held, input, providerVars, brokerVars, hook, subrequests,
                 pending, ahead, made, timer, settled>>

(* The started message is posted, and the parent has yet to handle it.     *)
StartReported(a) == timer[a] = "startup" /\ worker[a] \in {"running", "ended", "posted"}

(* Mutated: the handler timeout is not armed when the worker has started.  *)
ParentSeesStart_NoTimer(a) ==
  /\ StartReported(a) /\ settled[a] = None
  /\ timer' = [timer EXCEPT ![a] = "off"]
  /\ UNCHANGED <<phase, held, input, providerVars, brokerVars, hook, worker,
                 subrequests, pending, message, ahead, made, settled>>

(* The parent handles the started message: the startup timer gives way to  *)
(* the handler's.                                                          *)
ParentSeesStart(a) ==
  /\ StartReported(a) /\ settled[a] = None
  /\ timer' = [timer EXCEPT ![a] = "handler"]
  /\ UNCHANGED <<phase, held, input, providerVars, brokerVars, hook, worker,
                 subrequests, pending, message, ahead, made, settled>>

-----------------------------------------------------------------------------
(* The handler.  callParentCapability counts the call before it posts it;  *)
(* a call over the limit, like a fetch, rejects inside the worker.  What   *)
(* the handler left behind calls after it has ended too, as long as the    *)
(* worker runs.                                                            *)
Runs(a) == worker[a] \in {"running", "ended", "posted"}

callParentCapability(a) ==
  LET i == subrequests[a] + 1 IN
  /\ Runs(a) /\ i <= Len(hook.tries[a])
  /\ subrequests' = [subrequests EXCEPT ![a] = i]
  /\ IF i > MaxSubrequests THEN UNCHANGED <<phase, input, pending>>
     ELSE /\ phase' = [phase EXCEPT ![<<a, i>>] = "requested"]
          /\ input' = [input EXCEPT ![<<a, i>>] = hook.tries[a][i]]
          /\ pending' = [pending EXCEPT ![a] = @ \cup {i}]
  /\ UNCHANGED <<held, providerVars, brokerVars, hook, worker, message, ahead, made, timer,
                 settled>>

(* What a handler may return; dispatchPlugin wraps it, or reports that it  *)
(* threw or is not of the hook's type.  A value may still fail to be       *)
(* lossless JSON.                                                          *)
HandlerReturns == {"accepted", "transformed", "allow", "deny", "lossy", Malformed}

dispatchPlugin(type, returned) ==
  IF returned \in Accepted(type) \cup {"lossy"} THEN Value(returned) ELSE DispatchFailure

validateResult(type, result) ==
  IF result.ok = TRUE /\ result.value \notin Accepted(type) THEN Error ELSE result

dispatchResults(type) ==
  {DispatchFailure} \cup
  {validateResult(type, dispatchPlugin(type, returned)) : returned \in HandlerReturns}

(* Mutated: calls that are still pending are forgotten.                    *)
handlerResults_Forgotten(a) == dispatchResults(hook.type)

(* A handler that returned while a capability call is outstanding fails.   *)
handlerResults(a) ==
  IF pending[a] # {} THEN {Error} ELSE dispatchResults(hook.type)

(* run: the handler returned, and the calls outstanding are looked at; or  *)
(* it threw, or took too long.                                             *)
Ends(a, outcome) ==
  /\ message' = [message EXCEPT ![a] = outcome]
  /\ made' = [made EXCEPT ![a] = subrequests[a]]
  /\ worker' = [worker EXCEPT ![a] = "ended"]

HandlerEnds(a) ==
  /\ worker[a] = "running" /\ settled[a] = None
  /\ \/ \E result \in handlerResults(a) : Ends(a, result)
     \/ subrequests[a] > MaxSubrequests /\ Ends(a, Error)      \* a call over the limit threw
     \/ Ends(a, Error)      \* the worker's own wall clock
  /\ UNCHANGED <<phase, held, input, providerVars, brokerVars, hook, subrequests,
                 pending, ahead, timer, settled>>

(* run().then: the last message is posted when the promise of run settles. *)
PostLast(a) ==
  /\ worker[a] = "ended" /\ settled[a] = None
  /\ worker' = [worker EXCEPT ![a] = "posted"]
  /\ ahead' = [ahead EXCEPT ![a] = subrequests[a]]
  /\ UNCHANGED <<phase, held, input, providerVars, brokerVars, hook, subrequests,
                 pending, message, made, timer, settled>>

-----------------------------------------------------------------------------
(* The parent: finishResolve and finishReject settle once, and terminate   *)
(* does not wait for the worker to stop.                                   *)
Settles(a, outcome) ==
  /\ settled[a] = None
  /\ settled' = [settled EXCEPT ![a] = outcome]
  /\ timer' = [timer EXCEPT ![a] = "off"]
  /\ UNCHANGED <<phase, held, input, providerVars, brokerVars, hook, subrequests, made>>

(* Messages come in order: the last one after the requests ahead of it.    *)
LastMessage(a) ==
  /\ worker[a] \in {"failed", "posted"} /\ ~StartReported(a)
  /\ \A i \in Indexes : i <= ahead[a] => phase[<<a, i>>] # "requested"
  /\ Settles(a, message[a])
  /\ UNCHANGED <<worker, pending, message, ahead>>

TimerFires(a) ==
  /\ timer[a] \in {"startup", "handler"}
  /\ Settles(a, Error)
  /\ UNCHANGED <<worker, pending, message, ahead>>

WorkerDies(a) == worker[a] \notin {"none", "gone"} /\ Settles(a, Error) /\ Gone(a)

(* worker.terminate takes effect.                                          *)
WorkerStops(a) ==
  /\ settled[a] # None /\ worker[a] # "gone"
  /\ Gone(a)
  /\ UNCHANGED <<phase, held, input, providerVars, brokerVars, hook, subrequests, made, timer,
                 settled>>

(* handleCapabilityRequest: an answer is posted only while the attempt is  *)
(* not settled.                                                            *)
DeliverAnswer(c) ==
  /\ phase[c] = "answered" /\ settled[c[1]] = None /\ Runs(c[1])
  /\ phase' = [phase EXCEPT ![c] = "delivered"]
  /\ pending' = [pending EXCEPT ![c[1]] = @ \ {c[2]}]
  /\ UNCHANGED <<held, input, providerVars, brokerVars, hook, worker, subrequests,
                 message, ahead, made, timer, settled>>

(* The broker numbers the requests in the order they were posted; one that *)
(* was posted after the last message is served after it, though the        *)
(* attempt is settled by then.                                             *)
Parent(c) ==
  /\ phase[c] = "requested" =>
       /\ ~StartReported(c[1])
       /\ settled[c[1]] = None /\ worker[c[1]] = "posted" => c[2] <= ahead[c[1]]
       /\ \A i \in 1..(c[2] - 1) : phase[<<c[1], i>>] # "requested"
  /\ BrokerStep(c)
  /\ UNCHANGED runtimeVars

-----------------------------------------------------------------------------
(* runScopedPluginDispatch: what the host gets.  A policy hook that failed *)
(* denies, with the code of its failure.                                   *)
dispatchResult(a) ==
  IF hook.type = "policy" /\ settled[a].ok # TRUE
  THEN [ok |-> TRUE, value |-> "deny"] ELSE settled[a]

Init ==
  /\ BrokerInit
  /\ input = [c \in Calls |-> None]
  /\ hook \in Hooks
  /\ worker = [a \in Attempts |-> "none"] /\ subrequests = [a \in Attempts |-> 0]
  /\ pending = [a \in Attempts |-> {}] /\ message = [a \in Attempts |-> None]
  /\ ahead = [a \in Attempts |-> 0] /\ made = [a \in Attempts |-> 0]
  /\ timer = [a \in Attempts |-> "off"] /\ settled = [a \in Attempts |-> None]

Next ==
  \/ \E a \in Attempts :
       \/ StartAttempt(a) \/ EvaluateBundle(a) \/ ParentSeesStart(a)
       \/ callParentCapability(a) \/ HandlerEnds(a) \/ PostLast(a)
       \/ LastMessage(a) \/ TimerFires(a) \/ WorkerDies(a) \/ WorkerStops(a)
  \/ \E c \in Calls : Parent(c) \/ DeliverAnswer(c)
  \/ Tick /\ UNCHANGED runtimeVars

(* A timer that is armed fires unless it is cleared; nothing else is owed: *)
(* the worker, the handler and the services may hang.                      *)
Fairness == \A a \in Attempts : WF_vars(TimerFires(a))

Spec == Init /\ [][Next]_vars /\ Fairness

-----------------------------------------------------------------------------
TypeOK ==
  /\ phase \in [Calls -> {"idle", "requested", "journal", "limit", "bucket", "provider", "lifecycle",
                          "invoke", "fetch", "commit", "returned", "reported", "answered", "delivered"}]
  /\ DOMAIN held = Calls /\ DOMAIN input = Calls /\ calledAt \in [Calls -> 0..MaxClock]
  /\ transaction \in Calls \cup {None}
  /\ \A i \in Indexes : journal[i] = None \/ journal[i].result \in Calls
  /\ (\A a \in Attempts : subrequests[a] \in 0..Len(hook.tries[a])) /\ pending \in [Attempts -> SUBSET Indexes]
  /\ worker \in [Attempts -> {"none", "starting", "running", "failed", "ended", "posted", "gone"}]
  /\ timer \in [Attempts -> {"off", "startup", "handler"}]

(* A result is final for the calls it rests on: when an attempt settles    *)
(* with a result, no call its handler had made when it was found complete  *)
(* is under way at the broker (index.ts:631), and a policy hook that       *)
(* settled without one is a deny to its host.                              *)
ResultHasNoCallInFlight ==
  \A a \in Attempts :
    settled[a] # None =>
      /\ settled[a].ok # None => \A i \in Indexes : i <= made[a] => ~InFlight(<<a, i>>)
      /\ hook.type = "policy" => dispatchResult(a).value \in {"allow", "deny"}

(* "A completed handler must not leave capability effects in flight"       *)
(* (index.ts:629): false of the code, since a promise chain the handler    *)
(* left behind calls after the check, and the parent serves the call.      *)
CompletedLeavesNoCallInFlight ==
  \A a \in Attempts :
    settled[a] # None /\ settled[a].ok = TRUE => \A i \in Indexes : ~InFlight(<<a, i>>)

(* A retry repeats no effect the plugin was told of: once an attempt was   *)
(* given the result of a call, a later attempt that makes the same call    *)
(* reaches no service and is given the same result.                        *)
ToldEffectIsNotRepeated ==
  \A a, b \in Attempts, i \in Indexes :
    a < b /\ Successful(<<a, i>>) =>
      /\ \A e \in effects : e.call # <<b, i>>
      /\ Successful(<<b, i>>) => held[<<b, i>>].by = held[<<a, i>>].by

(* The services that are asked to act are asked at most once per call:     *)
(* only an explicit rejection is tried again with the other token.         *)
AskedOnce ==
  \A c \in Calls :
    \* the candidate token may have acted before the fallback
    phase[c] = "invoke" /\ held[c].fallback => \A e \in effects : e.call # c

(* Every attempt that is started is settled, whatever the handler and the  *)
(* services do.                                                            *)
AttemptSettles == \A a \in Attempts : worker[a] = "starting" ~> settled[a] # None

(***************************************************************************)
(* What a plugin's call does to the world is done once and not lost: an    *)
(* effect the plugin was told of is not repeated by the retry of its       *)
(* event, a provider is asked once, and no write to the key-value store is *)
(* lost (index.ts:546, 948, 982 of capabilities).                          *)
(***************************************************************************)
EffectsHappenOnce == ToldEffectIsNotRepeated /\ AskedOnce /\ KvWritesKept

(***************************************************************************)
(* What leaves the broker is accounted for: every answer is in the audit,  *)
(* and a credential goes only to the origin it is for, among the origins   *)
(* the provider is configured with (index.ts:648, 836, 1625 of             *)
(* capabilities).                                                          *)
(***************************************************************************)
CallsAreAccountedFor == AnswerIsAudited /\ CredentialStaysHome
=============================================================================
