-------------------------- MODULE CapabilityBroker --------------------------
(***************************************************************************)
(* createCapabilityBroker (capabilities/src/index.ts): grant, scope,       *)
(* provider, journal, rate limit, provider call, journal and audit, each   *)
(* await a step.  Every attempt has a broker of its own; the journal, the  *)
(* limiter and the audit sink outlive it.                                  *)
(***************************************************************************)
EXTENDS CapabilityProviders

CONSTANTS Grants,      \* capability -> grant; absent when not granted
          Providers,   \* the capabilities with a provider
          Limits,      \* capability -> calls per window; absent when unlimited
          WindowMs,
          MaxClock     \* bound on the clock

ASSUME BrokerConstants ==
  /\ WindowMs \in Nat \ {0} /\ MaxClock \in Nat
  /\ \A name \in DOMAIN Limits : Limits[name] \in Nat \ {0}

VARIABLES
  clock,
  calledAt,   \* when each call began
  journal,    \* call index -> the recorded capability, input and result
  bucket,     \* capability -> the rate limit window
  audit       \* the audit records, by call

brokerVars == <<clock, calledAt, journal, bucket, audit>>

Indexes == 1..MaxCalls

(* A result is named by the call whose provider produced it.               *)
Answered(c, by) == Goto(c, "answered", [by |-> by])
Rejects(c) == Answered(c, None)
Reports(c, status, reason) == Goto(c, "reported", [status |-> status, reason |-> reason])

(* The time is asked for by the limit alone: it passes while a limited      *)
(* capability is in use.                                                    *)
Tick ==
  /\ clock < MaxClock /\ clock' = clock + 1
  /\ \E c \in Calls : input[c] # None /\ input[c].name \in DOMAIN Limits
  /\ UNCHANGED <<phase, held, input, providerVars, calledAt, journal, bucket, audit>>

-----------------------------------------------------------------------------
(* The request reaches the broker; a broker numbers its calls in the order *)
(* they come.                                                              *)
authorize(c) ==
  LET name == input[c].name IN
  IF name \notin DOMAIN Grants THEN Reports(c, "denied", "grant_missing")
  ELSE LET verdict == assertScope(name, Grants[name], input[c]) IN
       IF verdict # Ok THEN Reports(c, "denied", verdict)
       ELSE IF name \notin Providers THEN Reports(c, "denied", "provider_missing")
       ELSE Goto(c, "journal", None)

Call(c) ==
  /\ phase[c] = "requested"
  /\ authorize(c)
  /\ calledAt' = [calledAt EXCEPT ![c] = clock]
  /\ UNCHANGED <<input, providerVars, clock, journal, bucket, audit>>

(* Mutated: the journal is not consulted.                                  *)
readJournaledCapabilityCall_Skip(c) ==
  /\ phase[c] = "journal"
  /\ Goto(c, "limit", None)
  /\ UNCHANGED <<input, providerVars, brokerVars>>

readJournaledCapabilityCall(c) ==
  LET entry == journal[c[2]] IN
  /\ phase[c] = "journal"
  /\ \/ entry = None /\ Goto(c, "limit", None)
     \/ entry # None /\ entry.input = input[c] /\ Answered(c, entry.result)
     \/ entry # None /\ entry.input # input[c] /\ Rejects(c)
     \/ Rejects(c)
  /\ UNCHANGED <<input, providerVars, brokerVars>>

(* createDurableObjectCapabilityRateLimiter: the bucket is read, and put   *)
(* back in a later step.                                                   *)
nextBucket(c) ==
  LET current == bucket[input[c].name] IN
  IF current = None THEN [started |-> calledAt[c], count |-> 1]
  ELSE IF calledAt[c] - current.started >= WindowMs THEN [started |-> calledAt[c], count |-> 1]
  ELSE [current EXCEPT !.count = @ + 1]

checkCapabilityRateLimit(c) ==
  LET name == input[c].name IN
  /\ phase[c] = "limit"
  /\ \/ name \notin DOMAIN Limits /\ Goto(c, "provider", None)
     \/ /\ name \in DOMAIN Limits
        /\ IF nextBucket(c).count > Limits[name] THEN Reports(c, "denied", "rate_limited")
           ELSE Goto(c, "bucket", nextBucket(c))
     \/ Rejects(c)
  /\ UNCHANGED <<input, providerVars, brokerVars>>

putBucket(c) ==
  /\ phase[c] = "bucket"
  /\ bucket' = [bucket EXCEPT ![input[c].name] = held[c]]
  /\ Goto(c, "provider", None)
  /\ UNCHANGED <<input, providerVars, clock, calledAt, journal, audit>>

Provide(c) == ProviderStep(c) /\ UNCHANGED brokerVars

(* Mutated: the entry is recorded before the result is known.              *)
journalEntry_NoResult(c) == [input |-> input[c], result |-> None, fields |-> {}]

(* The result is cut to the granted fields and journaled; a write that     *)
(* rejects may have been stored.                                           *)
journalEntry(c) ==
  [input |-> input[c], result |-> c,
   fields |-> applyResultScope(input[c].name, Grants[input[c].name], held[c].fields)]

writeCapabilityCall(c) ==
  /\ phase[c] = "returned"
  /\ \/ held[c].fields = Malformed /\ Reports(c, "denied", "result_scope_denied") /\ UNCHANGED journal
     \/ /\ held[c].fields # Malformed
        /\ journal' = [journal EXCEPT ![c[2]] = journalEntry(c)]
        /\ Reports(c, "success", "provider_completed") \/ Rejects(c)
     \/ held[c].fields # Malformed /\ Rejects(c) /\ UNCHANGED journal
  /\ UNCHANGED <<input, providerVars, clock, calledAt, bucket, audit>>

(* Mutated: the answer does not wait for the audit record.                 *)
writeCapabilityAudit_Unawaited(c) ==
  /\ phase[c] = "reported"
  /\ \/ /\ audit' = audit \cup {[call |-> c, status |-> held[c].status, reason |-> held[c].reason]}
     \/ UNCHANGED audit
  /\ Answered(c, IF held[c].status = "success" THEN c ELSE None)
  /\ UNCHANGED <<input, providerVars, clock, calledAt, journal, bucket>>

writeCapabilityAudit(c) ==
  /\ phase[c] = "reported"
  /\ \/ /\ audit' = audit \cup {[call |-> c, status |-> held[c].status, reason |-> held[c].reason]}
        /\ Answered(c, IF held[c].status = "success" THEN c ELSE None)
     \/ Rejects(c) /\ UNCHANGED audit
  /\ UNCHANGED <<input, providerVars, clock, calledAt, journal, bucket>>

BrokerStep(c) ==
  \/ Call(c) \/ readJournaledCapabilityCall(c)
  \/ checkCapabilityRateLimit(c) \/ putBucket(c)
  \/ Provide(c)
  \/ writeCapabilityCall(c) \/ writeCapabilityAudit(c)

BrokerInit ==
  /\ clock = 0
  /\ phase = [c \in Calls |-> "idle"] /\ held = [c \in Calls |-> None]
  /\ calledAt = [c \in Calls |-> 0]
  /\ effects = {} /\ facet = [k \in {} |-> 0] /\ transaction = None
  /\ journal = [i \in Indexes |-> None]
  /\ bucket = [name \in DOMAIN Limits |-> None]
  /\ audit = {}

-----------------------------------------------------------------------------
InFlight(c) == phase[c] \notin {"idle", "answered", "delivered"}
Successful(c) == phase[c] = "delivered" /\ held[c].by # None

(* "rejects capability calls over the per-capability rate limit": of the   *)
(* calls that began in the window of the bucket, no more than the limit    *)
(* reached the service.                                                    *)
RateLimitHolds ==
  \A name \in DOMAIN Limits :
    LET window == bucket[name].started..(bucket[name].started + WindowMs - 1)
        served == {c \in Calls : /\ \E e \in effects : e.call = c /\ input[c].name = name
                                 /\ calledAt[c] \in window}
    IN bucket[name] # None => Cardinality(served) <= Limits[name]

(* "Every hop must remain public and in the exact-origin grant"            *)
(* (threat-model.md:57): false of the code, whose provider checks a        *)
(* redirect against the origins it is configured with, not the grant's.    *)
EveryHopIsGranted ==
  \A request \in {e \in effects : e.kind = "fetch"} :
    request.origin \in normalizeHttpOrigins(Grants["http.fetch"].origins)

(* A plugin that was given the result of its own provider call finds the   *)
(* call audited, exactly once and as a success; a replayed result adds no  *)
(* audit record.                                                           *)
AnswerIsAudited ==
  \A c \in Calls :
    /\ Successful(c) =>
         {a.status : a \in {x \in audit : x.call = c}} = (IF held[c].by = c THEN {"success"} ELSE {})
    /\ Cardinality({a \in audit : a.call = c}) <= 1
=============================================================================
