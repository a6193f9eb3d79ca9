---------------------------- MODULE HostDispatch ----------------------------
(***************************************************************************)
(* The decisions a host makes before it runs a hook: which hook settings   *)
(* are allowed (manifest/src/contracts.ts), which installations run and in *)
(* what order, which version of the payload each gets, what a transform    *)
(* chain does with a failure (host-sdk/src/index.ts), and where a webhook  *)
(* may go (proxy/src/index.ts).                                            *)
(***************************************************************************)
EXTENDS Naturals, Sequences, FiniteSets, SequencesExt

Invalid == [ok |-> FALSE, code |-> "input_invalid"]
Incompatible == [ok |-> FALSE, code |-> "schema_incompatible"]

-----------------------------------------------------------------------------
HookTypes == {"event", "transform", "policy"}

allowedFailurePolicies ==
  [event |-> {"record-only"}, transform |-> {"fail-closed", "use-original"}, policy |-> {"fail-closed"}]

defaultFailurePolicies ==
  [event |-> "record-only", transform |-> "fail-closed", policy |-> "fail-closed"]

isValidHookConfiguration(name, type, policy) ==
  /\ type \in HookTypes /\ policy \in allowedFailurePolicies[type]
  /\ name = "webhook.outbound" => type = "transform" /\ policy = "fail-closed"

(* defineHooks: None is a hook that names no failure policy.               *)
failurePolicyOf(type, policy) == IF policy = "default" THEN defaultFailurePolicies[type] ELSE policy

(* The enabled installations of a hook, in the order they are stored.      *)
Listening(installations, hook) == SelectSeq(installations, LAMBDA i : i.enabled /\ hook \in i.hooks)

(* sort is stable: of two steps of one priority the one stored first runs   *)
(* first.                                                                  *)
ByPriority(steps) ==
  LET Precedes(i, j) == \/ steps[i].priority < steps[j].priority
                        \/ steps[i].priority = steps[j].priority /\ i < j
      Place(i) == 1 + Cardinality({j \in 1..Len(steps) : Precedes(j, i)}) IN
  [k \in 1..Len(steps) |-> steps[CHOOSE i \in 1..Len(steps) : Place(i) = k]]

planExecution(hook, type, policy, installations) ==
  LET failurePolicy == failurePolicyOf(type, policy)
      steps == Listening(installations, hook) IN
  IF \/ ~isValidHookConfiguration(hook, type, failurePolicy)
     \/ type = "transform" /\ Len(steps) # 1
  THEN Invalid
  ELSE [ok |-> TRUE, failurePolicy |-> failurePolicy,
        mode |-> IF type = "event" THEN "parallel" ELSE "serial",
        steps |-> IF type = "event" THEN steps
                  ELSE ByPriority(steps)]

-----------------------------------------------------------------------------
(* routeHookPayloads: each installation gets the payload of the newest     *)
(* published schema its range admits.  A version is a number, or is not    *)
(* one; a range is the set of versions it admits, or is not a range.  One  *)
(* installation that cannot be served fails the routing of all.            *)
Published(schemas) == {schemas[i].version : i \in DOMAIN schemas}

SchemasAreSound(schemas) ==
  /\ Published(schemas) \subseteq Nat
  /\ \A i, j \in DOMAIN schemas : schemas[i].version = schemas[j].version => i = j

maxSatisfying(versions, range) ==
  CHOOSE v \in versions \cap range : \A w \in versions \cap range : w <= v

Projects(schemas, version) == \E i \in DOMAIN schemas : schemas[i].version = version /\ schemas[i].adapts

Servable(schemas, installation) ==
  LET admitted == Published(schemas) \cap installation.range.versions IN
  /\ installation.range.valid /\ admitted # {}
  /\ Projects(schemas, maxSatisfying(Published(schemas), installation.range.versions))

routeHookPayloads(hook, installations, schemas) ==
  LET routed == Listening(installations, hook) IN
  IF SchemasAreSound(schemas) /\ \A i \in DOMAIN routed : Servable(schemas, routed[i])
  THEN [ok |-> TRUE,
        versions |-> [i \in DOMAIN routed |->
                        maxSatisfying(Published(schemas), routed[i].range.versions)]]
  ELSE Incompatible

-----------------------------------------------------------------------------
(* A transform chain has one step (planExecution): its outcome is the      *)
(* output, the payload the chain began with, or a failure.                 *)
isCanonicalTransformResult(result) == result.status = "transformed" /\ result.output # "undefined"

(* Mutated: a failed transform leaves the payload as it was.               *)
runTransformChain_Open(plan, original, ran) ==
  IF ran.ok /\ isCanonicalTransformResult(ran.value) THEN [ok |-> TRUE, payload |-> ran.value.output]
  ELSE [ok |-> TRUE, payload |-> original]

runTransformChain(plan, original, ran) ==
  IF ran.ok /\ isCanonicalTransformResult(ran.value) THEN [ok |-> TRUE, payload |-> ran.value.output]
  ELSE IF plan.failurePolicy = "use-original" THEN [ok |-> TRUE, payload |-> original]
  ELSE IF ~ran.ok THEN [ok |-> FALSE, code |-> ran.code]
  ELSE [ok |-> FALSE, code |-> "plugin_result_invalid"]

-----------------------------------------------------------------------------
(* A destination is the URL of a webhook: its scheme, the network its host *)
(* is in, and its origin.                                                  *)
isPublicHttpUrl(url) ==
  /\ url.scheme \in {"https", "http"}
  /\ url.network \notin {"loopback", "private_v4", "private_v6"}

validateProxyMapping(mapping, allowedOrigins) ==
  /\ mapping.absolutePath
  /\ mapping.hook = "webhook.outbound" /\ mapping.hookType \in {"default", "transform"}
  /\ isPublicHttpUrl(mapping.destination) /\ mapping.destination.origin \in allowedOrigins
=============================================================================
