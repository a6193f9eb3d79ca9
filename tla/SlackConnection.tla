-------------------------- MODULE SlackConnection --------------------------
(***************************************************************************)
(* Connecting a Slack workspace: an install flow is started (slack-oauth-  *)
(* install-start.ts), its callback (slack-oauth-callback-http.ts, slack-   *)
(* oauth-callback.ts) consumes the state, exchanges the code (slack-oauth- *)
(* client.ts), stores the credential and records the connection in D1      *)
(* (connectSlackWorkspace of api.ts), while capability calls refresh the   *)
(* credential that is there and operators rotate the keys of the secret    *)
(* store. A second kind of secret, a set of provider tokens, is rotated by *)
(* operators of its own.                                                   *)
(***************************************************************************)
EXTENDS ProviderTokenRotation

CONSTANT Scenarios   \* bound: which calls there are and how many, what happens besides, how far time goes

VARIABLES
  scenario,
  connection  \* the D1 connection of each tenant: the callback that recorded it

vars == <<scenario, clock, storeVars, secretVars, keyVars, submitted, callVars, lastPut, connection>>

Phases == {"idle", "resolve", "refresh", "compare", "swap", "exchange", "resolved", "rotate",
           "consume", "exchangeCode", "put", "upsert", "done"}
Request == [op : {"refresh", "resolve"}, tenant : Tenants] \cup RotationRequest
      \cup [op : {"callback"}, flow : Flows, binding : Flows, tenant : Tenants \cup {None}]
Value == Credential \cup [status : {"rotation"}, active : TokenIds, candidate : TokenIds \cup {None},
                          retiring : TokenIds \cup {None}]
Record == [value : Value, record : Nat, key : {"old", "new"}]
Step == [purpose : {"stage", "commit", "intervene", "rotate"}, expected : Value \cup {None}, next : Value,
         record : Nat \cup {None}]
     \cup [purpose : {"put"}, next : Credential]

(***************************************************************************)
(* A Slack credential and a provider's tokens are secrets of different     *)
(* names: no scenario stores both under one.                               *)
(***************************************************************************)
ASSUME ConnectionConstants ==
  /\ \A s \in Scenarios : "rotation" \in s.does => "callback" \notin s.does
  /\ None \notin Calls /\ None \notin Tenants /\ None \notin TokenIds /\ None \notin FlowRecord
  /\ None \notin Request /\ None \notin Value /\ None \notin Record /\ None \notin Step

TypeOK ==
  /\ scenario \in Scenarios /\ StoreTypeOK
  /\ secret \in [Tenants -> Record \cup {None}] /\ writes \in Nat
  /\ deployed \in BothOld..NewOnly /\ keyring \in [Tenants -> BothOld..deployed]
  /\ rewrapping \in [Tenants -> Record \cup {None}]
  /\ submitted \subseteq [token : Token, by : Calls]
  /\ req \in [Calls -> Request \cup {None}] /\ pc \in [Calls -> Phases]
  /\ at \in [Calls -> Nat] /\ cas \in [Calls -> Step \cup {None}]
  /\ lastPut \in [Tenants -> Calls \cup {None}]
  /\ connection \in [Tenants -> Calls \cup {None}]

Init ==
  /\ scenario \in Scenarios
  /\ StoreInit /\ SecretInit(BothOld) /\ CallInit
  /\ connection = [t \in Tenants |-> None]

-----------------------------------------------------------------------------
(* Connecting.                                                              *)
(***************************************************************************)
(* The browser comes back with a state, a code and the binding in its      *)
(* cookie; the tenant is unknown until the state is consumed. A request    *)
(* that is no top-level navigation, or malformed, is turned away before it *)
(* reaches the state.                                                      *)
(***************************************************************************)
BeginCallback(c) ==
  \E f, binding \in Flows :
    /\ issued[f] # None /\ issued[binding] # None
    /\ Accept(c, [op |-> "callback", flow |-> f, binding |-> binding, tenant |-> None])
    /\ at' = [at EXCEPT ![c] = clock]
    /\ Goto(c, "consume")
    /\ UNCHANGED <<clock, storeVars, secretVars, submitted, cas, lastPut, connection>>

(***************************************************************************)
(* A state that is unknown, expired or another browser's ends at the       *)
(* failure page.                                                           *)
(***************************************************************************)
consume(c) ==
  LET r == req[c] binding == consumed(r.flow, r.binding) IN
  /\ pc[c] = "consume"
  /\ flow' = afterConsume(r.flow, r.binding)
  /\ \/ binding = None /\ End(c) /\ UNCHANGED req
     \/ /\ binding # None
        /\ req' = [req EXCEPT ![c].tenant = binding.tenant]
        /\ Goto(c, "exchangeCode") /\ UNCHANGED <<at, cas>>
  /\ UNCHANGED <<clock, alarm, issued, secretVars, submitted, lastPut, connection>>

(***************************************************************************)
(* Mutated: an answer is taken as soon as it says ok.                      *)
(***************************************************************************)
exchanged_AnyPair(answer) == answer # None /\ answer.ok /\ ~answer.enterprise

(***************************************************************************)
(* A token for a workspace, with both parts of a rotating credential or    *)
(* neither.                                                                *)
(***************************************************************************)
exchanged(answer) ==
  answer # None /\ answer.ok /\ ~answer.enterprise /\ (answer.refreshToken <=> answer.expiresIn)

(***************************************************************************)
(* The first credential of a connection; a token without refresh token is  *)
(* stored as it is.                                                        *)
(***************************************************************************)
initialCredential(c, answer) ==
  LET token == [connect |-> c, generation |-> 1] IN
  IF answer.refreshToken
  THEN [status |-> "ready", token |-> token, started |-> None,
        expires |-> IF answer.expiresIn THEN at[c] + TokenTtl ELSE None]
  ELSE [status |-> "static", token |-> token]

(***************************************************************************)
(* The code is sent to Slack once, whatever Slack answers. A tenant that   *)
(* is gone, or a client that is not configured, ends the call before that. *)
(***************************************************************************)
exchangeCode(c) ==
  /\ pc[c] = "exchangeCode"
  /\ \/ \E answer \in SlackAnswers :
           IF exchanged(answer)
           THEN /\ Swapping(c, [purpose |-> "put", next |-> initialCredential(c, answer)])
                /\ Goto(c, "put") /\ UNCHANGED at
           ELSE End(c)
     \/ End(c)
  /\ UNCHANGED <<clock, storeVars, secretVars, submitted, req, lastPut, connection>>

initializeSlackCredentialLifecycle(c) ==
  LET t == req[c].tenant IN
  /\ pc[c] = "put"
  /\ putSecret(t, cas[c].next)
  /\ lastPut' = [lastPut EXCEPT ![t] = c]
  /\ Goto(c, "upsert") /\ Swapping(c, None)
  /\ UNCHANGED <<clock, storeVars, submitted, req, at, connection>>

upsertSlackConnection(c) ==
  /\ pc[c] = "upsert"
  /\ connection' = [connection EXCEPT ![req[c].tenant] = c]
  /\ End(c)
  /\ UNCHANGED <<clock, storeVars, secretVars, submitted, req, lastPut>>

Callback(c) == \/ consume(c) \/ exchangeCode(c) \/ initializeSlackCredentialLifecycle(c)
               \/ upsertSlackConnection(c)

-----------------------------------------------------------------------------
begun == Cardinality({c \in Calls : pc[c] # "idle"})

(***************************************************************************)
(* An install flow is started for the caller's tenant; the Worker dates    *)
(* it.                                                                     *)
(***************************************************************************)
Start(f) ==
  /\ Cardinality({g \in Flows : issued[g] # None}) < scenario.flows
  /\ \E t \in Tenants, issuedAt \in 0 .. scenario.until + ClockSkew : issue(f, t, issuedAt)

Elsewhere == UNCHANGED <<submitted, callVars, lastPut, connection>>

Begin(c) ==
  /\ begun < scenario.calls
  /\ \/ "callback" \in scenario.does /\ BeginCallback(c)
     \/ "lifecycle" \in scenario.does /\ BeginLifecycle(c) /\ UNCHANGED <<clock, storeVars, connection>>
     \/ "rotation" \in scenario.does /\ BeginRotation(c) /\ UNCHANGED <<clock, storeVars, connection>>

Proceed(c) ==
  \/ Callback(c)
  \/ /\ Lifecycle(c) \/ Rotate(c) \/ Swap(c) \/ Crash(c)
     /\ UNCHANGED <<clock, storeVars, connection>>

Next ==
  /\ UNCHANGED scenario
  /\ \/ (Tick(scenario.until) \/ sweep \/ \E f \in Flows : Start(f)) /\ Elsewhere /\ UNCHANGED <<secretVars, keyVars>>
     \/ "keys" \in scenario.does /\ Keys(swapping) /\ Elsewhere /\ UNCHANGED <<clock, storeVars>>
     \/ \E c \in Calls : (Begin(c) \/ Proceed(c)) /\ UNCHANGED keyVars

Spec == Init /\ [][Next]_vars

-----------------------------------------------------------------------------
(***************************************************************************)
(* A tenant's credential and connection come from a flow that was started  *)
(* for this tenant, by the browser that started it; a flow connects at     *)
(* most once, however many callbacks present its state; and a recorded     *)
(* connection always has a credential behind it.                           *)
(***************************************************************************)
ConnectionIsBound ==
  /\ \A t \in Tenants : lastPut[t] # None =>
       LET c == lastPut[t] f == req[c].flow IN
       issued[f].tenant = t /\ req[c].binding = f
  /\ \A c, d \in Calls :
       /\ c # d /\ req[c] # None /\ req[d] # None
       /\ req[c].op = "callback" /\ req[d].op = "callback"
       /\ req[c].tenant # None /\ req[d].tenant # None
       => req[c].flow # req[d].flow
  /\ \A t \in Tenants : connection[t] # None => secret[t] # None

(***************************************************************************)
(* An install flow connects the tenant it was started for, at most once,   *)
(* or its state is swept (slack-oauth-callback.ts:46, oauth-state-         *)
(* store.ts:208).                                                          *)
(***************************************************************************)
FlowIsBoundOrSwept == ConnectionIsBound /\ SweepScheduled
=============================================================================
