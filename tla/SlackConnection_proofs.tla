----------------------- MODULE SlackConnection_proofs -----------------------
(***************************************************************************)
(* For any number of calls, flows and tenants, whatever crashes, is lost   *)
(* or overlaps: a refresh token is used once, a reconnect is kept and      *)
(* readable through a rotation of the keys, a flow connects its own        *)
(* tenant, and the rotation of provider tokens is atomic.                  *)
(***************************************************************************)
EXTENDS SlackConnection, WellFoundedInduction, TLAPS

(* A pending flow is the one that was issued, bound to its own browser.    *)
FlowOrigin ==
  \A f \in Flows : flow[f] # None => flow[f] = issued[f] /\ flow[f].binding = f

(* The old key is removed when nothing needs it, and no ciphertext is newer *)
(* than the last one produced.                                             *)
StoreIsCurrent ==
  /\ deployed = NewOnly =>
       \A t \in Tenants : keyring[t] # BothOld /\ (secret[t] # None => secret[t].key = "new")
  /\ \A t \in Tenants : secret[t] # None => secret[t].record <= writes

-----------------------------------------------------------------------------
(* What a compare-and-swap replaces, and by what, for each of its purposes. *)
SwapMatchesPurpose(s) ==
  \/ /\ s.purpose = "stage" /\ s.expected # None /\ s.expected.status = "ready"
     /\ s.next.status = "refreshing" /\ s.next.token = s.expected.token
  \/ /\ s.purpose = "commit" /\ s.expected # None /\ s.expected.status = "refreshing"
     /\ s.next.status = "ready" /\ s.next.token.connect = s.expected.token.connect
     /\ s.next.token.generation = s.expected.token.generation + 1
  \/ /\ s.purpose = "intervene" /\ s.expected # None /\ s.expected.status = "refreshing"
     /\ s.next.status = "intervention_required" /\ s.next.token = s.expected.token
  \/ /\ s.purpose = "rotate" /\ "rotation" \in scenario.does
     /\ \/ s.expected = None /\ \E id \in TokenIds : s.next = Rotation!State(id, None, None)
        \/ /\ s.expected # None /\ s.expected.status = "rotation"
           /\ \E operation \in Rotation!Operations, id \in TokenIds :
                Rotation!allowed(s.expected, operation, id) /\ s.next = Rotation!next(s.expected, operation, id)

(* A call between the two parts of a compare-and-swap: as long as the      *)
(* ciphertext it read is stored, so is the value it expects.               *)
SwapIsSound(c) ==
  LET s == cas[c] t == req[c].tenant IN
  /\ s # None /\ SwapMatchesPurpose(cas[c])
  /\ pc[c] = "compare" => s.record = None
  /\ pc[c] = "swap" =>
       /\ s.record # None => s.record <= writes
       /\ recordOf(t) = s.record => valueOf(t) = s.expected

CallbackPhases == {"consume", "exchangeCode", "put", "upsert"}

(* A call is in a phase of its operation and holds what the phase needs.   *)
CallIsSound(c) ==
  /\ req[c] = None <=> pc[c] = "idle"
  /\ pc[c] \in CallbackPhases => req[c].op = "callback"
  /\ req[c] # None /\ req[c].op = "callback" =>
       /\ pc[c] \in CallbackPhases \cup {"done"} /\ "callback" \in scenario.does
       /\ req[c].tenant # None =>
            /\ issued[req[c].flow] # None /\ issued[req[c].flow].tenant = req[c].tenant
            /\ req[c].binding = req[c].flow /\ flow[req[c].flow] = None
  /\ pc[c] = "consume" => req[c].tenant = None
  /\ pc[c] \in CallbackPhases \ {"consume"} => req[c].tenant # None
  /\ pc[c] = "rotate" => req[c].op \in Rotation!Operations \cup {"initialize"}
  /\ req[c] # None /\ req[c].op \in Rotation!Operations \cup {"initialize"} => "rotation" \in scenario.does
  /\ pc[c] \in {"compare", "swap"} => SwapIsSound(c)
  /\ pc[c] = "exchange" => cas[c] # None /\ cas[c].purpose = "stage" /\ SwapMatchesPurpose(cas[c])
  /\ pc[c] = "put" =>
       /\ cas[c] # None /\ cas[c].purpose = "put" /\ cas[c].next.status \in {"ready", "static"}
       /\ cas[c].next.token.connect = c
  /\ pc[c] = "upsert" => secret[req[c].tenant] # None

-----------------------------------------------------------------------------
HoldsCredential(t) == secret[t] # None /\ secret[t].value.status # "rotation"

(* The callback that connected a credential, for tenant t.                 *)
ConnectedBy(k, t) ==
  /\ req[k] # None /\ req[k].op = "callback" /\ req[k].tenant = t
  /\ pc[k] \in {"upsert", "done"}

(* A stored credential descends from the last one a callback put, and      *)
(* every token of this connection that was sent to Slack is older, or is   *)
(* its own while it is not ready.                                          *)
StoredOrigin ==
  \A t \in Tenants :
    /\ lastPut[t] # None => HoldsCredential(t)
    /\ HoldsCredential(t) =>
         LET v == secret[t].value IN
         /\ v.token.connect = lastPut[t] /\ ConnectedBy(v.token.connect, t)
         /\ \A m \in submitted : m.token.connect = v.token.connect =>
              /\ m.token.generation <= v.token.generation
              /\ v.status = "ready" => m.token.generation < v.token.generation
    /\ secret[t] # None /\ ~HoldsCredential(t) => "rotation" \in scenario.does

SubmittedOrigin ==
  \A m \in submitted : \E t \in Tenants : ConnectedBy(m.token.connect, t)

(* A token that is about to be sent to Slack is its call's alone, and what *)
(* is stored of the connection is newer or not ready.                      *)
ExchangeIsExclusive ==
  \A c \in Calls : pc[c] = "exchange" =>
    LET k == cas[c].next.token t == req[c].tenant IN
    /\ ConnectedBy(k.connect, t)
    /\ \A m \in submitted : m.token # k
    /\ \A d \in Calls : pc[d] = "exchange" /\ cas[d].next.token = k => d = c
    /\ HoldsCredential(t) /\ secret[t].value.token.connect = k.connect =>
         /\ k.generation <= secret[t].value.token.generation
         /\ secret[t].value.status = "ready" => k.generation < secret[t].value.token.generation

(* No two callbacks got one flow's state. *)
FlowConnectsOnce ==
  \A c, d \in Calls :
    /\ req[c] # None /\ req[c].op = "callback" /\ req[c].tenant # None
    /\ req[d] # None /\ req[d].op = "callback" /\ req[d].tenant # None
    /\ req[c].flow = req[d].flow
    => c = d

ConnectionHasSecret == \A t \in Tenants : connection[t] # None => secret[t] # None

ConnectionInv ==
  /\ TypeOK /\ FlowOrigin /\ SweepScheduled
  /\ StoreIsCurrent /\ SecretIsReadable
  /\ \A c \in Calls : CallIsSound(c)
  /\ StoredOrigin /\ SubmittedOrigin /\ ExchangeIsExclusive /\ SubmittedOnce
  /\ FlowConnectsOnce /\ ConnectionHasSecret

-----------------------------------------------------------------------------
(* The fields of requests, values and steps, by their kind.                *)
LEMMA RequestFields ==
  ASSUME NEW r \in Request
  PROVE  /\ r.op \in {"callback", "refresh", "resolve", "initialize"} \cup Rotation!Operations
         /\ r.op = "callback" => r.flow \in Flows /\ r.binding \in Flows /\ r.tenant \in Tenants \cup {None}
         /\ r.op # "callback" => r.tenant \in Tenants
         /\ r.op \in {"initialize"} \cup Rotation!Operations => r.id \in TokenIds
BY DEF Request, RotationRequest, Rotation!Operations

LEMMA ValueFields ==
  ASSUME NEW v \in Value
  PROVE  /\ v.status \in {"ready", "refreshing", "intervention_required", "static", "rotation"}
         /\ v.status # "rotation" => v \in Credential /\ v.token \in Token
                                   /\ v.token.connect \in Calls /\ v.token.generation \in Nat
         /\ v.status \in {"ready", "refreshing", "intervention_required"} =>
              v.expires \in Nat /\ v.started \in Nat \cup {None}
         /\ v.status = "rotation" => v.active \in TokenIds /\ v.candidate \in TokenIds \cup {None}
                                   /\ v.retiring \in TokenIds \cup {None}
BY DEF Value, Credential, Token

LEMMA StepFields ==
  ASSUME NEW s \in Step
  PROVE  /\ s.purpose \in {"stage", "commit", "intervene", "rotate", "put"} /\ s.next \in Value
         /\ s.purpose # "put" => s.expected \in Value \cup {None} /\ s.record \in Nat \cup {None}
BY DEF Step, Value

(* What the invariant says of the promises. *)
LEMMA PromisesFollow == ConnectionInv => RefreshTokenIsUsedOnce /\ CredentialIsKept /\ FlowIsBoundOrSwept
<1> SUFFICES ASSUME ConnectionInv PROVE RefreshTokenIsUsedOnce /\ CredentialIsKept /\ FlowIsBoundOrSwept
  OBVIOUS
<1>1. ReadyIsUnspent
  <2> SUFFICES ASSUME NEW t \in Tenants, secret[t] # None, secret[t].value.status = "ready",
                      NEW m \in submitted, m.token = secret[t].value.token
               PROVE  FALSE
    BY DEF ReadyIsUnspent
  <2>1. secret[t].value \in Value /\ secret[t].value.token.generation \in Nat
    BY ValueFields DEF ConnectionInv, TypeOK, Record
  <2> QED
    BY <2>1 DEF ConnectionInv, StoredOrigin, HoldsCredential
<1>2. \A t \in Tenants : lastPut[t] # None =>
        /\ HoldsCredential(t) /\ secret[t].value.token.connect = lastPut[t]
        /\ ConnectedBy(lastPut[t], t) /\ lastPut[t] \in Calls
  BY DEF ConnectionInv, StoredOrigin, TypeOK
<1>3. \A t \in Tenants : lastPut[t] # None =>
        issued[req[lastPut[t]].flow].tenant = t /\ req[lastPut[t]].binding = req[lastPut[t]].flow
  BY <1>2, ConnectionConstants DEF ConnectionInv, ConnectedBy, CallIsSound
<1>4. ConnectionIsBound
  BY <1>3 DEF ConnectionIsBound, ConnectionInv, FlowConnectsOnce, ConnectionHasSecret
<1> QED
  BY <1>1, <1>2, <1>4 DEF ConnectionInv, RefreshTokenIsUsedOnce, CredentialIsKept, ReconnectIsKept, FlowIsBoundOrSwept

LEMMA InitConnection == Init => ConnectionInv
<1> SUFFICES ASSUME Init PROVE ConnectionInv
  OBVIOUS
<1>1. TypeOK
  BY DEF Init, StoreInit, SecretInit, CallInit, TypeOK, StoreTypeOK, Phases, BothOld, NewOnly
<1>2. FlowOrigin /\ SweepScheduled /\ StoreIsCurrent
  BY DEF Init, StoreInit, SecretInit, FlowOrigin, SweepScheduled, StoreIsCurrent, BothOld, NewOnly
<1>3. \A c \in Calls : CallIsSound(c)
  BY DEF Init, CallInit, CallIsSound, CallbackPhases
<1>4. StoredOrigin /\ SubmittedOrigin /\ ExchangeIsExclusive
  BY DEF Init, SecretInit, CallInit, StoredOrigin, SubmittedOrigin, ExchangeIsExclusive, HoldsCredential
<1>5. SecretIsReadable /\ SubmittedOnce /\ FlowConnectsOnce /\ ConnectionHasSecret
  BY DEF Init, SecretInit, CallInit, SecretIsReadable, SubmittedOnce, FlowConnectsOnce, ConnectionHasSecret
<1> QED
  BY <1>1, <1>2, <1>3, <1>4, <1>5 DEF ConnectionInv

-----------------------------------------------------------------------------
(* What every step respects: flows are issued once and do not come back,   *)
(* and what is stored is new or as it was.                                 *)
Advances ==
  /\ scenario' = scenario /\ writes' \in Nat /\ writes <= writes'
  /\ \A f \in Flows : issued[f] # None => issued'[f] = issued[f] /\ (flow[f] = None => flow'[f] = None)
  /\ \A t \in Tenants :
       secret'[t] = secret[t] \/ (secret'[t] # None /\ secret'[t].record \in Nat /\ secret'[t].record > writes)

(* A swap keeps its purpose while its record of what it expects and puts   *)
(* does: the scenario never changes.                                       *)
LEMMA PurposeCarries ==
  ASSUME NEW c \in Calls, SwapMatchesPurpose(cas[c]), scenario' = scenario,
         cas'[c].purpose = cas[c].purpose, cas'[c].expected = cas[c].expected, cas'[c].next = cas[c].next
  PROVE  SwapMatchesPurpose(cas[c])'
<1> DEFINE Rotates(s) ==
             \/ s.expected = None /\ \E id \in TokenIds : s.next = Rotation!State(id, None, None)
             \/ /\ s.expected # None /\ s.expected.status = "rotation"
                /\ \E operation \in Rotation!Operations, id \in TokenIds :
                     Rotation!allowed(s.expected, operation, id) /\ s.next = Rotation!next(s.expected, operation, id)
<1>1. CASE cas[c].purpose # "rotate"
  BY <1>1, Zenon DEF SwapMatchesPurpose
<1>2. CASE cas[c].purpose = "rotate"
  <2>1. "rotation" \in scenario.does /\ Rotates(cas[c])
    BY <1>2 DEF SwapMatchesPurpose
  <2>2. Rotates(cas'[c])
    BY <2>1, Zenon
  <2> QED BY <1>2, <2>1, <2>2, Zenon DEF SwapMatchesPurpose
<1> QED BY <1>1, <1>2

LEMMA BystandersStaySound ==
  ASSUME ConnectionInv, Advances, NEW d \in Calls, pc'[d] = pc[d], req'[d] = req[d], cas'[d] = cas[d]
  PROVE  CallIsSound(d)'
<1>1. req[d] # None => req[d] \in Request
  BY DEF ConnectionInv, TypeOK
<1>2. cas[d] # None => cas[d] \in Step
  BY DEF ConnectionInv, TypeOK
<1>3. SwapMatchesPurpose(cas[d]) => SwapMatchesPurpose(cas[d])'
  BY PurposeCarries DEF Advances
<1>4. req[d] # None /\ req[d].op = "callback" /\ req[d].tenant # None =>
        /\ issued'[req[d].flow] # None /\ issued'[req[d].flow].tenant = req[d].tenant
        /\ req[d].binding = req[d].flow /\ flow'[req[d].flow] = None
  BY <1>1, RequestFields DEF ConnectionInv, CallIsSound, Advances
<1>5. pc[d] \in {"compare", "swap"} => SwapIsSound(d)'
  <2> SUFFICES ASSUME pc[d] \in {"compare", "swap"} PROVE SwapIsSound(d)'
    OBVIOUS
  <2>1. SwapIsSound(d) /\ req[d] # None
    BY DEF ConnectionInv, CallIsSound
  <2>2. cas[d] \in Step /\ cas[d].purpose # "put"
    BY <1>2, <2>1 DEF SwapIsSound, SwapMatchesPurpose
  <2>3. cas[d].record \in Nat \cup {None} /\ writes \in Nat
    BY <2>2, StepFields DEF ConnectionInv, TypeOK
  <2>4. req[d].tenant \in Tenants
    <3>1. req[d].op # "callback"
      BY <2>1 DEF ConnectionInv, CallIsSound, CallbackPhases
    <3> QED BY <1>1, <2>1, <3>1, RequestFields
  <2>5. pc[d] = "swap" => /\ cas[d].record # None => cas[d].record <= writes'
                          /\ (recordOf(req[d].tenant) = cas[d].record => valueOf(req[d].tenant) = cas[d].expected)'
    <3> SUFFICES ASSUME pc[d] = "swap"
                 PROVE  /\ cas[d].record # None => cas[d].record <= writes'
                        /\ (recordOf(req[d].tenant) = cas[d].record => valueOf(req[d].tenant) = cas[d].expected)'
      OBVIOUS
    <3>1. /\ cas[d].record # None => cas[d].record <= writes
          /\ recordOf(req[d].tenant) = cas[d].record => valueOf(req[d].tenant) = cas[d].expected
      BY <2>1 DEF SwapIsSound
    <3>2. CASE secret'[req[d].tenant] = secret[req[d].tenant]
      BY <2>3, <3>1, <3>2 DEF recordOf, valueOf, Advances
    <3>3. CASE secret'[req[d].tenant] # secret[req[d].tenant]
      BY <2>3, <2>4, <3>1, <3>3, StateStoreConstants DEF recordOf, Advances
    <3> QED BY <3>2, <3>3
  <2> QED
    BY <1>3, <2>1, <2>5 DEF SwapIsSound
<1>6. pc[d] = "upsert" => secret'[req[d].tenant] # None
  <2> SUFFICES ASSUME pc[d] = "upsert" PROVE secret'[req[d].tenant] # None
    OBVIOUS
  <2>1. secret[req[d].tenant] # None /\ req[d].tenant \in Tenants
    BY <1>1, RequestFields DEF ConnectionInv, CallIsSound, CallbackPhases
  <2> QED BY <2>1 DEF Advances
<1>7. scenario' = scenario
  BY DEF Advances
<1> QED
  BY <1>3, <1>4, <1>5, <1>6, <1>7 DEF ConnectionInv, CallIsSound

-----------------------------------------------------------------------------
(* A call goes on to phase p with request r and step s.                    *)
Moves(c, r, p, s) ==
  /\ req' = [req EXCEPT ![c] = r] /\ pc' = [pc EXCEPT ![c] = p] /\ cas' = [cas EXCEPT ![c] = s]
  /\ \E time \in Nat : at' = [at EXCEPT ![c] = time]

CallTypeOK ==
  /\ req \in [Calls -> Request \cup {None}] /\ pc \in [Calls -> Phases]
  /\ at \in [Calls -> Nat] /\ cas \in [Calls -> Step \cup {None}]

LEMMA MovesTyped ==
  ASSUME TypeOK, NEW c \in Calls, NEW r \in Request \cup {None}, NEW p \in Phases, NEW s \in Step \cup {None},
         Moves(c, r, p, s)
  PROVE  /\ CallTypeOK'
         /\ req'[c] = r /\ pc'[c] = p /\ cas'[c] = s
         /\ \A d \in Calls \ {c} : req'[d] = req[d] /\ pc'[d] = pc[d] /\ cas'[d] = cas[d]
BY DEF TypeOK, Moves, CallTypeOK

(* What stays as it is. *)
LEMMA Stays ==
  ASSUME TypeOK, NEW c \in Calls
  PROVE  /\ req = [req EXCEPT ![c] = req[c]] /\ cas = [cas EXCEPT ![c] = cas[c]]
         /\ at = [at EXCEPT ![c] = at[c]] /\ at[c] \in Nat /\ clock \in Nat
         /\ req[c] \in Request \cup {None} /\ cas[c] \in Step \cup {None}
BY DEF TypeOK, StoreTypeOK

LEMMA EndMoves ==
  ASSUME TypeOK, NEW c \in Calls, End(c)
  PROVE  \A r : req' = [req EXCEPT ![c] = r] => Moves(c, r, "done", None)
BY DEF End, Goto, Swapping, Moves

LEMMA ReturnMoves ==
  ASSUME TypeOK, NEW c \in Calls, Return(c), UNCHANGED req
  PROVE  \/ Moves(c, req[c], "done", None)
         \/ req[c].op = "resolve" /\ Moves(c, req[c], "resolved", None)
BY EndMoves, Stays DEF Return, Goto, Swapping, Moves

LEMMA CompareAndSwapMoves ==
  ASSUME TypeOK, NEW c \in Calls, NEW purpose, NEW expected, NEW next,
         compareAndSwapSecret(c, purpose, expected, next), UNCHANGED req
  PROVE  Moves(c, req[c], "compare", [purpose |-> purpose, expected |-> expected, next |-> next, record |-> None])
BY Stays DEF compareAndSwapSecret, Goto, Swapping, Moves

-----------------------------------------------------------------------------
(* The phases a call can land in. *)
CallContext == UNCHANGED <<scenario, clock, storeVars, keyVars>>

LEMMA LandsOutside ==
  ASSUME ConnectionInv, CallContext, NEW c \in Calls, NEW p \in {"done", "resolved", "refresh"},
         NEW s \in Step \cup {None}, pc[c] # "idle",
         p = "done" \/ req[c].op # "callback", Moves(c, req[c], p, s)
  PROVE  CallIsSound(c)'
<1>1. req'[c] = req[c] /\ pc'[c] = p
  BY MovesTyped, Stays DEF ConnectionInv, Phases
<1>2. req[c] # None /\ req[c] \in Request /\ CallIsSound(c)
  BY DEF ConnectionInv, CallIsSound, TypeOK
<1>3. scenario' = scenario /\ flow' = flow /\ issued' = issued
  BY DEF CallContext, storeVars
<1> QED
  BY <1>1, <1>2, <1>3 DEF CallIsSound, CallbackPhases, Rotation!Operations

LEMMA LandsOnCompare ==
  ASSUME ConnectionInv, CallContext, NEW c \in Calls, pc[c] \notin CallbackPhases \cup {"idle", "done"},
         NEW s \in Step, Moves(c, req[c], "compare", s), SwapMatchesPurpose(cas[c])', s.record = None
  PROVE  CallIsSound(c)'
<1>1. req'[c] = req[c] /\ pc'[c] = "compare" /\ cas'[c] = s
  BY MovesTyped, Stays DEF ConnectionInv, Phases
<1>2. req[c] # None /\ req[c] \in Request /\ CallIsSound(c) /\ req[c].op # "callback"
  BY DEF ConnectionInv, CallIsSound, TypeOK, CallbackPhases
<1>3. s # None
  BY ConnectionConstants
<1>4. scenario' = scenario
  BY DEF CallContext
<1>5. SwapIsSound(c)'
  BY <1>1, <1>3 DEF SwapIsSound
<1> QED
  BY <1>1, <1>2, <1>4, <1>5 DEF CallIsSound, CallbackPhases

-----------------------------------------------------------------------------
(* The token a call holds connects a call. *)
LEMMA StagedToken ==
  ASSUME ConnectionInv, NEW c \in Calls, pc[c] = "exchange"
  PROVE  /\ cas[c].next \in Value /\ cas[c].next.status = "refreshing"
         /\ cas[c].next.token \in Token /\ cas[c].next.token.connect \in Calls /\ cas[c].next.token.generation \in Nat
         /\ req[c] \in Request /\ req[c].tenant \in Tenants
<1>1. /\ cas[c] \in Step /\ cas[c].purpose = "stage" /\ SwapMatchesPurpose(cas[c])
      /\ req[c] \in Request /\ req[c].op # "callback"
  BY DEF ConnectionInv, TypeOK, CallIsSound, CallbackPhases
<1>2. cas[c].next \in Value /\ cas[c].next.status = "refreshing"
  BY <1>1, StepFields DEF SwapMatchesPurpose
<1> QED
  BY <1>1, <1>2, ValueFields, RequestFields

(* The values, what was sent and who holds a token are as they were. *)
LEMMA OriginsStay ==
  ASSUME ConnectionInv, UNCHANGED <<scenario, submitted, lastPut>>,
         \A t \in Tenants : (secret'[t] = None <=> secret[t] = None) /\ (secret[t] # None => secret'[t].value = secret[t].value),
         \A k \in Calls, t \in Tenants : ConnectedBy(k, t) => ConnectedBy(k, t)',
         \A d \in Calls : pc'[d] = "exchange" => pc[d] = "exchange" /\ cas'[d] = cas[d] /\ req'[d] = req[d]
  PROVE  (StoredOrigin /\ SubmittedOrigin /\ ExchangeIsExclusive)'
<1>1. \A t \in Tenants : HoldsCredential(t) => secret[t].value.token.connect \in Calls
  BY ValueFields DEF ConnectionInv, TypeOK, Record, HoldsCredential
<1>2. \A t \in Tenants : HoldsCredential(t)' <=> HoldsCredential(t)
  BY DEF HoldsCredential
<1>3. StoredOrigin'
  <2> SUFFICES ASSUME NEW t \in Tenants
               PROVE  /\ lastPut[t] # None => HoldsCredential(t)
                      /\ HoldsCredential(t) =>
                           LET v == secret[t].value IN
                           /\ v.token.connect = lastPut[t] /\ ConnectedBy(v.token.connect, t)'
                           /\ \A m \in submitted : m.token.connect = v.token.connect =>
                                /\ m.token.generation <= v.token.generation
                                /\ v.status = "ready" => m.token.generation < v.token.generation
                      /\ secret[t] # None /\ ~HoldsCredential(t) => "rotation" \in scenario.does
    BY <1>2 DEF StoredOrigin, HoldsCredential
  <2> QED BY <1>1 DEF ConnectionInv, StoredOrigin
<1>4. SubmittedOrigin'
  <2> SUFFICES ASSUME NEW m \in submitted
               PROVE  \E t \in Tenants : ConnectedBy(m.token.connect, t)'
    BY DEF SubmittedOrigin
  <2>1. m.token.connect \in Calls
    BY DEF ConnectionInv, TypeOK, Token
  <2> QED BY <2>1 DEF ConnectionInv, SubmittedOrigin
<1>5. ExchangeIsExclusive'
  <2> SUFFICES ASSUME NEW c \in Calls, pc'[c] = "exchange"
               PROVE  LET k == cas[c].next.token t == req[c].tenant IN
                      /\ ConnectedBy(k.connect, t)'
                      /\ \A m \in submitted : m.token # k
                      /\ \A d \in Calls : pc'[d] = "exchange" /\ cas'[d].next.token = k => d = c
                      /\ (HoldsCredential(t) /\ secret[t].value.token.connect = k.connect =>
                           /\ k.generation <= secret[t].value.token.generation
                           /\ secret[t].value.status = "ready" => k.generation < secret[t].value.token.generation)'
    BY DEF ExchangeIsExclusive
  <2> DEFINE k == cas[c].next.token
             t == req[c].tenant
  <2>1. pc[c] = "exchange" /\ k.connect \in Calls /\ t \in Tenants
    BY StagedToken
  <2>2. /\ ConnectedBy(k.connect, t)
        /\ \A m \in submitted : m.token # k
        /\ \A d \in Calls : pc[d] = "exchange" /\ cas[d].next.token = k => d = c
        /\ HoldsCredential(t) /\ secret[t].value.token.connect = k.connect =>
             /\ k.generation <= secret[t].value.token.generation
             /\ secret[t].value.status = "ready" => k.generation < secret[t].value.token.generation
    BY <2>1 DEF ConnectionInv, ExchangeIsExclusive
  <2>3. \A d \in Calls : pc'[d] = "exchange" /\ cas'[d].next.token = k => d = c
    BY <2>2
  <2>4. HoldsCredential(t) => secret'[t].value = secret[t].value
    BY <2>1 DEF HoldsCredential
  <2> QED BY <1>2, <2>1, <2>2, <2>3, <2>4
<1> QED
  BY <1>3, <1>4, <1>5

-----------------------------------------------------------------------------
(* A step of a call that stores nothing and sends nothing: what is left to *)
(* see is that the call is sound after it, that a flow has not connected   *)
(* twice and that a connection has a credential.                           *)
LEMMA CallStepKeepsInv ==
  ASSUME ConnectionInv, UNCHANGED <<scenario, clock, alarm, issued, keyVars, secretVars, submitted, lastPut>>,
         flow' \in [Flows -> FlowRecord \cup {None}], \A f \in Flows : flow'[f] \in {flow[f], None},
         connection' \in [Tenants -> Calls \cup {None}],
         NEW c \in Calls, NEW r \in Request \cup {None}, NEW p \in Phases \ {"exchange"}, NEW s \in Step \cup {None},
         Moves(c, r, p, s), CallIsSound(c)', FlowConnectsOnce', ConnectionHasSecret',
         pc[c] \in {"upsert", "done"} => p \in {"upsert", "done"} /\ r = req[c]
  PROVE  ConnectionInv'
<1>1. /\ CallTypeOK'
      /\ req'[c] = r /\ pc'[c] = p /\ cas'[c] = s
      /\ \A d \in Calls \ {c} : req'[d] = req[d] /\ pc'[d] = pc[d] /\ cas'[d] = cas[d]
  BY MovesTyped DEF ConnectionInv
<1>2. TypeOK'
  BY <1>1 DEF ConnectionInv, TypeOK, StoreTypeOK, CallTypeOK, keyVars, secretVars
<1>3. FlowOrigin' /\ SweepScheduled'
  BY DEF ConnectionInv, FlowOrigin, SweepScheduled
<1>4. (StoreIsCurrent /\ SecretIsReadable /\ SubmittedOnce)'
  BY DEF ConnectionInv, StoreIsCurrent, SecretIsReadable, getSecret, SubmittedOnce, keyVars, secretVars
<1>5. \A d \in Calls : CallIsSound(d)'
  <2>1. Advances
    BY DEF Advances, secretVars, ConnectionInv, TypeOK
  <2> QED BY <1>1, <2>1, BystandersStaySound
<1>6. \A k \in Calls, t \in Tenants : ConnectedBy(k, t) => ConnectedBy(k, t)'
  BY <1>1 DEF ConnectedBy
<1>7. (StoredOrigin /\ SubmittedOrigin /\ ExchangeIsExclusive)'
  BY <1>1, <1>6, OriginsStay DEF secretVars
<1> QED
  BY <1>2, <1>3, <1>4, <1>5, <1>7 DEF ConnectionInv

LEMMA QuietCallKeepsInv ==
  ASSUME ConnectionInv, CallContext, UNCHANGED <<secretVars, submitted, lastPut, connection>>,
         NEW c \in Calls, NEW r \in Request \cup {None}, NEW p \in Phases \ {"exchange"}, NEW s \in Step \cup {None},
         Moves(c, r, p, s), CallIsSound(c)',
         r = req[c] \/ (pc[c] = "idle" /\ (r.op = "callback" => r.tenant = None)),
         pc[c] \in {"upsert", "done"} => p \in {"upsert", "done"}
  PROVE  ConnectionInv'
<1>1. req'[c] = r /\ \A d \in Calls \ {c} : req'[d] = req[d]
  BY MovesTyped DEF ConnectionInv
<1>2. FlowConnectsOnce'
  BY <1>1, RequestFields DEF ConnectionInv, FlowConnectsOnce
<1>3. ConnectionHasSecret' /\ connection' \in [Tenants -> Calls \cup {None}] /\ flow' \in [Flows -> FlowRecord \cup {None}]
  BY DEF ConnectionInv, ConnectionHasSecret, TypeOK, StoreTypeOK, secretVars, CallContext, storeVars
<1> QED
  BY <1>2, <1>3, CallStepKeepsInv DEF CallContext, storeVars

-----------------------------------------------------------------------------
(* The ends a call's step has. *)
Stored == <<secretVars, submitted, lastPut, connection>>

LEMMA EndKeepsInv ==
  ASSUME ConnectionInv, CallContext, UNCHANGED <<Stored, req>>, NEW c \in Calls, pc[c] # "idle", End(c)
  PROVE  ConnectionInv'
<1>1. Moves(c, req[c], "done", None) /\ req[c] \in Request \cup {None}
  BY EndMoves, Stays DEF ConnectionInv
<1>2. CallIsSound(c)'
  BY <1>1, LandsOutside
<1> QED
  BY <1>1, <1>2, QuietCallKeepsInv DEF Phases, Stored

LEMMA ReturnKeepsInv ==
  ASSUME ConnectionInv, CallContext, UNCHANGED <<Stored, req>>, NEW c \in Calls, pc[c] \notin {"idle", "done"}, Return(c)
  PROVE  ConnectionInv'
<1>1. req[c] \in Request \cup {None}
  BY Stays DEF ConnectionInv
<1>2. CASE Moves(c, req[c], "done", None)
  <2>1. CallIsSound(c)'
    BY <1>2, LandsOutside
  <2> QED BY <1>1, <1>2, <2>1, QuietCallKeepsInv DEF Phases, Stored
<1>3. CASE req[c].op = "resolve" /\ Moves(c, req[c], "resolved", None)
  <2>1. CallIsSound(c)'
    BY <1>3, LandsOutside
  <2>2. pc[c] # "upsert"
    BY <1>3 DEF ConnectionInv, CallIsSound, CallbackPhases
  <2> QED BY <1>1, <1>3, <2>1, <2>2, QuietCallKeepsInv DEF Phases, Stored
<1> QED
  BY <1>2, <1>3, ReturnMoves DEF ConnectionInv

LEMMA CompareAndSwapKeepsInv ==
  ASSUME ConnectionInv, CallContext, UNCHANGED <<Stored, req>>, NEW c \in Calls,
         pc[c] \notin CallbackPhases \cup {"idle", "done"},
         NEW purpose \in {"stage", "commit", "intervene", "rotate"}, NEW expected \in Value \cup {None}, NEW next \in Value,
         SwapMatchesPurpose([purpose |-> purpose, expected |-> expected, next |-> next, record |-> None]),
         compareAndSwapSecret(c, purpose, expected, next)
  PROVE  ConnectionInv'
<1> DEFINE s == [purpose |-> purpose, expected |-> expected, next |-> next, record |-> None]
<1>1. s \in Step /\ req[c] \in Request \cup {None}
  BY Stays DEF Step, ConnectionInv
<1>2. Moves(c, req[c], "compare", s)
  BY CompareAndSwapMoves DEF ConnectionInv
<1>3. cas'[c] = s
  BY <1>1, <1>2, MovesTyped DEF ConnectionInv, Phases
<1>4. CallIsSound(c)'
  <2>1. SwapMatchesPurpose(cas[c])'
    BY <1>3 DEF CallContext, SwapMatchesPurpose, Rotation!Operations, Rotation!State, Rotation!allowed, Rotation!next
  <2> QED BY <1>1, <1>2, <2>1, LandsOnCompare
<1> QED
  BY <1>1, <1>2, <1>4, QuietCallKeepsInv DEF Phases, CallbackPhases, Stored

-----------------------------------------------------------------------------
(* The steps of the lifecycle and of the rotation of provider tokens. *)
LEMMA OtherThanCallback ==
  ASSUME ConnectionInv, NEW c \in Calls, pc[c] \notin CallbackPhases \cup {"idle", "done"}
  PROVE  req[c] \in Request /\ req[c].op # "callback" /\ req[c].tenant \in Tenants
BY RequestFields DEF ConnectionInv, TypeOK, CallIsSound, CallbackPhases

LEMMA StoredValue ==
  ASSUME ConnectionInv, NEW t \in Tenants
  PROVE  /\ secret[t] # None => secret[t] \in Record /\ secret[t].value \in Value /\ secret[t].record \in Nat
         /\ valueOf(t) \in Value \cup {None} /\ recordOf(t) \in Nat \cup {None}
BY DEF ConnectionInv, TypeOK, Record, valueOf, recordOf

LEMMA ResolveKeepsInv ==
  ASSUME ConnectionInv, CallContext, UNCHANGED connection, NEW c \in Calls, resolveAccessToken(c)
  PROVE  ConnectionInv'
<1>1. CASE End(c)
  BY <1>1, EndKeepsInv DEF resolveAccessToken, Stored
<1>2. CASE pc[c] = "resolve" /\ Goto(c, "refresh") /\ at' = [at EXCEPT ![c] = clock] /\ UNCHANGED cas
  <2>1. /\ Moves(c, req[c], "refresh", cas[c])
        /\ req[c] \in Request \cup {None} /\ cas[c] \in Step \cup {None}
    BY <1>2, Stays DEF ConnectionInv, Moves, Goto, resolveAccessToken
  <2>2. CallIsSound(c)'
    BY <1>2, <2>1, LandsOutside, OtherThanCallback DEF CallbackPhases
  <2> QED BY <1>2, <2>1, <2>2, QuietCallKeepsInv DEF Phases, resolveAccessToken, Stored
<1> QED
  BY <1>1, <1>2 DEF resolveAccessToken

LEMMA InterventionMatches ==
  ASSUME NEW v \in Value, v.status = "refreshing"
  PROVE  /\ intervention(v) \in Value
         /\ SwapMatchesPurpose([purpose |-> "intervene", expected |-> v, next |-> intervention(v), record |-> None])
<1>1. v \in [status : {"ready", "refreshing", "intervention_required"}, token : Token,
             expires : Nat, started : Nat \cup {None}]
  BY DEF Value, Credential
<1>2. /\ intervention(v) \in Credential /\ intervention(v).status = "intervention_required"
      /\ intervention(v).token = v.token
  BY <1>1 DEF intervention, Credential
<1> QED
  BY <1>2, ConnectionConstants DEF SwapMatchesPurpose, Value

LEMMA PersistInterventionKeepsInv ==
  ASSUME ConnectionInv, CallContext, UNCHANGED <<Stored, req>>, NEW c \in Calls,
         pc[c] \notin CallbackPhases \cup {"idle", "done"}, NEW v \in Value, v.status = "refreshing",
         persistIntervention(c, v)
  PROVE  ConnectionInv'
BY InterventionMatches, CompareAndSwapKeepsInv DEF persistIntervention

LEMMA RefreshIfDueKeepsInv ==
  ASSUME ConnectionInv, CallContext, UNCHANGED connection, NEW c \in Calls, refreshIfDue(c)
  PROVE  ConnectionInv'
<1> DEFINE t == req[c].tenant
           value == secret[t].value
           staged == [value EXCEPT !.status = "refreshing", !.started = at[c]]
<1>1. t \in Tenants /\ pc[c] = "refresh" /\ UNCHANGED <<Stored, req>>
  BY OtherThanCallback DEF refreshIfDue, CallbackPhases, Stored
<1>2. usable(t) => value \in Value
  BY <1>1, StoredValue DEF usable, getSecret
<1>3. CASE End(c)
  BY <1>1, <1>3, EndKeepsInv
<1>4. CASE Return(c)
  BY <1>1, <1>4, ReturnKeepsInv
<1>5. CASE usable(t) /\ value.status = "refreshing" /\ persistIntervention(c, value)
  BY <1>1, <1>2, <1>5, PersistInterventionKeepsInv DEF CallbackPhases
<1>6. CASE usable(t) /\ value.status = "ready" /\ compareAndSwapSecret(c, "stage", value, staged)
  <2>1. value \in [status : {"ready", "refreshing", "intervention_required"}, token : Token,
                   expires : Nat, started : Nat \cup {None}]
    BY <1>2, <1>6 DEF Value, Credential
  <2>2. at[c] \in Nat
    BY Stays DEF ConnectionInv
  <2>3. staged \in Credential /\ staged.status = "refreshing" /\ staged.token = value.token
    BY <2>1, <2>2 DEF Credential
  <2>4. value \in Value /\ staged \in Value /\ value # None
    BY <1>2, <1>6, <2>3, ConnectionConstants DEF Value
  <2>5. SwapMatchesPurpose([purpose |-> "stage", expected |-> value, next |-> staged, record |-> None])
    BY <1>6, <2>3, <2>4 DEF SwapMatchesPurpose
  <2> HIDE DEF staged, value
  <2> QED BY <1>1, <1>6, <2>4, <2>5, CompareAndSwapKeepsInv DEF CallbackPhases
<1> QED
  BY <1>1, <1>3, <1>4, <1>5, <1>6 DEF refreshIfDue

LEMMA SwappingCall ==
  ASSUME ConnectionInv, NEW c \in Calls, pc[c] \in {"compare", "swap"}
  PROVE  /\ SwapIsSound(c) /\ cas[c] \in Step /\ cas[c].purpose \in {"stage", "commit", "intervene", "rotate"}
         /\ cas[c].expected \in Value \cup {None} /\ cas[c].next \in Value /\ cas[c].record \in Nat \cup {None}
         /\ pc[c] \notin CallbackPhases \cup {"idle", "done"}
<1>1. SwapIsSound(c) /\ cas[c] \in Step
  BY DEF ConnectionInv, CallIsSound, SwapIsSound, TypeOK
<1>2. cas[c].purpose # "put"
  BY <1>1 DEF SwapIsSound, SwapMatchesPurpose
<1> QED
  BY <1>1, <1>2, StepFields DEF CallbackPhases

LEMMA RejectedKeepsInv ==
  ASSUME ConnectionInv, CallContext, UNCHANGED <<Stored, req>>, NEW c \in Calls, pc[c] \in {"compare", "swap"},
         Rejected(c)
  PROVE  ConnectionInv'
<1>1. CASE cas[c].purpose = "commit"
  <2>1. cas[c].expected \in Value /\ cas[c].expected.status = "refreshing"
    BY <1>1, SwappingCall DEF SwapIsSound, SwapMatchesPurpose
  <2> QED BY <1>1, <2>1, SwappingCall, PersistInterventionKeepsInv DEF Rejected
<1>2. CASE cas[c].purpose # "commit"
  BY <1>2, EndKeepsInv DEF Rejected
<1> QED
  BY <1>1, <1>2

LEMMA UnmatchedKeepsInv ==
  ASSUME ConnectionInv, CallContext, UNCHANGED <<Stored, req>>, NEW c \in Calls, pc[c] \in {"compare", "swap"},
         Unmatched(c)
  PROVE  ConnectionInv'
BY EndKeepsInv, ReturnKeepsInv DEF Unmatched

LEMMA CompareKeepsInv ==
  ASSUME ConnectionInv, CallContext, UNCHANGED connection, NEW c \in Calls, Compare(c)
  PROVE  ConnectionInv'
<1> DEFINE t == req[c].tenant
           s == [cas[c] EXCEPT !.record = recordOf(t)]
<1>1. pc[c] = "compare" /\ UNCHANGED <<Stored, req>>
  BY DEF Compare, Stored
<1>2. t \in Tenants
  BY <1>1, OtherThanCallback DEF CallbackPhases
<1>3. CASE Unmatched(c)
  BY <1>1, <1>3, UnmatchedKeepsInv
<1>4. CASE Rejected(c)
  BY <1>1, <1>4, RejectedKeepsInv
<1>5. CASE /\ valueOf(t) = cas[c].expected /\ (secret[t] = None \/ getSecret(t))
           /\ Swapping(c, s) /\ Goto(c, "swap") /\ UNCHANGED at
  <2>1. cas[c] \in [purpose : {"stage", "commit", "intervene", "rotate"}, expected : Value \cup {None},
                    next : Value, record : Nat \cup {None}]
    BY <1>1, SwappingCall DEF Step
  <2>2. recordOf(t) \in Nat \cup {None}
    BY <1>2, StoredValue
  <2>3. /\ s \in Step /\ s.purpose = cas[c].purpose /\ s.expected = cas[c].expected
        /\ s.next = cas[c].next /\ s.record = recordOf(t)
    BY <2>1, <2>2 DEF Step
  <2>4. Moves(c, req[c], "swap", s) /\ req[c] \in Request \cup {None}
    BY <1>1, <1>5, Stays DEF ConnectionInv, Moves, Goto, Swapping
  <2>5. req'[c] = req[c] /\ pc'[c] = "swap" /\ cas'[c] = s
    BY <2>3, <2>4, MovesTyped DEF ConnectionInv, Phases
  <2>6. CallIsSound(c)'
    <3>1. SwapMatchesPurpose(cas[c])'
      <4>1. SwapMatchesPurpose(cas[c])
        BY <1>1, SwappingCall DEF SwapIsSound
      <4>2. scenario' = scenario
        BY DEF CallContext
      <4> HIDE DEF s
      <4> QED
        BY <2>3, <2>5, <4>1, <4>2, PurposeCarries
    <3>2. recordOf(t) # None => recordOf(t) <= writes
      BY <1>2 DEF ConnectionInv, StoreIsCurrent, recordOf
    <3>3. SwapIsSound(c)'
      BY <1>1, <1>5, <2>3, <2>5, <3>1, <3>2, ConnectionConstants DEF SwapIsSound, Stored, secretVars, recordOf, valueOf
    <3>4. CallIsSound(c) /\ req[c] # None /\ req[c].op # "callback"
      BY <1>1, OtherThanCallback, ConnectionConstants DEF ConnectionInv, CallbackPhases
    <3> QED BY <2>5, <3>3, <3>4 DEF CallIsSound, CallbackPhases, CallContext
  <2> QED
    BY <1>1, <2>3, <2>4, <2>6, QuietCallKeepsInv DEF Phases, Stored
<1> QED
  BY <1>3, <1>4, <1>5 DEF Compare

(* A call of the token rotation proposes an allowed transition of a state  *)
(* that is stored.                                                         *)
LEMMA RotationProposal ==
  ASSUME NEW v \in Value, v.status = "rotation", NEW op, NEW id \in TokenIds, Rotation!allowed(v, op, id)
  PROVE  op \in Rotation!Operations /\ Rotation!next(v, op, id) \in Value /\ Rotation!next(v, op, id).status = "rotation"
<1>1. op \in Rotation!Operations
  BY DEF Rotation!Operations, Rotation!allowed
<1>2. v.active \in TokenIds
  BY ValueFields
<1>3. Rotation!next(v, op, id) \in {Rotation!State(x, y, z) : x \in TokenIds, y \in TokenIds \cup {None}, z \in TokenIds \cup {None}}
  BY <1>1, <1>2 DEF Rotation!Operations, Rotation!next
<1> QED
  BY <1>1, <1>3 DEF Rotation!State, Value

LEMMA RotateKeepsInv ==
  ASSUME ConnectionInv, CallContext, UNCHANGED connection, NEW c \in Calls, Rotate(c)
  PROVE  ConnectionInv'
<1> DEFINE t == req[c].tenant  state == readState(t)
<1>1. /\ pc[c] = "rotate" /\ pc[c] \notin CallbackPhases \cup {"idle", "done"} /\ UNCHANGED <<Stored, req>>
      /\ t \in Tenants /\ req[c] \in Request /\ req[c].op \in Rotation!Operations \cup {"initialize"}
      /\ "rotation" \in scenario.does
  BY OtherThanCallback, ConnectionConstants DEF Rotate, initialize, mutate, CallbackPhases, Stored, ConnectionInv, CallIsSound
<1>2. req[c].id \in TokenIds
  BY <1>1, RequestFields
<1>3. CASE End(c)
  BY <1>1, <1>3, EndKeepsInv
<1>4. CASE compareAndSwapSecret(c, "rotate", None, Rotation!State(req[c].id, None, None))
  <2>1. Rotation!State(req[c].id, None, None) \in Value
    BY <1>2 DEF Rotation!State, Value
  <2>2. SwapMatchesPurpose([purpose |-> "rotate", expected |-> None,
                            next |-> Rotation!State(req[c].id, None, None), record |-> None])
    BY <1>1, <1>2 DEF SwapMatchesPurpose
  <2> QED BY <1>1, <1>4, <2>1, <2>2, CompareAndSwapKeepsInv
<1>5. CASE /\ state # None /\ Rotation!allowed(state, req[c].op, req[c].id)
           /\ compareAndSwapSecret(c, "rotate", state, Rotation!next(state, req[c].op, req[c].id))
  <2>1. state \in Value /\ state.status = "rotation"
    BY <1>1, <1>5, StoredValue DEF readState, tokensOf
  <2>2. /\ req[c].op \in Rotation!Operations
        /\ Rotation!next(state, req[c].op, req[c].id) \in Value
        /\ Rotation!next(state, req[c].op, req[c].id).status = "rotation"
    BY <1>2, <1>5, <2>1, RotationProposal
  <2>3. SwapMatchesPurpose([purpose |-> "rotate", expected |-> state,
                            next |-> Rotation!next(state, req[c].op, req[c].id), record |-> None])
    BY <1>1, <1>2, <1>5, <2>1, <2>2 DEF SwapMatchesPurpose
  <2> HIDE DEF state
  <2> QED BY <1>1, <1>5, <2>1, <2>2, <2>3, CompareAndSwapKeepsInv
<1> QED
  BY <1>3, <1>4, <1>5 DEF Rotate, initialize, mutate

-----------------------------------------------------------------------------
(* The first and the last step of a call, and the exchange of the code. *)
LEMMA CrashKeepsInv ==
  ASSUME ConnectionInv, CallContext, UNCHANGED connection, NEW c \in Calls, Crash(c)
  PROVE  ConnectionInv'
BY EndKeepsInv DEF Crash, Stored

LEMMA BeginKeepsInv ==
  ASSUME ConnectionInv, CallContext, NEW c \in Calls, Begin(c)
  PROVE  ConnectionInv'
<1>1. ASSUME NEW r \in Request, NEW p \in {"consume", "refresh", "resolve", "rotate"}, Accept(c, r), Goto(c, p),
             at' = [at EXCEPT ![c] = clock] \/ UNCHANGED at, UNCHANGED <<Stored, cas>>,
             r.op = "callback" => p = "consume" /\ r.tenant = None /\ "callback" \in scenario.does,
             p = "consume" => r.op = "callback",
             p = "rotate" => r.op \in Rotation!Operations \cup {"initialize"},
             r.op \in Rotation!Operations \cup {"initialize"} => "rotation" \in scenario.does
      PROVE  ConnectionInv'
  <2>1. pc[c] = "idle" /\ Moves(c, r, p, cas[c]) /\ cas[c] \in Step \cup {None}
    BY <1>1, Stays DEF ConnectionInv, Accept, Goto, Moves
  <2>2. req'[c] = r /\ pc'[c] = p
    BY <2>1, MovesTyped DEF ConnectionInv, Phases
  <2>3. CallIsSound(c)'
    BY <1>1, <2>2, ConnectionConstants DEF CallIsSound, CallbackPhases, CallContext, Rotation!Operations
  <2> QED BY <1>1, <2>1, <2>3, QuietCallKeepsInv DEF Phases, Stored
<1>2. CASE "callback" \in scenario.does /\ BeginCallback(c)
  <2>1. PICK f \in Flows, binding \in Flows :
          /\ Accept(c, [op |-> "callback", flow |-> f, binding |-> binding, tenant |-> None])
          /\ at' = [at EXCEPT ![c] = clock] /\ Goto(c, "consume") /\ UNCHANGED <<Stored, cas>>
    BY <1>2 DEF BeginCallback, Stored
  <2> DEFINE r == [op |-> "callback", flow |-> f, binding |-> binding, tenant |-> None]
  <2>2. r \in Request /\ r.op = "callback" /\ r.tenant = None
    BY DEF Request
  <2> HIDE DEF r
  <2> QED BY <1>1, <1>2, <2>1, <2>2 DEF r, Rotation!Operations
<1>3. CASE "lifecycle" \in scenario.does /\ BeginLifecycle(c) /\ UNCHANGED connection
  <2>1. PICK t \in Tenants, op \in {"refresh", "resolve"} :
          /\ Accept(c, [op |-> op, tenant |-> t]) /\ at' = [at EXCEPT ![c] = clock]
          /\ Goto(c, IF op = "refresh" THEN "refresh" ELSE "resolve") /\ UNCHANGED <<Stored, cas>>
    BY <1>3 DEF BeginLifecycle, Stored
  <2>2. [op |-> op, tenant |-> t] \in Request
    BY DEF Request
  <2> QED BY <1>1, <2>1, <2>2 DEF Rotation!Operations
<1>4. CASE "rotation" \in scenario.does /\ BeginRotation(c) /\ UNCHANGED connection
  <2>1. PICK r \in RotationRequest : Accept(c, r) /\ Goto(c, "rotate") /\ UNCHANGED <<Stored, cas, at>>
    BY <1>4 DEF BeginRotation, Stored
  <2>2. r \in Request /\ r.op \in Rotation!Operations \cup {"initialize"}
    BY DEF Request, RotationRequest
  <2> QED BY <1>1, <1>4, <2>1, <2>2 DEF Rotation!Operations
<1> QED
  BY <1>2, <1>3, <1>4 DEF Begin

LEMMA FirstCredential ==
  ASSUME TypeOK, NEW c \in Calls, NEW answer \in SlackAnswers, exchanged(answer)
  PROVE  /\ initialCredential(c, answer) \in Credential
         /\ initialCredential(c, answer).status \in {"ready", "static"}
         /\ initialCredential(c, answer).token.connect = c
<1> DEFINE token == [connect |-> c, generation |-> 1]
<1>1. token \in Token /\ at[c] + TokenTtl \in Nat
  BY LifecycleConstants DEF Token, TypeOK
<1>2. CASE answer.refreshToken
  <2>1. answer.expiresIn
    BY <1>2, Zenon DEF exchanged
  <2>2. initialCredential(c, answer) = [status |-> "ready", token |-> token, started |-> None, expires |-> at[c] + TokenTtl]
    BY <1>2, <2>1 DEF initialCredential
  <2> QED BY <1>1, <2>2 DEF Credential
<1>3. CASE ~answer.refreshToken
  <2>1. initialCredential(c, answer) = [status |-> "static", token |-> token]
    BY <1>3 DEF initialCredential
  <2> QED BY <1>1, <2>1 DEF Credential
<1> QED
  BY <1>2, <1>3

LEMMA ExchangeCodeKeepsInv ==
  ASSUME ConnectionInv, CallContext, NEW c \in Calls, exchangeCode(c)
  PROVE  ConnectionInv'
<1>1. pc[c] = "exchangeCode" /\ UNCHANGED <<Stored, req>>
  BY DEF exchangeCode, Stored
<1>2. CASE End(c)
  BY <1>1, <1>2, EndKeepsInv
<1>3. ASSUME NEW answer \in SlackAnswers, exchanged(answer), Goto(c, "put"), UNCHANGED at,
             Swapping(c, [purpose |-> "put", next |-> initialCredential(c, answer)])
      PROVE  ConnectionInv'
  <2> DEFINE v == initialCredential(c, answer)
             s == [purpose |-> "put", next |-> v]
  <2>1. v \in Credential /\ v.status \in {"ready", "static"} /\ v.token.connect = c
    BY <1>3, FirstCredential DEF ConnectionInv
  <2>2. s \in Step /\ s # None
    BY <2>1, ConnectionConstants DEF Step
  <2>3. Moves(c, req[c], "put", s) /\ req[c] \in Request \cup {None}
    BY <1>1, <1>3, Stays DEF ConnectionInv, Goto, Swapping, Moves
  <2>4. req'[c] = req[c] /\ pc'[c] = "put" /\ cas'[c] = s
    BY <2>2, <2>3, MovesTyped DEF ConnectionInv, Phases
  <2>5. CallIsSound(c)
    BY DEF ConnectionInv
  <2>6. req[c] # None /\ req[c].op = "callback" /\ req[c].tenant # None
    BY <1>1, <2>5 DEF CallIsSound, CallbackPhases
  <2> HIDE DEF v
  <2>7. CallIsSound(c)'
    BY <2>1, <2>2, <2>4, <2>5, <2>6 DEF CallIsSound, CallbackPhases, CallContext, storeVars, Rotation!Operations
  <2> QED BY <1>1, <2>2, <2>3, <2>7, QuietCallKeepsInv DEF Phases, Stored
<1> QED
  BY <1>2, <1>3 DEF exchangeCode

(* The state is consumed before its tenant is known: nobody else got it.   *)
LEMMA ConsumeKeepsInv ==
  ASSUME ConnectionInv, UNCHANGED <<scenario, keyVars>>, NEW c \in Calls, consume(c)
  PROVE  ConnectionInv'
<1> DEFINE f == req[c].flow
           binding == consumed(f, req[c].binding)
<1>1. /\ pc[c] = "consume" /\ CallIsSound(c) /\ req[c] \in Request /\ req[c].op = "callback" /\ req[c].tenant = None
      /\ f \in Flows /\ req[c].binding \in Flows
  BY RequestFields DEF consume, ConnectionInv, TypeOK, CallIsSound, CallbackPhases
<1>2. /\ UNCHANGED <<clock, alarm, issued, keyVars, secretVars, submitted, lastPut, connection>>
      /\ flow' = afterConsume(f, req[c].binding)
      /\ flow' \in [Flows -> FlowRecord \cup {None}] /\ \A g \in Flows : flow'[g] \in {flow[g], None}
  BY DEF consume, afterConsume, ConnectionInv, TypeOK, StoreTypeOK
<1>3. ConnectionHasSecret' /\ connection' \in [Tenants -> Calls \cup {None}]
  BY <1>2 DEF ConnectionInv, ConnectionHasSecret, TypeOK, secretVars
<1>4. CASE End(c) /\ UNCHANGED req
  <2>1. Moves(c, req[c], "done", None)
    BY <1>4, EndMoves, Stays DEF ConnectionInv
  <2>2. req'[c] = req[c] /\ pc'[c] = "done"
    BY <1>1, <2>1, MovesTyped DEF ConnectionInv, Phases
  <2>3. CallIsSound(c)'
    BY <1>1, <2>2 DEF CallIsSound, CallbackPhases, Rotation!Operations
  <2>4. FlowConnectsOnce'
    BY <1>4 DEF ConnectionInv, FlowConnectsOnce
  <2> QED BY <1>1, <1>2, <1>3, <2>1, <2>3, <2>4, CallStepKeepsInv DEF Phases
<1>5. CASE /\ binding # None /\ req' = [req EXCEPT ![c].tenant = binding.tenant]
           /\ Goto(c, "exchangeCode") /\ UNCHANGED <<at, cas>>
  <2> DEFINE r == [req[c] EXCEPT !.tenant = binding.tenant]
  <2>1. /\ flow[f] # None /\ flow[f] \in FlowRecord /\ binding = flow[f] /\ flow[f].binding = req[c].binding
        /\ binding.tenant \in Tenants
    BY <1>1, <1>5 DEF consumed, ConnectionInv, TypeOK, StoreTypeOK, FlowRecord
  <2>2. flow'[f] = None /\ issued[f] = flow[f] /\ req[c].binding = f
    BY <1>1, <1>2, <2>1 DEF afterConsume, ConnectionInv, FlowOrigin, TypeOK, StoreTypeOK
  <2>3. req[c] \in [op : {"callback"}, flow : Flows, binding : Flows, tenant : Tenants \cup {None}]
    BY <1>1 DEF Request, RotationRequest, Rotation!Operations
  <2>4. /\ r \in Request /\ r.op = "callback" /\ r.flow = f /\ r.binding = req[c].binding /\ r.tenant = binding.tenant
    BY <2>1, <2>3 DEF Request
  <2>5. Moves(c, r, "exchangeCode", cas[c]) /\ cas[c] \in Step \cup {None}
    BY <1>5, Stays DEF ConnectionInv, Goto, Moves
  <2>6. req'[c] = r /\ pc'[c] = "exchangeCode" /\ \A d \in Calls \ {c} : req'[d] = req[d]
    BY <2>4, <2>5, MovesTyped DEF ConnectionInv, Phases
  <2> HIDE DEF r
  <2>7. CallIsSound(c)'
    BY <1>1, <1>2, <2>1, <2>2, <2>4, <2>6, ConnectionConstants DEF CallIsSound, CallbackPhases, Rotation!Operations
  <2>8. \A d \in Calls \ {c} : req[d] # None /\ req[d].op = "callback" /\ req[d].tenant # None => req[d].flow # f
    BY <2>1 DEF ConnectionInv, CallIsSound
  <2>9. FlowConnectsOnce'
    BY <2>4, <2>6, <2>8 DEF ConnectionInv, FlowConnectsOnce
  <2> QED BY <1>1, <1>2, <1>3, <2>4, <2>5, <2>7, <2>9, CallStepKeepsInv DEF Phases
<1> QED
  BY <1>4, <1>5 DEF consume

LEMMA UpsertKeepsInv ==
  ASSUME ConnectionInv, CallContext, NEW c \in Calls, upsertSlackConnection(c)
  PROVE  ConnectionInv'
<1>1. /\ pc[c] = "upsert" /\ CallIsSound(c) /\ req[c] \in Request /\ req[c].tenant \in Tenants
      /\ secret[req[c].tenant] # None
  BY RequestFields DEF upsertSlackConnection, ConnectionInv, TypeOK, CallIsSound, CallbackPhases
<1>2. Moves(c, req[c], "done", None)
  BY EndMoves, Stays DEF ConnectionInv, upsertSlackConnection
<1>3. CallIsSound(c)'
  BY <1>1, <1>2, LandsOutside
<1>4. FlowConnectsOnce'
  BY DEF upsertSlackConnection, ConnectionInv, FlowConnectsOnce
<1>5. ConnectionHasSecret' /\ connection' \in [Tenants -> Calls \cup {None}]
  BY <1>1 DEF upsertSlackConnection, ConnectionInv, ConnectionHasSecret, TypeOK, secretVars
<1>6. flow' \in [Flows -> FlowRecord \cup {None}] /\ flow' = flow
  BY DEF ConnectionInv, TypeOK, StoreTypeOK, CallContext, storeVars
<1> QED
  BY <1>1, <1>2, <1>3, <1>4, <1>5, <1>6, CallStepKeepsInv DEF upsertSlackConnection, CallContext, storeVars, Phases

-----------------------------------------------------------------------------
(* A token is sent to Slack: its call had it for itself. *)
LEMMA RefreshedMatches ==
  ASSUME NEW v \in Value, v.status = "refreshing", NEW time \in Nat
  PROVE  LET n == [status |-> "ready", token |-> [v.token EXCEPT !.generation = @ + 1],
                   expires |-> time + TokenTtl, started |-> None]
         IN  /\ n \in Value
             /\ SwapMatchesPurpose([purpose |-> "commit", expected |-> v, next |-> n, record |-> None])
<1> DEFINE token == [v.token EXCEPT !.generation = @ + 1]
           n == [status |-> "ready", token |-> token, expires |-> time + TokenTtl, started |-> None]
<1>1. v.token \in Token /\ v.token.generation \in Nat
  BY ValueFields
<1>2. token \in Token /\ token.connect = v.token.connect /\ token.generation = v.token.generation + 1
  BY <1>1 DEF Token
<1>3. n \in Value
  BY <1>2, LifecycleConstants DEF Value, Credential
<1>4. SwapMatchesPurpose([purpose |-> "commit", expected |-> v, next |-> n, record |-> None])
  BY <1>2, ConnectionConstants DEF SwapMatchesPurpose
<1> QED
  BY <1>3, <1>4

LEMMA RefreshLands ==
  ASSUME ConnectionInv, CallContext, NEW c \in Calls, refresh(c)
  PROVE  \E s \in Step : Moves(c, req[c], "compare", s) /\ SwapMatchesPurpose(s) /\ s.record = None
<1> DEFINE staged == cas[c].next
<1>1. staged \in Value /\ staged.status = "refreshing" /\ at[c] \in Nat
  BY StagedToken, Stays DEF refresh, ConnectionInv
<1>2. CASE persistIntervention(c, staged)
  <2> DEFINE s == [purpose |-> "intervene", expected |-> staged, next |-> intervention(staged), record |-> None]
  <2>1. s \in Step /\ SwapMatchesPurpose(s)
    BY <1>1, InterventionMatches DEF Step
  <2>2. Moves(c, req[c], "compare", s)
    BY <1>2, CompareAndSwapMoves DEF persistIntervention, refresh, ConnectionInv
  <2> QED BY <2>1, <2>2
<1>3. CASE compareAndSwapSecret(c, "commit", staged,
             [status |-> "ready", token |-> [staged.token EXCEPT !.generation = @ + 1],
              expires |-> at[c] + TokenTtl, started |-> None])
  <2> DEFINE n == [status |-> "ready", token |-> [staged.token EXCEPT !.generation = @ + 1],
                   expires |-> at[c] + TokenTtl, started |-> None]
             s == [purpose |-> "commit", expected |-> staged, next |-> n, record |-> None]
  <2>1. n \in Value /\ SwapMatchesPurpose(s)
    BY <1>1, RefreshedMatches
  <2> HIDE DEF n
  <2>2. s \in Step
    BY <1>1, <2>1 DEF Step
  <2>3. Moves(c, req[c], "compare", s)
    BY <1>3, CompareAndSwapMoves DEF refresh, ConnectionInv, n
  <2> QED BY <2>1, <2>2, <2>3
<1> QED
  BY <1>2, <1>3 DEF refresh

LEMMA RefreshKeepsInv ==
  ASSUME ConnectionInv, CallContext, UNCHANGED connection, NEW c \in Calls, refresh(c)
  PROVE  ConnectionInv'
<1> DEFINE k == cas[c].next.token
           t == req[c].tenant
<1>1. /\ pc[c] = "exchange" /\ submitted' = submitted \cup {[token |-> k, by |-> c]}
      /\ UNCHANGED <<secretVars, req, lastPut>>
  BY DEF refresh
<1>2. k \in Token /\ k.connect \in Calls /\ k.generation \in Nat /\ t \in Tenants
  BY <1>1, StagedToken
<1>3. PICK s \in Step : Moves(c, req[c], "compare", s) /\ SwapMatchesPurpose(s) /\ s.record = None
  BY RefreshLands
<1>4. /\ CallTypeOK'
      /\ pc'[c] = "compare" /\ cas'[c] = s
      /\ \A d \in Calls \ {c} : pc'[d] = pc[d] /\ cas'[d] = cas[d]
  BY <1>3, MovesTyped, Stays DEF ConnectionInv, Phases
<1>5. /\ ConnectedBy(k.connect, t)
      /\ \A m \in submitted : m.token # k
      /\ \A d \in Calls : pc[d] = "exchange" /\ cas[d].next.token = k => d = c
      /\ HoldsCredential(t) /\ secret[t].value.token.connect = k.connect =>
           /\ k.generation <= secret[t].value.token.generation
           /\ secret[t].value.status = "ready" => k.generation < secret[t].value.token.generation
  BY <1>1, <1>2 DEF ConnectionInv, ExchangeIsExclusive
<1>6. TypeOK'
  <2>1. [token |-> k, by |-> c] \in [token : Token, by : Calls]
    BY <1>2
  <2> QED
    BY <1>1, <1>4, <2>1 DEF ConnectionInv, TypeOK, StoreTypeOK, CallTypeOK, CallContext, storeVars, keyVars, secretVars
<1>7. (FlowOrigin /\ SweepScheduled /\ StoreIsCurrent /\ SecretIsReadable /\ FlowConnectsOnce /\ ConnectionHasSecret)'
  BY <1>1 DEF ConnectionInv, FlowOrigin, SweepScheduled, StoreIsCurrent, SecretIsReadable, getSecret, FlowConnectsOnce,
         ConnectionHasSecret, CallContext, storeVars, keyVars, secretVars
<1>8. \A d \in Calls : CallIsSound(d)'
  <2>1. Advances
    BY <1>1 DEF Advances, CallContext, storeVars, secretVars, ConnectionInv, TypeOK
  <2>2. SwapMatchesPurpose(cas[c])'
    BY <1>3, <1>4 DEF CallContext, SwapMatchesPurpose, Rotation!Operations, Rotation!State, Rotation!allowed, Rotation!next
  <2>3. CallIsSound(c)'
    BY <1>1, <1>3, <2>2, LandsOnCompare DEF CallbackPhases
  <2> QED BY <1>1, <1>4, <2>1, <2>3, BystandersStaySound
<1>9. \A j \in Calls, u \in Tenants : ConnectedBy(j, u) => ConnectedBy(j, u)'
  BY <1>1, <1>4 DEF ConnectedBy
<1>10. SubmittedOnce'
  BY <1>1, <1>5 DEF ConnectionInv, SubmittedOnce
<1>11. SubmittedOrigin'
  <2> SUFFICES ASSUME NEW m \in submitted' PROVE \E u \in Tenants : ConnectedBy(m.token.connect, u)'
    BY DEF SubmittedOrigin
  <2>1. CASE m \in submitted
    BY <1>9, <2>1 DEF ConnectionInv, SubmittedOrigin, TypeOK, Token
  <2>2. CASE m = [token |-> k, by |-> c]
    BY <1>2, <1>5, <1>9, <2>2
  <2> QED BY <1>1, <2>1, <2>2
<1>12. \A u \in Tenants : HoldsCredential(u) /\ secret[u].value.token.connect = k.connect => u = t
  <2> SUFFICES ASSUME NEW u \in Tenants, HoldsCredential(u), secret[u].value.token.connect = k.connect
               PROVE  u = t
    OBVIOUS
  <2>1. ConnectedBy(k.connect, u)
    BY DEF ConnectionInv, StoredOrigin
  <2>2. ConnectedBy(k.connect, t)
    BY <1>5
  <2> HIDE DEF k
  <2> QED BY <2>1, <2>2 DEF ConnectedBy
<1>13. StoredOrigin'
  <2> SUFFICES ASSUME NEW u \in Tenants
               PROVE  /\ lastPut[u] # None => HoldsCredential(u)
                      /\ HoldsCredential(u) =>
                           LET v == secret[u].value IN
                           /\ v.token.connect = lastPut[u] /\ ConnectedBy(v.token.connect, u)'
                           /\ \A m \in submitted' : m.token.connect = v.token.connect =>
                                /\ m.token.generation <= v.token.generation
                                /\ v.status = "ready" => m.token.generation < v.token.generation
                      /\ secret[u] # None /\ ~HoldsCredential(u) => "rotation" \in scenario.does
    BY <1>1 DEF StoredOrigin, HoldsCredential, secretVars, CallContext
  <2>1. /\ lastPut[u] # None => HoldsCredential(u)
        /\ HoldsCredential(u) =>
             LET v == secret[u].value IN
             /\ v.token.connect = lastPut[u] /\ ConnectedBy(v.token.connect, u)
             /\ \A m \in submitted : m.token.connect = v.token.connect =>
                  /\ m.token.generation <= v.token.generation
                  /\ v.status = "ready" => m.token.generation < v.token.generation
        /\ secret[u] # None /\ ~HoldsCredential(u) => "rotation" \in scenario.does
    BY DEF ConnectionInv, StoredOrigin
  <2>2. HoldsCredential(u) => secret[u].value.token.connect \in Calls
    BY StoredValue, ValueFields DEF HoldsCredential
  <2>3. ASSUME HoldsCredential(u), NEW m \in submitted', m.token.connect = secret[u].value.token.connect
        PROVE  /\ m.token.generation <= secret[u].value.token.generation
               /\ secret[u].value.status = "ready" => m.token.generation < secret[u].value.token.generation
    <3>1. CASE m \in submitted
      BY <2>1, <2>3, <3>1
    <3>2. CASE m.token = k
      BY <1>5, <1>12, <2>3, <3>2
    <3> QED BY <1>1, <3>1, <3>2
  <2> QED BY <1>1, <1>9, <2>1, <2>2, <2>3 DEF secretVars
<1>14. ExchangeIsExclusive'
  <2> SUFFICES ASSUME NEW d \in Calls, pc'[d] = "exchange"
               PROVE  LET j == cas[d].next.token u == req[d].tenant IN
                      /\ ConnectedBy(j.connect, u)'
                      /\ \A m \in submitted' : m.token # j
                      /\ \A e \in Calls : pc'[e] = "exchange" /\ cas'[e].next.token = j => e = d
                      /\ HoldsCredential(u) /\ secret[u].value.token.connect = j.connect =>
                           /\ j.generation <= secret[u].value.token.generation
                           /\ secret[u].value.status = "ready" => j.generation < secret[u].value.token.generation
    BY <1>1, <1>4 DEF ExchangeIsExclusive, HoldsCredential, secretVars
  <2>1. d # c /\ pc[d] = "exchange"
    BY <1>4
  <2>2. cas[d].next.token.connect \in Calls /\ req[d].tenant \in Tenants
    BY <2>1, StagedToken
  <2> DEFINE j == cas[d].next.token
             u == req[d].tenant
  <2>3. /\ ConnectedBy(j.connect, u)
        /\ \A m \in submitted : m.token # j
        /\ \A e \in Calls : pc[e] = "exchange" /\ cas[e].next.token = j => e = d
        /\ HoldsCredential(u) /\ secret[u].value.token.connect = j.connect =>
             /\ j.generation <= secret[u].value.token.generation
             /\ secret[u].value.status = "ready" => j.generation < secret[u].value.token.generation
    BY <2>1 DEF ConnectionInv, ExchangeIsExclusive
  <2>4. j # k
    BY <1>5, <2>1
  <2>5. ConnectedBy(j.connect, u)'
    <3>1. cas'[d] = cas[d] /\ req'[d] = req[d]
      BY <1>1, <1>4, <2>1
    <3>2. \A x \in Calls : ConnectedBy(x, u) => ConnectedBy(x, u)'
      BY <1>9, <2>2, <3>1
    <3> QED BY <2>2, <2>3, <3>1, <3>2
  <2>6. \A m \in submitted' : m.token # j
    BY <1>1, <2>3, <2>4
  <2>7. \A e \in Calls : pc'[e] = "exchange" /\ cas'[e].next.token = j => e = d
    BY <1>4, <2>3
  <2> QED BY <2>3, <2>5, <2>6, <2>7
<1> QED
  BY <1>6, <1>7, <1>8, <1>10, <1>11, <1>13, <1>14 DEF ConnectionInv

-----------------------------------------------------------------------------
(* A value is stored: it is under a key its object has, and no ciphertext  *)
(* was like it.                                                            *)
LEMMA PutStores ==
  ASSUME ConnectionInv, NEW t \in Tenants, NEW v \in Value, putSecret(t, v), UNCHANGED <<deployed, keyring>>
  PROVE  /\ secret' \in [Tenants -> Record \cup {None}] /\ writes' = writes + 1 /\ writes \in Nat
         /\ secret'[t] # None /\ secret'[t].value = v /\ secret'[t].record = writes + 1
         /\ \A u \in Tenants \ {t} : secret'[u] = secret[u]
         /\ StoreIsCurrent' /\ SecretIsReadable'
<1> DEFINE r == encryptSecretValue(t, v)
<1>1. keyring[t] \in BothOld .. deployed /\ deployed \in BothOld .. NewOnly /\ writes \in Nat
  BY DEF ConnectionInv, TypeOK
<1>2. r \in Record /\ r # None /\ r.value = v /\ r.record = writes + 1 /\ r.key = currentKey(keyring[t])
  BY <1>1, ConnectionConstants DEF encryptSecretValue, Record, currentKey
<1>3. secret' = [secret EXCEPT ![t] = r] /\ writes' = writes + 1
  BY DEF putSecret
<1> HIDE DEF r
<1>4. /\ secret' \in [Tenants -> Record \cup {None}]
      /\ secret'[t] = r /\ \A u \in Tenants \ {t} : secret'[u] = secret[u]
  BY <1>2, <1>3 DEF ConnectionInv, TypeOK
<1>5. deployed = NewOnly => keyring[t] # BothOld
  BY DEF ConnectionInv, StoreIsCurrent
<1>6. StoreIsCurrent'
  <2>1. deployed' = NewOnly =>
          \A u \in Tenants : keyring'[u] # BothOld /\ (secret'[u] # None => secret'[u].key = "new")
    BY <1>2, <1>4, <1>5 DEF ConnectionInv, StoreIsCurrent, currentKey
  <2>2. \A u \in Tenants : secret'[u] # None => secret'[u].record <= writes'
    <3> SUFFICES ASSUME NEW u \in Tenants, secret'[u] # None PROVE secret'[u].record <= writes'
      OBVIOUS
    <3>1. CASE u = t
      BY <1>1, <1>2, <1>3, <1>4, <3>1
    <3>2. CASE u # t
      BY <1>1, <1>3, <1>4, <3>2, StoredValue DEF ConnectionInv, StoreIsCurrent
    <3> QED BY <3>1, <3>2
  <2> QED BY <2>1, <2>2 DEF StoreIsCurrent
<1>7. SecretIsReadable'
  BY <1>1, <1>2, <1>4 DEF ConnectionInv, SecretIsReadable, getSecret, currentKey, keyById, BothOld, NewOnly
<1> QED
  BY <1>1, <1>2, <1>3, <1>4, <1>6, <1>7

(* Where a call goes after a compare-and-swap took effect. *)
LEMMA SwapLands ==
  ASSUME ConnectionInv, CallContext, NEW c \in Calls, pc[c] = "swap", UNCHANGED req, Matched(c) \/ Rejected(c)
  PROVE  \E p \in Phases, s \in Step \cup {None} :
           /\ Moves(c, req[c], p, s) /\ CallIsSound(c)'
           /\ p = "exchange" => cas[c].purpose = "stage" /\ s = cas[c]
<1>1. /\ SwapIsSound(c) /\ cas[c] \in Step /\ pc[c] \notin CallbackPhases \cup {"idle", "done"}
      /\ req[c] \in Request /\ req[c].op # "callback"
  BY SwappingCall, OtherThanCallback
<1>2. CASE End(c)
  <2>1. Moves(c, req[c], "done", None)
    BY <1>2, EndMoves, Stays DEF ConnectionInv
  <2>2. CallIsSound(c)'
    BY <2>1, LandsOutside
  <2> QED BY <2>1, <2>2 DEF Phases
<1>3. CASE Return(c)
  <2>1. PICK p \in {"done", "resolved"} : Moves(c, req[c], p, None)
    BY <1>3, ReturnMoves DEF ConnectionInv
  <2>2. CallIsSound(c)'
    BY <1>1, <2>1, LandsOutside
  <2> QED BY <2>1, <2>2 DEF Phases
<1>4. CASE cas[c].purpose = "commit" /\ persistIntervention(c, cas[c].expected)
  <2> DEFINE v == cas[c].expected
             s == [purpose |-> "intervene", expected |-> v, next |-> intervention(v), record |-> None]
  <2>1. v \in Value /\ v.status = "refreshing"
    BY <1>1, <1>4, SwappingCall DEF SwapIsSound, SwapMatchesPurpose
  <2>2. s \in Step /\ s # None /\ SwapMatchesPurpose(s)
    BY <2>1, InterventionMatches, ConnectionConstants DEF Step
  <2>3. Moves(c, req[c], "compare", s)
    BY <1>4, CompareAndSwapMoves DEF persistIntervention, ConnectionInv
  <2>4. cas'[c] = s /\ scenario' = scenario
    BY <1>1, <2>2, <2>3, MovesTyped DEF ConnectionInv, Phases, CallContext
  <2>5. s.record = None
    OBVIOUS
  <2> HIDE DEF s
  <2>6. SwapMatchesPurpose(cas[c])'
    BY <2>2, <2>4 DEF SwapMatchesPurpose, Rotation!Operations, Rotation!State, Rotation!allowed, Rotation!next
  <2>7. CallIsSound(c)'
    BY <1>1, <2>2, <2>3, <2>5, <2>6, LandsOnCompare
  <2> QED BY <2>2, <2>3, <2>7 DEF Phases
<1>5. CASE cas[c].purpose = "stage" /\ Goto(c, "exchange") /\ UNCHANGED <<at, cas>>
  <2>1. Moves(c, req[c], "exchange", cas[c])
    BY <1>5, Stays DEF ConnectionInv, Goto, Moves
  <2>2. req'[c] = req[c] /\ pc'[c] = "exchange" /\ cas'[c] = cas[c] /\ scenario' = scenario
    BY <1>1, <2>1, MovesTyped DEF ConnectionInv, Phases, CallContext
  <2>3. CallIsSound(c) /\ SwapMatchesPurpose(cas[c]) /\ cas[c] # None
    BY <1>1 DEF ConnectionInv, SwapIsSound
  <2>4. SwapMatchesPurpose(cas[c])'
    BY <1>5, <2>2, <2>3 DEF SwapMatchesPurpose, Rotation!Operations, Rotation!State, Rotation!allowed, Rotation!next
  <2>5. CallIsSound(c)'
    BY <1>1, <1>5, <2>2, <2>3, <2>4, ConnectionConstants DEF CallIsSound, CallbackPhases
  <2> QED BY <1>1, <1>5, <2>1, <2>5 DEF Phases
<1> QED
  BY <1>2, <1>3, <1>4, <1>5 DEF Matched, Rejected

(* What a compare-and-swap makes of the value it found: a credential goes  *)
(* on with its connection, and is not ready again with an old token.       *)
LEMMA SwapGoesOn ==
  ASSUME ConnectionInv, NEW c \in Calls, pc[c] = "swap", recordOf(req[c].tenant) = cas[c].record
  PROVE  LET t == req[c].tenant old == secret[t].value v == cas[c].next IN
         \/ /\ cas[c].purpose # "rotate" /\ HoldsCredential(t) /\ v.status # "rotation"
            /\ v.token.connect = old.token.connect /\ old.token.connect \in Calls
            /\ old.token.generation \in Nat /\ v.token.generation \in Nat /\ old.token.generation <= v.token.generation
            /\ v.status = "ready" => old.token.generation < v.token.generation
            /\ cas[c].purpose = "stage" => old.status = "ready" /\ v.token = old.token
         \/ /\ cas[c].purpose = "rotate" /\ ~HoldsCredential(t) /\ v.status = "rotation" /\ lastPut[t] = None
            /\ "rotation" \in scenario.does
<1> DEFINE t == req[c].tenant
           old == secret[t].value
           v == cas[c].next
<1>1. SwapIsSound(c) /\ SwapMatchesPurpose(cas[c]) /\ v \in Value /\ valueOf(t) = cas[c].expected /\ t \in Tenants
  BY SwappingCall, OtherThanCallback DEF SwapIsSound, CallbackPhases
<1>2. CASE cas[c].purpose # "rotate"
  <2>1. secret[t] # None /\ old = cas[c].expected /\ old.status \in {"ready", "refreshing"}
    BY <1>1, <1>2 DEF SwapMatchesPurpose, valueOf
  <2>2. v.status \in {"ready", "refreshing", "intervention_required"}
    BY <1>1, <1>2 DEF SwapMatchesPurpose
  <2>3. /\ old \in Value /\ old.token.connect \in Calls /\ old.token.generation \in Nat
        /\ v.token.generation \in Nat
    BY <1>1, <2>1, <2>2, StoredValue, ValueFields
  <2>4. /\ HoldsCredential(t) /\ v.token.connect = old.token.connect
        /\ \/ v.token = old.token /\ v.status # "ready"
           \/ v.token.generation = old.token.generation + 1
        /\ cas[c].purpose = "stage" => old.status = "ready" /\ v.token = old.token
    BY <1>1, <1>2, <2>1 DEF SwapMatchesPurpose, HoldsCredential
  <2> HIDE DEF t, old, v
  <2>5. old.token.generation <= v.token.generation /\ (v.status = "ready" => old.token.generation < v.token.generation)
    BY <2>3, <2>4
  <2> QED BY <1>2, <2>2, <2>3, <2>4, <2>5 DEF t, old, v
<1>3. CASE cas[c].purpose = "rotate"
  <2>1. v.status = "rotation" /\ ~HoldsCredential(t) /\ "rotation" \in scenario.does
    <3>1. CASE cas[c].expected = None
      <4>1. "rotation" \in scenario.does /\ \E id \in TokenIds : v = Rotation!State(id, None, None)
        BY <1>1, <1>3, <3>1, Zenon DEF SwapMatchesPurpose
      <4>2. secret[t] = None
        BY <1>1, <3>1, ConnectionConstants, StoredValue DEF valueOf
      <4>3. v.status = "rotation"
        BY <4>1 DEF Rotation!State
      <4> QED BY <4>1, <4>2, <4>3 DEF HoldsCredential
    <3>2. CASE cas[c].expected # None
      <4>1. PICK op \in Rotation!Operations, id \in TokenIds :
              Rotation!allowed(cas[c].expected, op, id) /\ v = Rotation!next(cas[c].expected, op, id)
        BY <1>1, <1>3, <3>2 DEF SwapMatchesPurpose
      <4>2. cas[c].expected \in Value /\ cas[c].expected.status = "rotation"
        BY <1>1, <1>3, <3>2, SwappingCall DEF SwapMatchesPurpose
      <4>3. v.status = "rotation"
        BY <4>1, <4>2, RotationProposal
      <4> QED BY <1>1, <1>3, <3>2, <4>2, <4>3 DEF HoldsCredential, valueOf, SwapMatchesPurpose
    <3> QED BY <3>1, <3>2
  <2> QED BY <1>1, <1>3, <2>1 DEF ConnectionInv, StoredOrigin
<1> QED
  BY <1>2, <1>3

(* A compare-and-swap takes effect. *)
LEMMA SwapPutKeepsInv ==
  ASSUME ConnectionInv, CallContext, NEW c \in Calls, pc[c] = "swap", recordOf(req[c].tenant) = cas[c].record,
         putSecret(req[c].tenant, cas[c].next), Matched(c) \/ Rejected(c), UNCHANGED <<submitted, req, lastPut, connection>>
  PROVE  ConnectionInv'
<1> DEFINE t == req[c].tenant
           old == secret[t].value
           v == cas[c].next
<1>1. t \in Tenants /\ v \in Value
  BY SwappingCall, OtherThanCallback DEF CallbackPhases
<1>2. /\ secret' \in [Tenants -> Record \cup {None}] /\ writes' = writes + 1 /\ writes \in Nat
      /\ secret'[t] # None /\ secret'[t].value = v /\ secret'[t].record = writes + 1
      /\ \A u \in Tenants \ {t} : secret'[u] = secret[u]
      /\ StoreIsCurrent' /\ SecretIsReadable'
  BY <1>1, PutStores DEF CallContext, keyVars
<1>3. PICK p \in Phases, s \in Step \cup {None} :
        /\ Moves(c, req[c], p, s) /\ CallIsSound(c)'
        /\ p = "exchange" => cas[c].purpose = "stage" /\ s = cas[c]
  BY SwapLands
<1>4. /\ CallTypeOK' /\ req' = req /\ pc'[c] = p /\ cas'[c] = s
      /\ \A d \in Calls \ {c} : pc'[d] = pc[d] /\ cas'[d] = cas[d]
  BY <1>3, MovesTyped, Stays DEF ConnectionInv
<1>5. TypeOK'
  BY <1>2, <1>4 DEF ConnectionInv, TypeOK, StoreTypeOK, CallTypeOK, CallContext, storeVars, keyVars
<1>6. (FlowOrigin /\ SweepScheduled /\ SubmittedOnce /\ FlowConnectsOnce)'
  BY DEF ConnectionInv, FlowOrigin, SweepScheduled, SubmittedOnce, FlowConnectsOnce, CallContext, storeVars
<1>7. ConnectionHasSecret'
  BY <1>2 DEF ConnectionInv, ConnectionHasSecret
<1>8. \A d \in Calls : CallIsSound(d)'
  <2>1. \A u \in Tenants :
          secret'[u] = secret[u] \/ (secret'[u] # None /\ secret'[u].record \in Nat /\ secret'[u].record > writes)
    BY <1>2
  <2>2. Advances
    BY <1>2, <2>1 DEF Advances, CallContext, storeVars
  <2> QED BY <1>3, <1>4, <2>2, BystandersStaySound
<1>9. \A k \in Calls, u \in Tenants : ConnectedBy(k, u) => ConnectedBy(k, u)'
  BY <1>4 DEF ConnectedBy
<1>10. SubmittedOrigin'
  BY <1>9 DEF ConnectionInv, SubmittedOrigin, TypeOK, Token
<1>11. \/ /\ cas[c].purpose # "rotate" /\ HoldsCredential(t) /\ v.status # "rotation"
          /\ v.token.connect = old.token.connect /\ old.token.connect \in Calls
          /\ old.token.generation \in Nat /\ v.token.generation \in Nat /\ old.token.generation <= v.token.generation
          /\ v.status = "ready" => old.token.generation < v.token.generation
          /\ cas[c].purpose = "stage" => old.status = "ready" /\ v.token = old.token
       \/ /\ cas[c].purpose = "rotate" /\ ~HoldsCredential(t) /\ v.status = "rotation" /\ lastPut[t] = None
          /\ "rotation" \in scenario.does
  BY SwapGoesOn
<1>12. \A u \in Tenants \ {t} : HoldsCredential(u)' <=> HoldsCredential(u)
  BY <1>2 DEF HoldsCredential
<1>13. HoldsCredential(t)' <=> v.status # "rotation"
  BY <1>2, <1>1 DEF HoldsCredential
<1>14. StoredOrigin'
  <2> SUFFICES ASSUME NEW u \in Tenants
               PROVE  (/\ lastPut[u] # None => HoldsCredential(u)
                       /\ HoldsCredential(u) =>
                            LET w == secret[u].value IN
                            /\ w.token.connect = lastPut[u] /\ ConnectedBy(w.token.connect, u)
                            /\ \A m \in submitted : m.token.connect = w.token.connect =>
                                 /\ m.token.generation <= w.token.generation
                                 /\ w.status = "ready" => m.token.generation < w.token.generation
                       /\ secret[u] # None /\ ~HoldsCredential(u) => "rotation" \in scenario.does)'
    BY DEF StoredOrigin
  <2>1. /\ lastPut[u] # None => HoldsCredential(u)
        /\ HoldsCredential(u) =>
             LET w == secret[u].value IN
             /\ w.token.connect = lastPut[u] /\ ConnectedBy(w.token.connect, u)
             /\ \A m \in submitted : m.token.connect = w.token.connect =>
                  /\ m.token.generation <= w.token.generation
                  /\ w.status = "ready" => m.token.generation < w.token.generation
        /\ secret[u] # None /\ ~HoldsCredential(u) => "rotation" \in scenario.does
    BY DEF ConnectionInv, StoredOrigin
  <2>2. CASE u # t
    <3>1. HoldsCredential(u) => secret[u].value.token.connect \in Calls
      BY StoredValue, ValueFields DEF HoldsCredential
    <3>2. secret'[u] = secret[u]
      BY <1>2, <2>2
    <3> QED BY <1>9, <1>12, <2>1, <2>2, <3>1, <3>2 DEF CallContext
  <2>3. CASE u = t /\ cas[c].purpose # "rotate"
    <3>1. \A m \in submitted : m.token.generation \in Nat
      BY DEF ConnectionInv, TypeOK, Token
    <3>2. ConnectedBy(secret[u].value.token.connect, u)'
      <4>1. secret'[u].value.token.connect = old.token.connect /\ old.token.connect \in Calls
        BY <1>2, <1>11, <2>3
      <4>2. ConnectedBy(old.token.connect, u)
        BY <1>11, <2>1, <2>3
      <4> HIDE DEF old
      <4> QED BY <1>9, <4>1, <4>2
    <3>3. \A m \in submitted : m.token.connect = v.token.connect =>
            /\ m.token.generation <= v.token.generation
            /\ v.status = "ready" => m.token.generation < v.token.generation
      <4>1. \A m \in submitted : m.token.connect = old.token.connect =>
              /\ m.token.generation <= old.token.generation
              /\ old.status = "ready" => m.token.generation < old.token.generation
        BY <1>11, <2>1, <2>3
      <4>2. /\ v.token.connect = old.token.connect
            /\ old.token.generation \in Nat /\ v.token.generation \in Nat
            /\ old.token.generation <= v.token.generation
            /\ v.status = "ready" => old.token.generation < v.token.generation
        BY <1>11, <2>3
      <4> HIDE DEF old, v
      <4>3. ASSUME NEW m \in submitted, m.token.connect = v.token.connect
            PROVE  /\ m.token.generation <= v.token.generation
                   /\ v.status = "ready" => m.token.generation < v.token.generation
        <5>1. m.token.generation <= old.token.generation /\ m.token.generation \in Nat
          BY <3>1, <4>1, <4>2, <4>3
        <5> QED BY <4>2, <5>1
      <4> QED BY <4>3
    <3>4. HoldsCredential(u)' /\ secret'[u].value = v /\ v.token.connect = lastPut'[u]
      BY <1>2, <1>11, <1>13, <2>1, <2>3
    <3> HIDE DEF v
    <3> QED BY <3>2, <3>3, <3>4 DEF HoldsCredential
  <2>4. CASE u = t /\ cas[c].purpose = "rotate"
    BY <1>11, <1>13, <2>4 DEF CallContext
  <2> QED BY <2>2, <2>3, <2>4
<1>15. ExchangeIsExclusive'
  <2> SUFFICES ASSUME NEW d \in Calls, pc'[d] = "exchange"
               PROVE  (LET k == cas[d].next.token u == req[d].tenant IN
                       /\ ConnectedBy(k.connect, u)
                       /\ \A m \in submitted : m.token # k
                       /\ \A e \in Calls : pc[e] = "exchange" /\ cas[e].next.token = k => e = d
                       /\ HoldsCredential(u) /\ secret[u].value.token.connect = k.connect =>
                            /\ k.generation <= secret[u].value.token.generation
                            /\ secret[u].value.status = "ready" => k.generation < secret[u].value.token.generation)'
    BY DEF ExchangeIsExclusive
  <2>1. ASSUME NEW e \in Calls \ {c}, pc[e] = "exchange"
        PROVE  LET k == cas[e].next.token u == req[e].tenant IN
               /\ k.connect \in Calls /\ k.generation \in Nat /\ u \in Tenants /\ ConnectedBy(k.connect, u)
               /\ \A m \in submitted : m.token # k
               /\ \A f \in Calls : pc[f] = "exchange" /\ cas[f].next.token = k => f = e
               /\ HoldsCredential(u) /\ secret[u].value.token.connect = k.connect =>
                    /\ k.generation <= secret[u].value.token.generation
                    /\ secret[u].value.status = "ready" => k.generation < secret[u].value.token.generation
    BY <2>1, StagedToken DEF ConnectionInv, ExchangeIsExclusive
  <2>2. /\ HoldsCredential(t) =>
             /\ ConnectedBy(old.token.connect, t) /\ old.token.connect \in Calls /\ old.token.generation \in Nat
             /\ \A m \in submitted : old.status = "ready" => m.token # old.token
    <3>1. HoldsCredential(t) => old.token.connect \in Calls /\ old.token.generation \in Nat
      BY <1>1, StoredValue, ValueFields DEF HoldsCredential
    <3> QED BY <1>1, <3>1 DEF ConnectionInv, StoredOrigin
  <2>3. p = "exchange" =>
          /\ cas'[c].next.token = old.token /\ v.token = old.token /\ HoldsCredential(t) /\ old.status = "ready"
          /\ v.status = "refreshing"
    BY <1>3, <1>4, <1>11, SwappingCall DEF SwapIsSound, SwapMatchesPurpose
  <2>4. p = "exchange" => \A e \in Calls \ {c} : pc[e] = "exchange" => cas[e].next.token # old.token
    <3> SUFFICES ASSUME p = "exchange", NEW e \in Calls \ {c}, pc[e] = "exchange", cas[e].next.token = old.token
                 PROVE  FALSE
      OBVIOUS
    <3>1. ConnectedBy(old.token.connect, req[e].tenant) /\ ConnectedBy(old.token.connect, t)
      BY <2>1, <2>2, <2>3
    <3>2. req[e].tenant = t
      BY <3>1 DEF ConnectedBy
    <3>3. HoldsCredential(t) /\ old.status = "ready" /\ old = secret[t].value
      BY <2>3
    <3>4. old.token.generation < old.token.generation /\ old.token.generation \in Nat
      <4>1. /\ cas[e].next.token.generation <= secret[t].value.token.generation
            /\ secret[t].value.status = "ready" =>
                 cas[e].next.token.generation < secret[t].value.token.generation
        BY <2>1, <3>2, <3>3
      <4> QED BY <2>2, <3>3, <4>1
    <3> QED BY <3>4
  <2>5. CASE d # c
    <3> DEFINE k == cas[d].next.token
               u == req[d].tenant
    <3>1. pc[d] = "exchange" /\ cas'[d] = cas[d]
      BY <1>4, <2>5
    <3>2. ConnectedBy(k.connect, u)' /\ \A m \in submitted : m.token # k
      BY <1>9, <2>1, <2>5, <3>1
    <3>3. \A e \in Calls : pc'[e] = "exchange" /\ cas'[e].next.token = k => e = d
      BY <1>4, <2>1, <2>3, <2>4, <2>5, <3>1
    <3>4. HoldsCredential(u)' /\ secret'[u].value.token.connect = k.connect =>
            /\ k.generation <= secret'[u].value.token.generation
            /\ secret'[u].value.status = "ready" => k.generation < secret'[u].value.token.generation
      <4>1. CASE u # t
        <5>1. u \in Tenants \ {t}
          BY <2>1, <2>5, <3>1, <4>1
        <5> QED BY <1>2, <1>12, <2>1, <2>5, <3>1, <5>1
      <4>2. CASE u = t
        <5> SUFFICES ASSUME HoldsCredential(u)', secret'[u].value.token.connect = k.connect
                     PROVE  /\ k.generation <= secret'[u].value.token.generation
                            /\ secret'[u].value.status = "ready" => k.generation < secret'[u].value.token.generation
          OBVIOUS
        <5>1. /\ cas[c].purpose # "rotate" /\ HoldsCredential(t) /\ secret'[u].value = v
              /\ v.token.connect = old.token.connect
              /\ old.token.generation \in Nat /\ v.token.generation \in Nat /\ old.token.generation <= v.token.generation
              /\ v.status = "ready" => old.token.generation < v.token.generation
          BY <1>2, <1>11, <1>13, <4>2
        <5>2. k.generation <= old.token.generation /\ k.generation \in Nat
          <6>1. /\ k.generation \in Nat
                /\ HoldsCredential(u) /\ secret[u].value.token.connect = k.connect =>
                     k.generation <= secret[u].value.token.generation
            BY <2>1, <2>5, <3>1
          <6>2. secret[u].value.token.connect = k.connect /\ old = secret[u].value
            BY <4>2, <5>1
          <6> HIDE DEF k, old
          <6> QED BY <4>2, <5>1, <6>1, <6>2
        <5> HIDE DEF k, u, v, old
        <5> QED BY <5>1, <5>2
      <4> QED BY <4>1, <4>2
    <3> QED BY <3>1, <3>2, <3>3, <3>4
  <2>6. CASE d = c
    <3>1. p = "exchange"
      BY <1>4, <2>6
    <3>2. cas'[d].next.token = old.token /\ old.token.connect \in Calls /\ ConnectedBy(old.token.connect, t)
          /\ \A m \in submitted : m.token # old.token
      BY <2>2, <2>3, <2>6, <3>1
    <3>3. ConnectedBy(cas[d].next.token.connect, req[d].tenant)'
      BY <1>1, <1>9, <2>6, <3>2
    <3>4. \A e \in Calls : pc'[e] = "exchange" /\ cas'[e].next.token = old.token => e = d
      BY <1>4, <2>4, <2>6, <3>1
    <3>5. secret'[t].value.token = old.token /\ secret'[t].value.status = "refreshing" /\ old.token.generation \in Nat
      BY <1>2, <2>2, <2>3, <3>1
    <3>6. req'[d].tenant = t /\ cas'[d].next.token = old.token
      BY <1>1, <2>6, <3>2 DEF CallContext
    <3>7. /\ \A m \in submitted' : m.token # old.token
          /\ old.token.generation <= secret'[t].value.token.generation
          /\ secret'[t].value.status # "ready"
      <4>1. submitted' = submitted
        OBVIOUS
      <4>2. secret'[t].value.token.generation = old.token.generation
        BY <3>5
      <4> HIDE DEF t, old
      <4> QED BY <3>2, <3>5, <4>1, <4>2
    <3>8. /\ cas'[d].next.token.generation <= secret'[req'[d].tenant].value.token.generation
          /\ secret'[req'[d].tenant].value.status # "ready"
      <4>1. /\ secret'[req'[d].tenant] = secret'[t]
            /\ cas'[d].next.token.generation = old.token.generation
        BY <3>6
      <4> HIDE DEF t, old
      <4> QED BY <3>7, <4>1
    <3>9. /\ \A m \in submitted' : m.token # cas'[d].next.token
          /\ \A e \in Calls : pc'[e] = "exchange" /\ cas'[e].next.token = cas'[d].next.token => e = d
      BY <3>4, <3>6, <3>7
    <3> QED BY <3>3, <3>8, <3>9
  <2> QED BY <2>5, <2>6
<1> QED
  BY <1>2, <1>5, <1>6, <1>7, <1>8, <1>10, <1>14, <1>15 DEF ConnectionInv

LEMMA ReplaceKeepsInv ==
  ASSUME ConnectionInv, CallContext, UNCHANGED connection, NEW c \in Calls, replaceIfUnchanged(c)
  PROVE  ConnectionInv'
<1>1. CASE UNCHANGED secretVars /\ (Unmatched(c) \/ Rejected(c))
  BY <1>1, UnmatchedKeepsInv, RejectedKeepsInv DEF replaceIfUnchanged, Stored
<1>2. CASE /\ recordOf(req[c].tenant) = cas[c].record
           /\ putSecret(req[c].tenant, cas[c].next) /\ (Matched(c) \/ Rejected(c))
  BY <1>2, SwapPutKeepsInv DEF replaceIfUnchanged
<1> QED
  BY <1>1, <1>2 DEF replaceIfUnchanged

(* A callback stores the first credential of its connection: nothing of it *)
(* has been sent to Slack.                                                 *)
LEMMA ConnectKeepsInv ==
  ASSUME ConnectionInv, CallContext, NEW c \in Calls, initializeSlackCredentialLifecycle(c)
  PROVE  ConnectionInv'
<1> DEFINE t == req[c].tenant
           v == cas[c].next
<1>1. /\ pc[c] = "put" /\ CallIsSound(c) /\ req[c] \in Request /\ req[c].op = "callback" /\ t \in Tenants
      /\ cas[c] \in Step /\ cas[c].purpose = "put" /\ v.status \in {"ready", "static"} /\ v.token.connect = c
      /\ UNCHANGED <<submitted, req, at, connection>> /\ lastPut' = [lastPut EXCEPT ![t] = c]
  BY RequestFields DEF initializeSlackCredentialLifecycle, ConnectionInv, TypeOK, CallIsSound, CallbackPhases
<1>2. v \in Value
  BY <1>1, StepFields
<1>3. /\ secret' \in [Tenants -> Record \cup {None}] /\ writes' = writes + 1 /\ writes \in Nat
      /\ secret'[t] # None /\ secret'[t].value = v /\ secret'[t].record = writes + 1
      /\ \A u \in Tenants \ {t} : secret'[u] = secret[u]
      /\ StoreIsCurrent' /\ SecretIsReadable'
  BY <1>1, <1>2, PutStores DEF CallContext, keyVars, initializeSlackCredentialLifecycle
<1>4. Moves(c, req[c], "upsert", None)
  BY <1>1, Stays DEF initializeSlackCredentialLifecycle, Goto, Swapping, Moves, ConnectionInv
<1>5. /\ CallTypeOK' /\ pc'[c] = "upsert" /\ cas'[c] = None
      /\ \A d \in Calls \ {c} : pc'[d] = pc[d] /\ cas'[d] = cas[d]
  BY <1>1, <1>4, MovesTyped DEF ConnectionInv, Phases
<1>6. TypeOK'
  <2>1. lastPut' \in [Tenants -> Calls \cup {None}] /\ connection' = connection /\ submitted' = submitted
    BY <1>1 DEF ConnectionInv, TypeOK
  <2> QED
    BY <1>3, <1>5, <2>1 DEF ConnectionInv, TypeOK, StoreTypeOK, CallTypeOK, CallContext, storeVars, keyVars
<1>7. (FlowOrigin /\ SweepScheduled /\ SubmittedOnce /\ FlowConnectsOnce)'
  BY <1>1 DEF ConnectionInv, FlowOrigin, SweepScheduled, SubmittedOnce, FlowConnectsOnce, CallContext, storeVars
<1>8. ConnectionHasSecret'
  BY <1>1, <1>3 DEF ConnectionInv, ConnectionHasSecret
<1>9. \A d \in Calls : CallIsSound(d)'
  <2>1. \A u \in Tenants :
          secret'[u] = secret[u] \/ (secret'[u] # None /\ secret'[u].record \in Nat /\ secret'[u].record > writes)
    BY <1>3
  <2>2. Advances
    BY <1>3, <2>1 DEF Advances, CallContext, storeVars
  <2>3. CallIsSound(c)'
    BY <1>1, <1>3, <1>5 DEF CallIsSound, CallbackPhases, CallContext, storeVars, Rotation!Operations
  <2> QED BY <1>1, <1>5, <2>2, <2>3, BystandersStaySound
<1>10. \A k \in Calls, u \in Tenants : ConnectedBy(k, u) => ConnectedBy(k, u)' /\ k # c
  BY <1>1, <1>5 DEF ConnectedBy
<1>11. ConnectedBy(c, t)'
  BY <1>1, <1>5 DEF ConnectedBy, ConnectionInv, CallIsSound
<1>12. SubmittedOrigin'
  BY <1>1, <1>10 DEF ConnectionInv, SubmittedOrigin, TypeOK, Token
<1>13. \A m \in submitted : m.token.connect # c
  BY <1>10 DEF ConnectionInv, SubmittedOrigin, TypeOK, Token
<1>14. \A u \in Tenants \ {t} : lastPut'[u] = lastPut[u] /\ (HoldsCredential(u)' <=> HoldsCredential(u))
  BY <1>1, <1>3 DEF HoldsCredential, ConnectionInv, TypeOK
<1>15. HoldsCredential(t)' /\ lastPut'[t] = c
  BY <1>1, <1>3 DEF HoldsCredential, ConnectionInv, TypeOK
<1>16. StoredOrigin'
  <2> SUFFICES ASSUME NEW u \in Tenants
               PROVE  (/\ lastPut[u] # None => HoldsCredential(u)
                       /\ HoldsCredential(u) =>
                            LET w == secret[u].value IN
                            /\ w.token.connect = lastPut[u] /\ ConnectedBy(w.token.connect, u)
                            /\ \A m \in submitted : m.token.connect = w.token.connect =>
                                 /\ m.token.generation <= w.token.generation
                                 /\ w.status = "ready" => m.token.generation < w.token.generation
                       /\ secret[u] # None /\ ~HoldsCredential(u) => "rotation" \in scenario.does)'
    BY DEF StoredOrigin
  <2>1. CASE u # t
    <3>1. HoldsCredential(u) => secret[u].value.token.connect \in Calls
      BY StoredValue, ValueFields DEF HoldsCredential
    <3>2. secret'[u] = secret[u]
      BY <1>3, <2>1
    <3> QED BY <1>1, <1>10, <1>14, <2>1, <3>1, <3>2 DEF ConnectionInv, StoredOrigin, CallContext
  <2>2. CASE u = t
    <3>1. secret'[u].value.token.connect = c
      BY <1>1, <1>3, <2>2
    <3>2. ConnectedBy(secret[u].value.token.connect, u)'
      BY <1>11, <1>1, <2>2, <3>1
    <3> QED BY <1>1, <1>13, <1>15, <2>2, <3>1, <3>2
  <2> QED BY <2>1, <2>2
<1>17. ExchangeIsExclusive'
  <2> SUFFICES ASSUME NEW d \in Calls, pc'[d] = "exchange"
               PROVE  (LET k == cas[d].next.token u == req[d].tenant IN
                       /\ ConnectedBy(k.connect, u)
                       /\ \A m \in submitted : m.token # k
                       /\ \A e \in Calls : pc[e] = "exchange" /\ cas[e].next.token = k => e = d
                       /\ HoldsCredential(u) /\ secret[u].value.token.connect = k.connect =>
                            /\ k.generation <= secret[u].value.token.generation
                            /\ secret[u].value.status = "ready" => k.generation < secret[u].value.token.generation)'
    BY DEF ExchangeIsExclusive
  <2> DEFINE k == cas[d].next.token
             u == req[d].tenant
  <2>1. d # c /\ pc[d] = "exchange" /\ cas'[d] = cas[d] /\ k.connect \in Calls /\ u \in Tenants
    BY <1>5, StagedToken
  <2>2. /\ ConnectedBy(k.connect, u)
        /\ \A m \in submitted : m.token # k
        /\ \A e \in Calls : pc[e] = "exchange" /\ cas[e].next.token = k => e = d
        /\ HoldsCredential(u) /\ secret[u].value.token.connect = k.connect =>
             /\ k.generation <= secret[u].value.token.generation
             /\ secret[u].value.status = "ready" => k.generation < secret[u].value.token.generation
    BY <2>1 DEF ConnectionInv, ExchangeIsExclusive
  <2>3. ConnectedBy(k.connect, u)' /\ k.connect # c
    BY <1>1, <1>10, <2>1, <2>2
  <2>4. \A e \in Calls : pc'[e] = "exchange" /\ cas'[e].next.token = k => e = d
    BY <1>5, <2>2
  <2>5. HoldsCredential(u)' /\ secret'[u].value.token.connect = k.connect =>
          secret'[u] = secret[u] /\ HoldsCredential(u)
    <3>1. CASE u = t
      <4>1. secret'[u].value.token.connect = c
        BY <1>1, <1>3, <3>1
      <4> QED BY <2>3, <4>1
    <3>2. CASE u # t
      BY <1>1, <1>3, <2>1, <3>2 DEF HoldsCredential
    <3> QED BY <3>1, <3>2
  <2>6. \A m \in submitted' : m.token # k
    BY <1>1, <2>2
  <2>7. HoldsCredential(u)' /\ secret'[u].value.token.connect = k.connect =>
          /\ k.generation <= secret'[u].value.token.generation
          /\ secret'[u].value.status = "ready" => k.generation < secret'[u].value.token.generation
    BY <2>2, <2>5
  <2>8. cas'[d].next.token = k /\ req'[d].tenant = u
    BY <1>1, <1>5, <2>1
  <2>9. /\ \A m \in submitted' : m.token # cas'[d].next.token
        /\ \A e \in Calls : pc'[e] = "exchange" /\ cas'[e].next.token = cas'[d].next.token => e = d
    BY <2>4, <2>6, <2>8
  <2>10. HoldsCredential(u)' /\ secret'[req'[d].tenant].value.token.connect = cas'[d].next.token.connect =>
           /\ cas'[d].next.token.generation <= secret'[req'[d].tenant].value.token.generation
           /\ secret'[req'[d].tenant].value.status = "ready" =>
                cas'[d].next.token.generation < secret'[req'[d].tenant].value.token.generation
    BY <2>7, <2>8
  <2> QED BY <2>3, <2>9, <2>10
<1> QED
  BY <1>3, <1>6, <1>7, <1>8, <1>9, <1>12, <1>16, <1>17 DEF ConnectionInv

-----------------------------------------------------------------------------
(* The environment: the keys, the time and the state store. *)
LEMMA ElsewhereKeeps ==
  ASSUME ConnectionInv, UNCHANGED scenario, Elsewhere,
         \A f \in Flows : issued[f] # None => issued'[f] = issued[f] /\ (flow[f] = None => flow'[f] = None),
         writes' \in Nat, writes <= writes',
         \A t \in Tenants :
           secret'[t] = secret[t] \/ (/\ secret'[t] # None /\ secret'[t].record \in Nat /\ secret'[t].record > writes
                                      /\ secret[t] # None /\ secret'[t].value = secret[t].value)
  PROVE  /\ \A c \in Calls : CallIsSound(c)'
         /\ (StoredOrigin /\ SubmittedOrigin /\ ExchangeIsExclusive /\ SubmittedOnce)'
         /\ (FlowConnectsOnce /\ ConnectionHasSecret)'
<1>1. \A c \in Calls : CallIsSound(c)'
  BY BystandersStaySound DEF Advances, Elsewhere, callVars
<1>2. (StoredOrigin /\ SubmittedOrigin /\ ExchangeIsExclusive)'
  <2>1. \A k \in Calls, t \in Tenants : ConnectedBy(k, t) => ConnectedBy(k, t)'
    BY DEF ConnectedBy, Elsewhere, callVars
  <2>2. \A t \in Tenants : (secret'[t] = None <=> secret[t] = None) /\ (secret[t] # None => secret'[t].value = secret[t].value)
    OBVIOUS
  <2> QED BY <2>1, <2>2, OriginsStay DEF Elsewhere, callVars
<1>3. (SubmittedOnce /\ FlowConnectsOnce /\ ConnectionHasSecret)'
  BY DEF ConnectionInv, SubmittedOnce, FlowConnectsOnce, ConnectionHasSecret, Elsewhere, callVars
<1> QED
  BY <1>1, <1>2, <1>3

LEMMA KeysKeepInv ==
  ASSUME ConnectionInv, UNCHANGED <<scenario, clock, storeVars>>, Elsewhere, Keys(swapping)
  PROVE  ConnectionInv'
<1>1. /\ secret \in [Tenants -> Record \cup {None}] /\ writes \in Nat
      /\ deployed \in BothOld .. NewOnly /\ keyring \in [Tenants -> BothOld .. deployed]
      /\ rewrapping \in [Tenants -> Record \cup {None}]
  BY DEF ConnectionInv, TypeOK
<1>2. ASSUME secret' \in [Tenants -> Record \cup {None}], writes' \in Nat, writes <= writes',
             deployed' \in BothOld .. NewOnly, keyring' \in [Tenants -> BothOld .. deployed'],
             rewrapping' \in [Tenants -> Record \cup {None}], StoreIsCurrent', SecretIsReadable',
             \A t \in Tenants :
               secret'[t] = secret[t] \/ (/\ secret'[t] # None /\ secret'[t].record \in Nat /\ secret'[t].record > writes
                                          /\ secret[t] # None /\ secret'[t].value = secret[t].value)
      PROVE  ConnectionInv'
  <2>1. TypeOK' /\ FlowOrigin' /\ SweepScheduled'
    BY <1>2 DEF ConnectionInv, TypeOK, StoreTypeOK, FlowOrigin, SweepScheduled, storeVars, Elsewhere, callVars
  <2>2. \A f \in Flows : issued[f] # None => issued'[f] = issued[f] /\ (flow[f] = None => flow'[f] = None)
    BY DEF storeVars
  <2> QED BY <1>2, <2>1, <2>2, ElsewhereKeeps DEF ConnectionInv
<1>3. CASE DeployKeyring
  <2>1. /\ deployed' = deployed + 1 /\ deployed' \in BothOld .. NewOnly
        /\ UNCHANGED <<secret, writes, keyring, rewrapping>>
    BY <1>1, <1>3 DEF DeployKeyring, BothOld, NewOnly, secretVars
  <2>2. keyring' \in [Tenants -> BothOld .. deployed']
    BY <1>1, <2>1 DEF BothOld, NewOnly
  <2>3. StoreIsCurrent'
    BY <1>1, <1>3, <2>1 DEF ConnectionInv, StoreIsCurrent, DeployKeyring, BothOld, BothNew, NewOnly
  <2>4. SecretIsReadable'
    BY <2>1 DEF ConnectionInv, SecretIsReadable, getSecret
  <2> QED BY <1>1, <1>2, <2>1, <2>2, <2>3, <2>4
<1>4. ASSUME NEW t \in Tenants, rewrapSecret(t) PROVE ConnectionInv'
  <2>1. UNCHANGED <<secret, writes, deployed, keyring>> /\ rewrapping' \in [Tenants -> Record \cup {None}]
    BY <1>1, <1>4 DEF rewrapSecret, secretVars
  <2>2. StoreIsCurrent' /\ SecretIsReadable'
    BY <2>1 DEF ConnectionInv, StoreIsCurrent, SecretIsReadable, getSecret
  <2> QED BY <1>1, <1>2, <2>1, <2>2
<1>5. ASSUME NEW t \in Tenants, rewrapSecret_Replace(t) PROVE ConnectionInv'
  <2>1. UNCHANGED <<deployed, keyring>> /\ rewrapping' \in [Tenants -> Record \cup {None}]
    BY <1>1, <1>5 DEF rewrapSecret_Replace
  <2>2. CASE UNCHANGED secretVars
    <3>1. UNCHANGED <<secret, writes>>
      BY <2>2 DEF secretVars
    <3>2. StoreIsCurrent' /\ SecretIsReadable'
      BY <2>1, <3>1 DEF ConnectionInv, StoreIsCurrent, SecretIsReadable, getSecret
    <3> QED BY <1>1, <1>2, <2>1, <3>1, <3>2
  <2>3. CASE secret[t] = rewrapping[t] /\ putSecret(t, rewrapping[t].value)
    <3>1. secret[t] # None /\ rewrapping[t].value = secret[t].value /\ secret[t].value \in Value
      BY <1>5, <2>3, StoredValue DEF rewrapSecret_Replace
    <3>2. /\ secret' \in [Tenants -> Record \cup {None}] /\ writes' = writes + 1
          /\ secret'[t] # None /\ secret'[t].value = secret[t].value /\ secret'[t].record = writes + 1
          /\ \A u \in Tenants \ {t} : secret'[u] = secret[u]
          /\ StoreIsCurrent' /\ SecretIsReadable'
      BY <2>1, <2>3, <3>1, PutStores
    <3>3. \A u \in Tenants :
            secret'[u] = secret[u] \/ (/\ secret'[u] # None /\ secret'[u].record \in Nat /\ secret'[u].record > writes
                                       /\ secret[u] # None /\ secret'[u].value = secret[u].value)
      BY <1>1, <3>1, <3>2
    <3> QED BY <1>1, <1>2, <2>1, <3>2, <3>3
  <2> QED BY <1>5, <2>2, <2>3 DEF rewrapSecret_Replace
<1>6. ASSUME NEW t \in Tenants, resolveKeyring(t, swapping) PROVE ConnectionInv'
  <2>1. /\ UNCHANGED <<secret, writes, deployed>> /\ keyring' = [keyring EXCEPT ![t] = deployed]
        /\ rewrapping' \in [Tenants -> Record \cup {None}]
    BY <1>1, <1>6 DEF resolveKeyring, secretVars
  <2>2. keyring' \in [Tenants -> BothOld .. deployed']
    BY <1>1, <2>1 DEF BothOld, NewOnly
  <2>3. StoreIsCurrent'
    BY <1>1, <2>1 DEF ConnectionInv, StoreIsCurrent, BothOld, NewOnly
  <2>4. SecretIsReadable'
    BY <1>1, <2>1 DEF ConnectionInv, SecretIsReadable, StoreIsCurrent, getSecret, keyById, Record, BothOld, NewOnly
  <2> QED BY <1>1, <1>2, <2>1, <2>2, <2>3, <2>4
<1> QED
  BY <1>3, <1>4, <1>5, <1>6 DEF Keys

(* A set of expiry times has an earliest. *)
LEMMA Earliest ==
  ASSUME NEW S \in SUBSET Nat, S # {}
  PROVE  \E n \in S : \A m \in S : n <= m
<1>1. OpToRel(<, Nat) = {ss \in Nat \X Nat : ss[1] < ss[2]}
  BY Zenon DEF OpToRel
<1>2. IsWellFoundedOn(OpToRel(<, Nat), Nat)
  BY NatLessThanWellFounded
<1>3. PICK n \in S : \A m \in S : ~(<<m, n>> \in OpToRel(<, Nat))
  BY <1>2, WFMin
<1>4. ASSUME NEW m \in S PROVE n <= m
  <2>1. m \in Nat /\ n \in Nat /\ <<m, n>> \in Nat \X Nat
    OBVIOUS
  <2>2. ~(m < n)
    BY <1>1, <1>3, <2>1
  <2> QED BY <2>1, <2>2
<1> QED
  BY <1>4

(* The alarm that is scheduled next is the earliest expiry that is left. *)
LEMMA NextAlarm ==
  ASSUME ConnectionInv
  PROVE  /\ scheduleNextAlarm \in Nat \cup {None}
         /\ \A f \in Flows : live(f) => scheduleNextAlarm # None /\ scheduleNextAlarm <= flow[f].expires
<1> DEFINE L == {f \in Flows : live(f)}
           E == {flow[f].expires : f \in L}
           earliest(f) == live(f) /\ \A g \in Flows : live(g) => flow[f].expires <= flow[g].expires
           first == CHOOSE f \in Flows : earliest(f)
<1>1. \A f \in L : flow[f].expires \in Nat
  BY DEF ConnectionInv, TypeOK, StoreTypeOK, FlowRecord, live
<1>2. CASE \E f \in Flows : live(f)
  <2>1. E \in SUBSET Nat /\ E # {}
    BY <1>1, <1>2
  <2>2. \E f \in Flows : earliest(f)
    <3>1. PICK n \in E : \A m \in E : n <= m
      BY <2>1, Earliest
    <3>2. PICK f \in L : flow[f].expires = n
      BY <3>1
    <3> QED BY <3>1, <3>2
  <2>3. first \in Flows /\ earliest(first)
    BY <2>2
  <2>4. scheduleNextAlarm = flow[first].expires
    BY <1>2 DEF scheduleNextAlarm
  <2> QED BY <1>1, <2>3, <2>4, StateStoreConstants
<1>3. CASE ~\E f \in Flows : live(f)
  BY <1>3 DEF scheduleNextAlarm
<1> QED
  BY <1>2, <1>3

LEMMA EnvironmentKeepsInv ==
  ASSUME ConnectionInv, UNCHANGED scenario, Elsewhere, UNCHANGED <<secretVars, keyVars>>,
         Tick(scenario.until) \/ sweep \/ \E f \in Flows : Start(f)
  PROVE  ConnectionInv'
<1>1. ASSUME StoreTypeOK', FlowOrigin', SweepScheduled',
             \A f \in Flows : issued[f] # None => issued'[f] = issued[f] /\ (flow[f] = None => flow'[f] = None)
      PROVE  ConnectionInv'
  <2>1. TypeOK' /\ StoreIsCurrent' /\ SecretIsReadable'
    BY <1>1 DEF ConnectionInv, TypeOK, StoreIsCurrent, SecretIsReadable, getSecret, secretVars, keyVars, Elsewhere, callVars
  <2>2. writes \in Nat /\ writes' = writes /\ secret' = secret
    BY DEF ConnectionInv, TypeOK, secretVars
  <2> QED BY <1>1, <2>1, <2>2, ElsewhereKeeps DEF ConnectionInv
<1>2. CASE Tick(scenario.until)
  BY <1>1, <1>2 DEF Tick, storeVars, ConnectionInv, TypeOK, StoreTypeOK, FlowOrigin, SweepScheduled
<1>3. CASE sweep
  <2>1. /\ UNCHANGED <<clock, issued>> /\ alarm' \in {alarm, scheduleNextAlarm}
        /\ flow' = [f \in Flows |-> IF live(f) THEN flow[f] ELSE None]
    BY <1>3 DEF sweep
  <2>2. StoreTypeOK'
    BY <2>1, NextAlarm DEF ConnectionInv, TypeOK, StoreTypeOK
  <2>3. FlowOrigin'
    BY <2>1 DEF ConnectionInv, FlowOrigin
  <2>4. SweepScheduled'
    BY <2>1, NextAlarm DEF ConnectionInv, SweepScheduled, live
  <2>5. \A f \in Flows : issued[f] # None => issued'[f] = issued[f] /\ (flow[f] = None => flow'[f] = None)
    BY <2>1
  <2> QED BY <1>1, <2>2, <2>3, <2>4, <2>5
<1>4. ASSUME NEW f \in Flows, Start(f) PROVE ConnectionInv'
  <2>1. PICK t \in Tenants, issuedAt \in 0 .. scenario.until + ClockSkew : issue(f, t, issuedAt)
    BY <1>4 DEF Start
  <2> DEFINE record == [tenant |-> t, binding |-> f, expires |-> issuedAt + StateTtl]
  <2>2. record \in FlowRecord /\ record # None /\ record.binding = f /\ record.expires \in Nat
    BY StateStoreConstants, ConnectionConstants DEF FlowRecord
  <2>3. /\ issued[f] = None /\ UNCHANGED clock /\ alarm' = scheduleEarlierAlarm(record.expires)
        /\ \/ flow' = [flow EXCEPT ![f] = record] /\ issued' = [issued EXCEPT ![f] = record]
           \/ UNCHANGED <<flow, issued>>
    BY <2>1 DEF issue
  <2> HIDE DEF record
  <2>4. /\ alarm' \in Nat /\ alarm' <= record.expires
        /\ alarm # None => alarm' <= alarm
    BY <2>2, <2>3, StateStoreConstants DEF scheduleEarlierAlarm, ConnectionInv, TypeOK, StoreTypeOK
  <2>5. StoreTypeOK'
    BY <2>2, <2>3, <2>4 DEF ConnectionInv, TypeOK, StoreTypeOK
  <2>6. FlowOrigin'
    BY <2>2, <2>3 DEF ConnectionInv, TypeOK, StoreTypeOK, FlowOrigin
  <2>7. SweepScheduled'
    <3> SUFFICES ASSUME NEW g \in Flows, flow'[g] # None PROVE alarm' # None /\ alarm' <= flow'[g].expires
      BY DEF SweepScheduled
    <3>1. CASE flow'[g] = flow[g]
      <4>1. alarm # None /\ alarm \in Nat /\ alarm <= flow[g].expires /\ flow[g].expires \in Nat
        BY <3>1 DEF ConnectionInv, TypeOK, StoreTypeOK, SweepScheduled, FlowRecord
      <4> QED BY <2>4, <3>1, <4>1, StateStoreConstants
    <3>2. CASE flow'[g] = record
      BY <2>4, <3>2, StateStoreConstants
    <3> QED BY <2>3, <3>1, <3>2 DEF ConnectionInv, TypeOK, StoreTypeOK
  <2>8. \A g \in Flows : issued[g] # None => issued'[g] = issued[g] /\ (flow[g] = None => flow'[g] = None)
    BY <2>3 DEF ConnectionInv, TypeOK, StoreTypeOK
  <2> QED BY <1>1, <2>5, <2>6, <2>7, <2>8
<1> QED
  BY <1>2, <1>3, <1>4

-----------------------------------------------------------------------------
LEMMA CallKeepsInv ==
  ASSUME ConnectionInv, UNCHANGED <<scenario, keyVars>>, NEW c \in Calls, Begin(c) \/ Proceed(c)
  PROVE  ConnectionInv'
<1>1. CASE Begin(c)
  <2>1. CallContext
    BY <1>1 DEF Begin, BeginCallback, CallContext
  <2> QED BY <1>1, <2>1, BeginKeepsInv
<1>2. CASE consume(c)
  BY <1>2, ConsumeKeepsInv
<1>3. CASE exchangeCode(c)
  BY <1>3, ExchangeCodeKeepsInv DEF exchangeCode, CallContext
<1>4. CASE initializeSlackCredentialLifecycle(c)
  BY <1>4, ConnectKeepsInv DEF initializeSlackCredentialLifecycle, CallContext
<1>5. CASE upsertSlackConnection(c)
  BY <1>5, UpsertKeepsInv DEF upsertSlackConnection, CallContext
<1>6. CASE (Lifecycle(c) \/ Rotate(c) \/ Swap(c) \/ Crash(c)) /\ UNCHANGED <<clock, storeVars, connection>>
  <2>1. CallContext /\ UNCHANGED connection
    BY <1>6 DEF CallContext
  <2> QED
    BY <1>6, <2>1, ResolveKeepsInv, RefreshIfDueKeepsInv, RefreshKeepsInv, RotateKeepsInv, CompareKeepsInv,
       ReplaceKeepsInv, CrashKeepsInv DEF Lifecycle, Swap
<1> QED
  BY <1>1, <1>2, <1>3, <1>4, <1>5, <1>6 DEF Proceed, Callback

LEMMA NextKeepsInv == ConnectionInv /\ [Next]_vars => ConnectionInv'
<1> SUFFICES ASSUME ConnectionInv, [Next]_vars PROVE ConnectionInv'
  OBVIOUS
<1>1. CASE Next
  <2>1. UNCHANGED scenario
    BY <1>1 DEF Next
  <2>2. CASE (Tick(scenario.until) \/ sweep \/ \E f \in Flows : Start(f)) /\ Elsewhere /\ UNCHANGED <<secretVars, keyVars>>
    BY <2>1, <2>2, EnvironmentKeepsInv
  <2>3. CASE Keys(swapping) /\ Elsewhere /\ UNCHANGED <<clock, storeVars>>
    BY <2>1, <2>3, KeysKeepInv
  <2>4. CASE \E c \in Calls : (Begin(c) \/ Proceed(c)) /\ UNCHANGED keyVars
    BY <2>1, <2>4, CallKeepsInv
  <2> QED BY <1>1, <2>2, <2>3, <2>4 DEF Next
<1>2. CASE UNCHANGED vars
  <2>1. Elsewhere /\ UNCHANGED <<secretVars, keyVars, storeVars, clock, scenario>>
    BY <1>2 DEF vars, Elsewhere
  <2>2. (TypeOK /\ FlowOrigin /\ SweepScheduled /\ StoreIsCurrent /\ SecretIsReadable)'
    BY <2>1 DEF ConnectionInv, TypeOK, StoreTypeOK, FlowOrigin, SweepScheduled, StoreIsCurrent, SecretIsReadable, getSecret,
           secretVars, keyVars, storeVars, Elsewhere, callVars
  <2>3. writes' = writes /\ writes \in Nat /\ secret' = secret /\ issued' = issued /\ flow' = flow
    BY <2>1 DEF ConnectionInv, TypeOK, secretVars, storeVars
  <2> QED BY <2>1, <2>2, <2>3, ElsewhereKeeps DEF ConnectionInv
<1> QED
  BY <1>1, <1>2

LEMMA ConnectionInvariance == Spec => []ConnectionInv
BY InitConnection, NextKeepsInv, PTL DEF Spec

-----------------------------------------------------------------------------
(* The state of the calls, of the state store and of the secrets is well   *)
(* formed.                                                                 *)
THEOREM ConnectionTypes == Spec => []TypeOK
<1>1. ConnectionInv => TypeOK
  BY DEF ConnectionInv
<1> QED
  BY <1>1, ConnectionInvariance, PTL

(* No refresh token is sent to Slack by two calls, and a token that was    *)
(* sent is never stored as ready again (refreshIfDue and the compare-and-  *)
(* swap of secret-store.ts).                                               *)
THEOREM RefreshTokensAreUsedOnce == Spec => []RefreshTokenIsUsedOnce
<1>1. ConnectionInv => RefreshTokenIsUsedOnce
  BY PromisesFollow
<1> QED
  BY <1>1, ConnectionInvariance, PTL

(* A reconnect is not lost to a refresh that was under way, and a stored   *)
(* secret is readable in every phase of the rotation of the keys           *)
(* (rewrapSecret, compareAndSwapSecret).                                   *)
THEOREM CredentialsAreKept == Spec => []CredentialIsKept
<1>1. ConnectionInv => CredentialIsKept
  BY PromisesFollow
<1> QED
  BY <1>1, ConnectionInvariance, PTL

(* A flow connects its own tenant once, and a state that is left has an    *)
(* alarm that sweeps it (oauth-state-store.ts, slack-oauth-callback.ts).   *)
THEOREM FlowsAreBoundOrSwept == Spec => []FlowIsBoundOrSwept
<1>1. ConnectionInv => FlowIsBoundOrSwept
  BY PromisesFollow
<1> QED
  BY <1>1, ConnectionInvariance, PTL

-----------------------------------------------------------------------------
(* The refinement: what each step does to the provider tokens. *)
rotated == [t \in Tenants |-> tokensOf(t)]

HoldsRotation(t) == secret[t] # None /\ secret[t].value.status = "rotation"

LEMMA TokensStay ==
  ASSUME \A t \in Tenants : secret'[t] = secret[t] \/ (~HoldsRotation(t) /\ ~HoldsRotation(t)')
                            \/ (secret[t] # None /\ secret'[t] # None /\ secret'[t].value = secret[t].value)
  PROVE  UNCHANGED rotated
BY DEF rotated, tokensOf, HoldsRotation

LEMMA SwapRotates ==
  ASSUME ConnectionInv, NEW c \in Calls, pc[c] = "swap", recordOf(req[c].tenant) = cas[c].record,
         putSecret(req[c].tenant, cas[c].next), UNCHANGED <<deployed, keyring>>
  PROVE  Rotation!Next \/ UNCHANGED rotated
<1>t. PICK t \in Tenants : t = req[c].tenant
  BY OtherThanCallback DEF CallbackPhases
<1> DEFINE v == cas[c].next
           expected == cas[c].expected
<1>1. /\ SwapIsSound(c) /\ SwapMatchesPurpose(cas[c]) /\ v \in Value /\ valueOf(t) = expected
      /\ expected \in Value \cup {None}
  BY <1>t, SwappingCall DEF SwapIsSound, CallbackPhases
<1>2. secret'[t] # None /\ secret'[t].value = v /\ \A u \in Tenants \ {t} : secret'[u] = secret[u]
  BY <1>t, <1>1, PutStores
<1>3. CASE cas[c].purpose # "rotate"
  <2>1. HoldsCredential(t) /\ v.status # "rotation"
    BY <1>t, <1>3, SwapGoesOn
  <2>2. ~HoldsRotation(t) /\ ~HoldsRotation(t)'
    BY <1>1, <1>2, <2>1 DEF HoldsCredential, HoldsRotation
  <2> QED BY <1>2, <2>2, TokensStay
<1>4. CASE cas[c].purpose = "rotate"
  <2>1. v.status = "rotation"
    BY <1>t, <1>4, SwapGoesOn
  <2>2. rotated' = [rotated EXCEPT ![t] = v]
    BY <1>1, <1>2, <2>1 DEF rotated, tokensOf
  <2>3. CASE expected = None
    <3>1. \E id \in TokenIds : v = Rotation!State(id, None, None)
      BY <1>1, <1>4, <2>3, Zenon DEF SwapMatchesPurpose
    <3>2. rotated[t] = None
      BY <1>1, <2>3, StoredValue, ConnectionConstants DEF rotated, tokensOf, valueOf
    <3>3. Rotation!initialize(t)
      BY <2>2, <3>1, <3>2 DEF Rotation!initialize, rotated
    <3> QED BY <1>1, <3>3 DEF Rotation!Next
  <2>4. CASE expected # None
    <3>1. PICK op \in Rotation!Operations, id \in TokenIds :
            Rotation!allowed(expected, op, id) /\ v = Rotation!next(expected, op, id)
      BY <1>1, <1>4, <2>4 DEF SwapMatchesPurpose
    <3>2. rotated[t] = expected
      BY <1>1, <1>4, <2>4 DEF rotated, tokensOf, valueOf, SwapMatchesPurpose
    <3>3. rotated' = [rotated EXCEPT ![t] = Rotation!next(rotated[t], op, id)]
      BY <2>2, <3>1, <3>2
    <3>4. Rotation!mutate(t)
      BY <1>1, <2>4, <3>1, <3>2, <3>3 DEF Rotation!mutate, rotated
    <3> QED BY <1>1, <3>4 DEF Rotation!Next
  <2> QED BY <2>3, <2>4
<1> QED
  BY <1>3, <1>4

LEMMA ConnectRotatesNothing ==
  ASSUME ConnectionInv, NEW c \in Calls, initializeSlackCredentialLifecycle(c), UNCHANGED <<deployed, keyring>>
  PROVE  UNCHANGED rotated
<1>t. PICK t \in Tenants : t = req[c].tenant
  BY RequestFields DEF initializeSlackCredentialLifecycle, ConnectionInv, TypeOK, CallIsSound, CallbackPhases
<1>1. /\ cas[c].next \in Value /\ cas[c].next.status \in {"ready", "static"}
      /\ "callback" \in scenario.does
  BY RequestFields, StepFields DEF initializeSlackCredentialLifecycle, ConnectionInv, TypeOK, CallIsSound, CallbackPhases
<1>2. secret'[t] # None /\ secret'[t].value = cas[c].next /\ \A u \in Tenants \ {t} : secret'[u] = secret[u]
  BY <1>t, <1>1, PutStores DEF initializeSlackCredentialLifecycle
<1>3. "rotation" \notin scenario.does
  BY <1>1, ConnectionConstants DEF ConnectionInv, TypeOK
<1>4. ~HoldsRotation(t)
  BY <1>1, <1>3 DEF ConnectionInv, StoredOrigin, HoldsCredential, HoldsRotation
<1>5. ~HoldsRotation(t)'
  BY <1>1, <1>2 DEF HoldsRotation
<1> QED
  BY <1>2, <1>4, <1>5, TokensStay

LEMMA NextRotates == ConnectionInv /\ [Next]_vars => [Rotation!Next]_rotated
<1> SUFFICES ASSUME ConnectionInv, [Next]_vars PROVE Rotation!Next \/ UNCHANGED rotated
  OBVIOUS
<1>1. CASE UNCHANGED secretVars
  BY <1>1, TokensStay DEF secretVars
<1>2. ASSUME NEW t \in Tenants, rewrapSecret_Replace(t) PROVE UNCHANGED rotated
  <2>1. CASE UNCHANGED secretVars
    BY <2>1, TokensStay DEF secretVars
  <2>2. CASE secret[t] = rewrapping[t] /\ putSecret(t, rewrapping[t].value)
    <3>1. secret[t] # None /\ rewrapping[t].value = secret[t].value /\ secret[t].value \in Value
      BY <1>2, <2>2, StoredValue DEF rewrapSecret_Replace
    <3>2. secret'[t] # None /\ secret'[t].value = secret[t].value /\ \A u \in Tenants \ {t} : secret'[u] = secret[u]
      BY <1>2, <2>2, <3>1, PutStores DEF rewrapSecret_Replace
    <3> QED BY <3>1, <3>2, TokensStay
  <2> QED BY <1>2, <2>1, <2>2 DEF rewrapSecret_Replace
<1>3. CASE Keys(swapping)
  <2>1. CASE DeployKeyring \/ \E t \in Tenants : rewrapSecret(t) \/ resolveKeyring(t, swapping)
    BY <1>1, <2>1 DEF DeployKeyring, rewrapSecret, resolveKeyring
  <2> QED BY <1>2, <1>3, <2>1 DEF Keys
<1>4. ASSUME NEW c \in Calls, Begin(c) \/ Proceed(c), UNCHANGED keyVars PROVE Rotation!Next \/ UNCHANGED rotated
  <2>1. CASE Begin(c) \/ consume(c) \/ exchangeCode(c) \/ upsertSlackConnection(c) \/ Lifecycle(c) \/ Rotate(c)
             \/ Compare(c) \/ Crash(c)
    <3>1. UNCHANGED secretVars
      BY <2>1 DEF Begin, BeginCallback, BeginLifecycle, BeginRotation, consume, exchangeCode, upsertSlackConnection,
             Lifecycle, resolveAccessToken, refreshIfDue, refresh, Rotate, initialize, mutate, Compare, Crash
    <3> QED BY <1>1, <3>1
  <2>2. CASE initializeSlackCredentialLifecycle(c)
    BY <1>4, <2>2, ConnectRotatesNothing DEF keyVars
  <2>3. CASE replaceIfUnchanged(c)
    <3>1. CASE recordOf(req[c].tenant) = cas[c].record /\ putSecret(req[c].tenant, cas[c].next)
      BY <1>4, <2>3, <3>1, SwapRotates DEF replaceIfUnchanged, keyVars
    <3> QED BY <1>1, <2>3, <3>1 DEF replaceIfUnchanged
  <2> QED BY <1>4, <2>1, <2>2, <2>3 DEF Proceed, Callback, Swap
<1>5. CASE UNCHANGED vars
  BY <1>1, <1>5 DEF vars
<1> QED
  BY <1>1, <1>3, <1>4, <1>5 DEF Next

(* The operators of provider-token-rotation-store.ts together behave as    *)
(* one state per tenant that moves one allowed transition at a time,       *)
(* whatever overlaps, is lost or rejected, or rotates the keys: the        *)
(* compare-and-swaps implement TokenRotation.                              *)
THEOREM RotationIsImplemented == Spec => TokensRotateAtomically
<1>1. Init => Rotation!Init
  BY DEF Init, SecretInit, Rotation!Init, tokensOf
<1>2. ConnectionInv /\ [Next]_vars => [Rotation!Next]_([t \in Tenants |-> tokensOf(t)])
  BY NextRotates DEF rotated
<1> QED
  BY <1>1, <1>2, ConnectionInvariance, PTL DEF Spec, TokensRotateAtomically, Rotation!Spec
=============================================================================
