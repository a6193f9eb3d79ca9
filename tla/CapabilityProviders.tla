------------------------ MODULE CapabilityProviders ------------------------
(***************************************************************************)
(* The trusted providers behind the capability broker                      *)
(* (capabilities/src/index.ts, slack-send-provider.ts).  A provider runs   *)
(* inside one broker call; each await on a service is a step.  What a      *)
(* service has seen is kept in effects, whether or not its answer came     *)
(* back.  A call is a pair <<attempt, index>>.                             *)
(***************************************************************************)
EXTENDS CapabilityScope

CONSTANTS Attempts,         \* 1 .. n, the attempts to run one hook of an execution
          MaxCalls,         \* bound on the calls of an attempt
          AllowedOrigins,   \* createHttpFetchProvider: origins, methods, credentials
          AllowedMethods,
          Credentials,      \* origin -> the header its credential is sent in
          MaxRedirects,
          RedirectTargets,  \* external: the locations a server may name
          Snapshots,        \* external: what the token source may hold
          Templates,        \* email template -> the variables it uses
          OwnTenant,        \* the tenant an invoice provider is bound to
          InvoiceOwner,     \* external: invoice -> its tenant
          MaxEntries, MaxTotalBytes

Calls == Attempts \X (1..MaxCalls)

(* createHttpFetchProvider refuses any other configuration.                *)
ASSUME HttpConfiguration ==
  /\ AllowedMethods # {} /\ AllowedMethods \subseteq supportedHttpMethods
  /\ \A origin \in AllowedOrigins : isPublicHttpDestination(origin)
  /\ \A origin \in DOMAIN Credentials :
       /\ origin \in AllowedOrigins /\ origin.scheme = "https"
       /\ ~isUnsafeCredentialHeader(Credentials[origin])
  /\ MaxRedirects \in 0..10

ASSUME KvConfiguration == MaxEntries \in Nat \ {0} /\ MaxTotalBytes \in Nat \ {0}

ASSUME CallsAreNamed == MaxCalls \in Nat /\ None \notin Calls

VARIABLES
  phase,        \* where each broker call stands
  held,         \* what it holds across an await
  input,        \* its capability and input
  effects,      \* external: what the services were asked to do
  facet,        \* the kv.state facet of the plugin: key -> size
  transaction   \* the call inside a facet transaction

providerVars == <<effects, facet, transaction>>

Goto(c, to, value) == phase' = [phase EXCEPT ![c] = to] /\ held' = [held EXCEPT ![c] = value]

Returns(c, fields) == Goto(c, "returned", [fields |-> fields])
Denies(c) == Goto(c, "reported", [status |-> "denied", reason |-> "provider_denied"])
Fails(c) == Goto(c, "reported", [status |-> "error", reason |-> "provider_failed"])

Effect(c, kind) == effects' = effects \cup {[call |-> c, kind |-> kind]}

Invoked(c, name) == phase[c] = "provider" /\ input[c].name = name

(* A service that is asked once: it answers, it refuses, or the answer is  *)
(* lost, before or after the service acted.                                *)
AsksOnce(c, kind) ==
  \/ Effect(c, kind) /\ (Returns(c, {}) \/ Fails(c))
  \/ Fails(c) /\ UNCHANGED effects

-----------------------------------------------------------------------------
(* createSlackSendProvider, createMockSlackSendProvider: the provider      *)
(* takes no field but channel and text; an unavailable token fails.        *)
slackSend(c) ==
  /\ Invoked(c, "slack.send")
  /\ IF input[c].extra THEN Fails(c) /\ UNCHANGED effects ELSE AsksOnce(c, "message")
  /\ UNCHANGED <<input, facet, transaction>>

(* A template is rendered with every variable it uses and no other.        *)
renderEmailTemplate(request) == request.variables = Templates[request.template]

(* createEmailSendProvider                                                 *)
emailSend(c) ==
  /\ Invoked(c, "email.send")
  /\ IF input[c].template \notin DOMAIN Templates THEN Denies(c) /\ UNCHANGED effects
     ELSE IF ~renderEmailTemplate(input[c]) THEN Denies(c) /\ UNCHANGED effects
     ELSE AsksOnce(c, "email")
  /\ UNCHANGED <<input, facet, transaction>>

(* createInvoiceReadProvider: the tenant of the binding, never the input's. *)
invoiceRead(c) ==
  /\ Invoked(c, "invoice.read")
  /\ \/ /\ input[c].tenantId \in {None, OwnTenant}
        /\ InvoiceOwner[input[c].invoiceId] = OwnTenant
        /\ \E fields \in {{"amount"}, {"amount", "memo"}, Malformed} : Returns(c, fields)
     \/ /\ input[c].tenantId \notin {None, OwnTenant} \/ InvoiceOwner[input[c].invoiceId] # OwnTenant
        /\ Denies(c)
     \/ Fails(c)
  /\ UNCHANGED <<input, providerVars>>

(* createApprovalsRequestProvider: the approval is created, then its       *)
(* lifecycle is started.                                                   *)
createApproval(c) ==
  /\ Invoked(c, "approvals.request")
  /\ \/ Effect(c, "approval") /\ (Goto(c, "lifecycle", None) \/ Fails(c))
     \/ Fails(c) /\ UNCHANGED effects
  /\ UNCHANGED <<input, facet, transaction>>

startApprovalLifecycle(c) ==
  /\ phase[c] = "lifecycle"
  /\ AsksOnce(c, "lifecycle")
  /\ UNCHANGED <<input, facet, transaction>>

-----------------------------------------------------------------------------
(* createRotatingTokenCapabilityProvider: the candidate token first, the   *)
(* active one only when the service rejected the candidate.                *)
normalizeProviderTokenSnapshot(snapshot) ==
  Proper(snapshot.active) /\ snapshot.candidate \notin {Malformed, snapshot.active}

resolveTokens(c) ==
  /\ Invoked(c, "github.issue.create")
  /\ \/ \E snapshot \in Snapshots :
          IF normalizeProviderTokenSnapshot(snapshot)
          THEN Goto(c, "invoke", [snapshot |-> snapshot, fallback |-> snapshot.candidate = None])
          ELSE Fails(c)
     \/ Fails(c)
  /\ UNCHANGED <<input, providerVars>>

invokeWithToken(c) ==
  /\ phase[c] = "invoke"
  /\ \/ AsksOnce(c, "issue")
     \/ ~held[c].fallback /\ Goto(c, "invoke", [held[c] EXCEPT !.fallback = TRUE]) /\ UNCHANGED effects
  /\ UNCHANGED <<input, facet, transaction>>

-----------------------------------------------------------------------------
(* createHttpFetchProvider: one request per step; a redirect is followed   *)
(* to an allowed destination, with the credential of that destination.     *)
startFetch(c) ==
  /\ Invoked(c, "http.fetch")
  /\ IF input[c].method \in AllowedMethods /\ assertHttpFetchDestination(input[c].url, AllowedOrigins) = Ok
     THEN Goto(c, "fetch", [url |-> input[c].url, method |-> input[c].method, redirects |-> 0,
                            headers |-> input[c].headers, body |-> input[c].body])
     ELSE Denies(c)
  /\ UNCHANGED <<input, providerVars>>

credentialOrigin(c) == held[c].url.origin

transportRequest(c) ==
  LET origin == credentialOrigin(c) IN
  [call |-> c, kind |-> "fetch", origin |-> held[c].url.origin, method |-> held[c].method,
   body |-> held[c].body,
   credential |-> IF origin \in DOMAIN Credentials THEN origin ELSE None]

BecomesGet(c, status) ==
  status = 303 \/ (status \in {301, 302} /\ held[c].method = "POST")

followRedirect(c, status, url) ==
  IF \/ held[c].redirects >= MaxRedirects
     \/ parseHttpFetchUrl(url) # Ok \/ assertHttpFetchDestination(url, AllowedOrigins) # Ok
     \/ BecomesGet(c, status) /\ "GET" \notin AllowedMethods
  THEN Denies(c)
  ELSE Goto(c, "fetch",
         IF BecomesGet(c, status)
         THEN [url |-> url, method |-> "GET", redirects |-> held[c].redirects + 1, body |-> None,
               headers |-> {header \in held[c].headers : header.kind # "entity"}]
         ELSE [held[c] EXCEPT !.url = url, !.redirects = @ + 1])

fetchHop(c) ==
  LET origin == held[c].url.origin IN
  /\ phase[c] = "fetch"
  /\ IF origin \in DOMAIN Credentials /\ Credentials[origin] \in held[c].headers
     THEN Denies(c) /\ UNCHANGED effects
     ELSE /\ effects' = effects \cup {transportRequest(c)}
          /\ \/ Returns(c, {}) \/ Fails(c)
             \/ \E status \in {301, 303, 307}, url \in RedirectTargets : followRedirect(c, status, url)
  /\ UNCHANGED <<input, facet, transaction>>

-----------------------------------------------------------------------------
(* createKvStateProvider: get reads the facet; put and delete read it and  *)
(* write it back inside a storage transaction, which runs alone.  A value  *)
(* is its size in bytes.                                                   *)
bytesOf(entries) == UNION {{key} \X (1..entries[key]) : key \in DOMAIN entries}
FacetBytes(entries) == Cardinality(bytesOf(entries))

kvGet(c) ==
  /\ Invoked(c, "kv.state") /\ input[c].operation = "get"
  /\ Returns(c, IF input[c].key \in DOMAIN facet THEN {"found"} ELSE {}) \/ Fails(c)
  /\ UNCHANGED <<input, providerVars>>

kvBegin(c) ==
  /\ Invoked(c, "kv.state") /\ input[c].operation \in {"put", "delete"}
  /\ transaction = None
  /\ transaction' = c /\ Goto(c, "commit", [facet |-> facet])
  /\ UNCHANGED <<input, effects, facet>>

kvPut(c, snapshot) ==
  LET key == input[c].key
      next == [k \in DOMAIN snapshot \cup {key} |-> IF k = key THEN input[c].value ELSE snapshot[k]]
  IN IF \/ key \notin DOMAIN snapshot /\ Cardinality(DOMAIN snapshot) >= MaxEntries
        \/ FacetBytes(next) > MaxTotalBytes
     THEN Denies(c) /\ UNCHANGED <<facet, effects>>
     ELSE facet' = next /\ Effect(c, "put") /\ Returns(c, {})

kvDelete(c, snapshot) ==
  /\ IF input[c].key \in DOMAIN snapshot
     THEN /\ facet' = [k \in DOMAIN snapshot \ {input[c].key} |-> snapshot[k]]
          /\ Effect(c, "delete")
     ELSE UNCHANGED <<facet, effects>>
  /\ Returns(c, {})

kvCommit(c) ==
  /\ phase[c] = "commit"
  /\ \/ IF input[c].operation = "put" THEN kvPut(c, held[c].facet) ELSE kvDelete(c, held[c].facet)
     \/ Fails(c) /\ UNCHANGED <<facet, effects>>
  /\ transaction' = None
  /\ UNCHANGED input

ProviderStep(c) ==
  \/ slackSend(c) \/ emailSend(c) \/ invoiceRead(c)
  \/ createApproval(c) \/ startApprovalLifecycle(c)
  \/ resolveTokens(c) \/ invokeWithToken(c)
  \/ startFetch(c) \/ fetchHop(c)
  \/ kvGet(c) \/ kvBegin(c) \/ kvCommit(c)

-----------------------------------------------------------------------------
(* A credential is sent only to the origin it is configured for, and every *)
(* request of a fetch, the redirected ones included, goes to an origin and *)
(* with a method the provider allows; the grant is another matter          *)
(* (EveryHopIsGranted).                                                    *)
CredentialStaysHome ==
  \A request \in {e \in effects : e.kind = "fetch"} :
    /\ request.credential \in {None, request.origin}
    /\ request.origin \in AllowedOrigins /\ request.method \in AllowedMethods
    /\ request.method = "GET" => request.body = None

(* A facet stays within its limits, and a committed put is in the facet as *)
(* long as nobody deletes its key: concurrent transactions lose no write.  *)
KvWritesKept ==
  /\ Cardinality(DOMAIN facet) <= MaxEntries /\ FacetBytes(facet) <= MaxTotalBytes
  /\ \A e \in {x \in effects : x.kind = "put"} :
       \/ input[e.call].key \in DOMAIN facet
       \/ \E d \in effects : d.kind = "delete" /\ input[d.call].key = input[e.call].key
=============================================================================
