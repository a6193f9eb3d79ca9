------------------------- MODULE LocalRuntime_proofs -------------------------
(***************************************************************************)
(* For any hooks, grants, limits and number of attempts: a hook dispatched *)
(* to the local sandbox settles with a result only when none of the calls  *)
(* its handler had made is under way, what a call did is done once, and    *)
(* every answer of the broker is accounted for.                            *)
(***************************************************************************)
EXTENDS LocalRuntime, FiniteSetTheorems, TLAPS

Busy == {"requested", "journal", "limit", "bucket", "provider", "lifecycle", "invoke", "fetch",
         "commit", "returned", "reported"}
Phases == Busy \cup {"idle", "answered", "delivered"}

(* The phases a call passes only after the grant and its scope were        *)
(* checked, and those in which no service was asked yet.                   *)
Authorized == {"journal", "limit", "bucket", "provider", "lifecycle", "invoke", "fetch", "commit",
               "returned"}
Unasked == {"idle", "requested", "journal", "limit", "bucket", "provider", "invoke", "commit"}

Shape ==
  /\ phase \in [Calls -> Phases] /\ calledAt \in [Calls -> 0..MaxClock] /\ clock \in 0..MaxClock
  /\ held = [c \in Calls |-> held[c]] /\ input = [c \in Calls |-> input[c]]
  /\ journal = [i \in Indexes |-> journal[i]]
  /\ hook \in Hooks
  /\ worker \in [Attempts -> {"none", "starting", "running", "failed", "ended", "posted", "gone"}]
  /\ timer \in [Attempts -> {"off", "startup", "handler"}]
  /\ subrequests \in [Attempts -> Nat] /\ pending \in [Attempts -> SUBSET Indexes]
  /\ ahead \in [Attempts -> Nat] /\ made \in [Attempts -> Nat]
  /\ message \in [Attempts -> Outcomes \cup {None}]
  /\ settled \in [Attempts -> Outcomes \cup {None}]

EffectsOf(c) == {e \in effects : e.call = c}
AuditOf(c) == {a \in audit : a.call = c}

MayGo(request) ==
  /\ request.name \in DOMAIN Grants
  /\ assertScope(request.name, Grants[request.name], request) = Ok

Fields == {"found", "amount", "memo"}

IsFetch(x) ==
  x \in [url : {x.url}, method : {x.method}, redirects : {x.redirects}, headers : {x.headers},
         body : {x.body}]

MayBeSent(request) ==
  /\ request.url.origin \in AllowedOrigins /\ request.method \in AllowedMethods
  /\ request.method = "GET" => request.body = None

(* A call, whatever the others do.                                         *)
CallIsSound(c) ==
  /\ phase[c] # "idle" => input[c] \in Requests
  /\ phase[c] \in Authorized => MayGo(input[c])
  /\ phase[c] \in Unasked => EffectsOf(c) = {}
  /\ phase[c] = "fetch" => IsFetch(held[c]) /\ MayBeSent(held[c])
  /\ phase[c] = "commit" => input[c].name = "kv.state" /\ input[c].operation \in {"put", "delete"}
  /\ phase[c] = "returned" => held[c].fields \in (SUBSET Fields) \cup {Malformed}
  /\ phase[c] \notin {"answered", "delivered"} => AuditOf(c) = {}
  /\ phase[c] \in {"answered", "delivered"} =>
       /\ AuditOf(c) = {} \/ \E r \in AuditOf(c) : AuditOf(c) = {r}
       /\ held[c].by # None =>
            {a.status : a \in AuditOf(c)} = (IF held[c].by = c THEN {"success"} ELSE {})
  /\ journal[c[2]] # None /\ journal[c[2]].result = c => phase[c] \in {"reported", "answered", "delivered"}

JournalIsSound(i) ==
  journal[i] # None =>
    /\ journal[i] \in [input : Requests, result : Calls, fields : SUBSET Fields]
    /\ journal[i].result[2] = i

SentIsAllowed(e) ==
  e.kind = "fetch" =>
    /\ e.credential \in {None, e.origin}
    /\ e.origin \in AllowedOrigins /\ e.method \in AllowedMethods
    /\ e.method = "GET" => e.body = None

BrokerInv ==
  /\ \A c \in Calls : CallIsSound(c)
  /\ \A i \in Indexes : JournalIsSound(i)
  /\ \A e \in effects : e.call \in Calls /\ SentIsAllowed(e)

(* The facet and the transaction that owns it.                             *)
FacetInv ==
  /\ transaction \in Calls \cup {None}
  /\ \A c \in Calls : phase[c] = "commit" => transaction = c /\ held[c].facet = facet
  /\ transaction # None => phase[transaction] = "commit"
  /\ IsFiniteSet(DOMAIN facet) /\ IsFiniteSet(bytesOf(facet))
  /\ KvWritesKept

(* The worker of an attempt and its parent.  A call that was posted and    *)
(* not delivered is one the worker waits for, so a handler that ends with  *)
(* a result has none under way of the calls made so far; later calls are   *)
(* numbered above those.                                                   *)
Quiet(a) == \A i \in Indexes : i <= made[a] => phase[<<a, i>>] \in {"idle", "delivered"}

AttemptIsSound(a) ==
  /\ Runs(a) => \A i \in Indexes : phase[<<a, i>>] \notin {"idle", "delivered"} => i \in pending[a]
  /\ \A i \in Indexes : i > subrequests[a] => phase[<<a, i>>] = "idle"
  /\ subrequests[a] <= Len(hook.tries[a]) /\ made[a] <= subrequests[a]
  /\ message[a] # None <=> worker[a] \in {"failed", "ended", "posted"}
  /\ message[a] # None /\ message[a].ok # None => Quiet(a)
  /\ message[a] # None /\ message[a].ok = TRUE => message[a].value \in Accepted(hook.type)
  /\ settled[a] # None /\ settled[a].ok # None => Quiet(a)
  /\ settled[a] # None /\ settled[a].ok = TRUE => settled[a].value \in Accepted(hook.type)
  /\ worker[a] \in {"none", "starting"} => subrequests[a] = 0
  /\ worker[a] = "none" => settled[a] = None /\ timer[a] = "off"
  /\ worker[a] # "none" => a <= maxAttempts /\ \A b \in Attempts : b < a => settled[b] # None

RuntimeInv == \A a \in Attempts : AttemptIsSound(a)

(* A call of the first attempt and the same call of the second: once the   *)
(* result of the first was delivered, it is in the journal before the      *)
(* second is asked for.                                                    *)
RetryIsSound(a, b, i) ==
  /\ worker[b] = "none" =>
       /\ journal[i] # None => journal[i].result = <<a, i>>
       /\ phase[<<a, i>>] = "reported" /\ held[<<a, i>>].status = "success" => journal[i] # None
       /\ phase[<<a, i>>] \in {"answered", "delivered"} /\ held[<<a, i>>].by # None =>
            journal[i] # None /\ held[<<a, i>>].by = <<a, i>>
  /\ Successful(<<a, i>>) =>
       /\ held[<<a, i>>].by = <<a, i>>
       /\ journal[i] # None /\ journal[i].result = <<a, i>>
       /\ EffectsOf(<<b, i>>) = {}
       /\ phase[<<b, i>>] \in {"idle", "requested", "journal", "reported", "answered", "delivered"}
       /\ phase[<<b, i>>] = "reported" => held[<<b, i>>].status # "success"
       /\ phase[<<b, i>>] \in {"answered", "delivered"} => held[<<b, i>>].by \in {None, <<a, i>>}

RetryInv ==
  \A a, b \in Attempts, i \in Indexes : a < b /\ b <= 2 => RetryIsSound(a, b, i)

IInv == Shape /\ BrokerInv /\ FacetInv /\ RuntimeInv /\ RetryInv

-----------------------------------------------------------------------------
(* Goto moves one call.                                                    *)
LEMMA GotoMoves ==
  ASSUME Shape, NEW c \in Calls, NEW to \in Phases, NEW value, Goto(c, to, value)
  PROVE  /\ phase' \in [Calls -> Phases] /\ held' = [d \in Calls |-> held'[d]]
         /\ phase'[c] = to /\ held'[c] = value
         /\ \A d \in Calls : d # c => phase'[d] = phase[d] /\ held'[d] = held[d]
  BY DEF Goto, Shape

LEMMA CallsArePairs ==
  ASSUME NEW c \in Calls
  PROVE  /\ c[1] \in Attempts /\ c[2] \in Indexes /\ c = <<c[1], c[2]>>
         /\ \A a \in Attempts, i \in Indexes : <<a, i>> \in Calls
  BY DEF Calls, Indexes

(* What a step of a provider does: effects are its call's own, and every   *)
(* request it sends is allowed.                                            *)
AtProvider == {"provider", "lifecycle", "invoke", "fetch", "commit"}

ProviderMove(c, to, value) ==
  /\ phase[c] \in AtProvider
  /\ to \in {"returned", "reported", "lifecycle", "invoke", "fetch", "commit"}
  /\ Goto(c, to, value)
  /\ to = "returned" => value.fields \in (SUBSET Fields) \cup {Malformed}
  /\ to = "reported" => value.status # "success"
  /\ to \in {"invoke", "commit"} => effects' = effects /\ phase[c] \in Unasked
  /\ to = "fetch" => IsFetch(value) /\ MayBeSent(value)
  /\ to = "commit" => input[c].name = "kv.state" /\ input[c].operation \in {"put", "delete"}
  /\ effects \subseteq effects'
  /\ \A e \in effects' : e \in effects \/ (e.call = c /\ SentIsAllowed(e))

ProviderMoved(c) == \E to, value : ProviderMove(c, to, value)

LEMMA EffectIsNoRequest ==
  ASSUME NEW c, NEW kind, kind # "fetch", Effect(c, kind)
  PROVE  /\ effects \subseteq effects'
         /\ \A e \in effects' : e \in effects \/ (e.call = c /\ e.kind = kind /\ SentIsAllowed(e))
<1> DEFINE x == [call |-> c, kind |-> kind]
<1>1. x.call = c /\ x.kind = kind
  OBVIOUS
<1>2. effects' = effects \cup {x}
  BY DEF Effect
<1> HIDE DEF x
<1> QED
  BY <1>1, <1>2 DEF SentIsAllowed

LEMMA ReturnMoves ==
  ASSUME NEW c \in Calls, phase[c] \in AtProvider,
         NEW fields, fields \in (SUBSET Fields) \cup {Malformed}, Returns(c, fields),
         effects \subseteq effects',
         \A e \in effects' : e \in effects \/ (e.call = c /\ SentIsAllowed(e))
  PROVE  ProviderMoved(c)
<1> DEFINE value == [fields |-> fields]
<1>1. value.fields = fields /\ Goto(c, "returned", value)
  BY DEF Returns
<1> HIDE DEF value
<1>2. ProviderMove(c, "returned", value)
  BY <1>1 DEF ProviderMove
<1> QED
  BY <1>2 DEF ProviderMoved

LEMMA RefusalMoves ==
  ASSUME NEW c \in Calls, phase[c] \in AtProvider, Denies(c) \/ Fails(c),
         effects \subseteq effects',
         \A e \in effects' : e \in effects \/ (e.call = c /\ SentIsAllowed(e))
  PROVE  ProviderMoved(c)
<1> DEFINE denied == [status |-> "denied", reason |-> "provider_denied"]
           failed == [status |-> "error", reason |-> "provider_failed"]
<1>1. denied.status # "success" /\ failed.status # "success"
  OBVIOUS
<1>2. Goto(c, "reported", denied) \/ Goto(c, "reported", failed)
  BY DEF Denies, Fails
<1> HIDE DEF denied, failed
<1>3. ProviderMove(c, "reported", denied) \/ ProviderMove(c, "reported", failed)
  BY <1>1, <1>2 DEF ProviderMove
<1> QED
  BY <1>3 DEF ProviderMoved

LEMMA AskMoves ==
  ASSUME NEW c \in Calls, phase[c] \in AtProvider, NEW kind, kind # "fetch", AsksOnce(c, kind)
  PROVE  ProviderMoved(c)
<1>1. \/ Effect(c, kind) /\ Returns(c, {})
      \/ Effect(c, kind) /\ Fails(c)
      \/ Fails(c) /\ effects' = effects
  BY DEF AsksOnce
<1>2. CASE Effect(c, kind) /\ Returns(c, {})
  BY <1>2, EffectIsNoRequest, ReturnMoves
<1>3. CASE Effect(c, kind) /\ Fails(c)
  BY <1>3, EffectIsNoRequest, RefusalMoves
<1>4. CASE Fails(c) /\ effects' = effects
  BY <1>4, RefusalMoves
<1> QED
  BY <1>1, <1>2, <1>3, <1>4

LEMMA ServicesMove ==
  ASSUME NEW c \in Calls,
         slackSend(c) \/ emailSend(c) \/ invoiceRead(c) \/ createApproval(c)
           \/ startApprovalLifecycle(c) \/ kvGet(c)
  PROVE  ProviderMoved(c)
<1>0. "provider" \in AtProvider /\ "lifecycle" \in AtProvider
  BY DEF AtProvider
<1>1. ASSUME slackSend(c) PROVE ProviderMoved(c)
  <2>1. phase[c] = "provider"
    BY <1>1 DEF slackSend, Invoked
  <2>2. AsksOnce(c, "message") \/ (Fails(c) /\ effects' = effects)
    BY <1>1 DEF slackSend
  <2> QED
    BY <2>1, <2>2, <1>0, AskMoves, RefusalMoves
<1>2. ASSUME emailSend(c) PROVE ProviderMoved(c)
  <2>1. phase[c] = "provider"
    BY <1>2 DEF emailSend, Invoked
  <2>2. AsksOnce(c, "email") \/ (Denies(c) /\ effects' = effects)
    BY <1>2 DEF emailSend
  <2> QED
    BY <2>1, <2>2, <1>0, AskMoves, RefusalMoves
<1>3. ASSUME invoiceRead(c) PROVE ProviderMoved(c)
  <2>1. phase[c] = "provider" /\ effects' = effects
    BY <1>3 DEF invoiceRead, Invoked, providerVars
  <2>2. \/ \E fields \in {{"amount"}, {"amount", "memo"}, Malformed} : Returns(c, fields)
        \/ Denies(c) \/ Fails(c)
    BY <1>3 DEF invoiceRead
  <2>3. ASSUME NEW fields \in {{"amount"}, {"amount", "memo"}, Malformed}
        PROVE  fields \in (SUBSET Fields) \cup {Malformed}
    BY DEF Fields
  <2> QED
    BY <2>1, <2>2, <2>3, <1>0, ReturnMoves, RefusalMoves
<1>4. ASSUME createApproval(c) PROVE ProviderMoved(c)
  <2>1. phase[c] = "provider"
    BY <1>4 DEF createApproval, Invoked
  <2>2. \/ Effect(c, "approval") /\ Goto(c, "lifecycle", None)
        \/ Effect(c, "approval") /\ Fails(c)
        \/ Fails(c) /\ effects' = effects
    BY <1>4 DEF createApproval
  <2>3. CASE Effect(c, "approval") /\ Goto(c, "lifecycle", None)
    <3>1. ProviderMove(c, "lifecycle", None)
      BY <2>1, <2>3, <1>0, EffectIsNoRequest DEF ProviderMove
    <3> QED
      BY <3>1 DEF ProviderMoved
  <2>4. CASE Effect(c, "approval") /\ Fails(c)
    BY <2>1, <2>4, <1>0, EffectIsNoRequest, RefusalMoves
  <2>5. CASE Fails(c) /\ effects' = effects
    BY <2>1, <2>5, <1>0, RefusalMoves
  <2> QED
    BY <2>2, <2>3, <2>4, <2>5
<1>5. ASSUME startApprovalLifecycle(c) PROVE ProviderMoved(c)
  <2>1. phase[c] = "lifecycle" /\ AsksOnce(c, "lifecycle")
    BY <1>5 DEF startApprovalLifecycle
  <2> QED
    BY <2>1, <1>0, AskMoves
<1>6. ASSUME kvGet(c) PROVE ProviderMoved(c)
  <2>1. phase[c] = "provider" /\ effects' = effects
    BY <1>6 DEF kvGet, Invoked, providerVars
  <2>2. Returns(c, {"found"}) \/ Returns(c, {}) \/ Fails(c)
    BY <1>6 DEF kvGet
  <2>3. {"found"} \in SUBSET Fields /\ {} \in SUBSET Fields
    BY DEF Fields
  <2> QED
    BY <2>1, <2>2, <2>3, <1>0, ReturnMoves, RefusalMoves
<1> QED
  BY <1>1, <1>2, <1>3, <1>4, <1>5, <1>6

LEMMA TokensMove ==
  ASSUME NEW c \in Calls, resolveTokens(c) \/ invokeWithToken(c)
  PROVE  ProviderMoved(c)
<1>0. "provider" \in AtProvider /\ "invoke" \in AtProvider /\ "provider" \in Unasked /\ "invoke" \in Unasked
  BY DEF AtProvider, Unasked
<1>1. ASSUME NEW value, phase[c] \in {"provider", "invoke"}, Goto(c, "invoke", value), effects' = effects
      PROVE  ProviderMoved(c)
  <2>1. ProviderMove(c, "invoke", value)
    BY <1>0, <1>1 DEF ProviderMove
  <2> QED
    BY <2>1 DEF ProviderMoved
<1>2. ASSUME resolveTokens(c) PROVE ProviderMoved(c)
  <2>1. phase[c] = "provider" /\ effects' = effects
    BY <1>2 DEF resolveTokens, Invoked, providerVars
  <2>2. Fails(c) \/ \E value : Goto(c, "invoke", value)
    BY <1>2 DEF resolveTokens
  <2> QED
    BY <2>1, <2>2, <1>0, <1>1, RefusalMoves
<1>3. ASSUME invokeWithToken(c) PROVE ProviderMoved(c)
  <2>1. phase[c] = "invoke"
    BY <1>3 DEF invokeWithToken
  <2>2. AsksOnce(c, "issue") \/ (effects' = effects /\ \E value : Goto(c, "invoke", value))
    BY <1>3 DEF invokeWithToken
  <2> QED
    BY <2>1, <2>2, <1>0, <1>1, AskMoves
<1> QED
  BY <1>2, <1>3

(* A fetch: what is authorized may be sent, and so may every redirection   *)
(* of it.                                                                  *)
LEMMA AuthorizedFetch ==
  ASSUME NEW c \in Calls, CallIsSound(c), phase[c] = "provider", input[c].name = "http.fetch",
         input[c].method \in AllowedMethods,
         assertHttpFetchDestination(input[c].url, AllowedOrigins) = Ok
  PROVE  MayBeSent(input[c])
<1>1. MayGo(input[c])
  BY DEF CallIsSound, Authorized
<1>2. Parse("http.fetch", input[c]) = Ok
  BY <1>1 DEF MayGo, assertScope, Ok, InputInvalid
<1>3. Parse("http.fetch", input[c]) =
        IF parseHttpFetchInput(input[c]) = Ok THEN parseHttpFetchUrl(input[c].url) ELSE InputInvalid
  BY DEF Parse
<1>4. parseHttpFetchInput(input[c]) = Ok
  BY <1>2, <1>3 DEF Ok, InputInvalid
<1>5. input[c].method = "GET" => input[c].body = None
  BY <1>4 DEF parseHttpFetchInput, Ok, InputInvalid
<1>6. input[c].url.origin \in AllowedOrigins
  BY DEF assertHttpFetchDestination, Ok, ScopeDenied
<1> QED
  BY <1>5, <1>6 DEF MayBeSent

LEMMA StartFetchMoves ==
  ASSUME NEW c \in Calls, CallIsSound(c), startFetch(c)
  PROVE  ProviderMoved(c)
<1> DEFINE value == [url |-> input[c].url, method |-> input[c].method, redirects |-> 0,
                     headers |-> input[c].headers, body |-> input[c].body]
<1>1. /\ phase[c] = "provider" /\ input[c].name = "http.fetch" /\ effects' = effects
      /\ phase[c] \in AtProvider
  BY DEF startFetch, Invoked, providerVars, AtProvider
<1>2. CASE Denies(c)
  BY <1>1, <1>2, RefusalMoves
<1>3. CASE /\ input[c].method \in AllowedMethods
           /\ assertHttpFetchDestination(input[c].url, AllowedOrigins) = Ok
           /\ Goto(c, "fetch", value)
  <2>1. IsFetch(value) /\ value.url = input[c].url /\ value.method = input[c].method
        /\ value.body = input[c].body
    BY DEF IsFetch
  <2>2. MayBeSent(input[c])
    BY <1>1, <1>3, AuthorizedFetch
  <2> HIDE DEF value
  <2>3. MayBeSent(value)
    BY <2>1, <2>2 DEF MayBeSent
  <2>4. ProviderMove(c, "fetch", value)
    BY <1>1, <1>3, <2>1, <2>3 DEF ProviderMove
  <2> QED
    BY <2>4 DEF ProviderMoved
<1> QED
  BY <1>2, <1>3 DEF startFetch

LEMMA RedirectMoves ==
  ASSUME NEW c \in Calls, phase[c] \in AtProvider, IsFetch(held[c]), MayBeSent(held[c]),
         NEW status, NEW url, followRedirect(c, status, url),
         effects \subseteq effects',
         \A e \in effects' : e \in effects \/ (e.call = c /\ SentIsAllowed(e))
  PROVE  ProviderMoved(c)
<1> DEFINE get == [url |-> url, method |-> "GET", redirects |-> held[c].redirects + 1, body |-> None,
                   headers |-> {header \in held[c].headers : header.kind # "entity"}]
           same == [held[c] EXCEPT !.url = url, !.redirects = @ + 1]
<1>1. CASE Denies(c)
  BY <1>1, RefusalMoves
<1>2. CASE /\ assertHttpFetchDestination(url, AllowedOrigins) = Ok
           /\ "GET" \in AllowedMethods /\ Goto(c, "fetch", get)
  <2>1. IsFetch(get) /\ get.url = url /\ get.method = "GET" /\ get.body = None
    BY DEF IsFetch
  <2> HIDE DEF get
  <2>2. MayBeSent(get)
    BY <1>2, <2>1 DEF MayBeSent, assertHttpFetchDestination, Ok, ScopeDenied
  <2>3. ProviderMove(c, "fetch", get)
    BY <1>2, <2>1, <2>2 DEF ProviderMove
  <2> QED
    BY <2>3 DEF ProviderMoved
<1>3. CASE assertHttpFetchDestination(url, AllowedOrigins) = Ok /\ Goto(c, "fetch", same)
  <2>1. IsFetch(same) /\ same.url = url /\ same.method = held[c].method /\ same.body = held[c].body
    BY DEF IsFetch
  <2> HIDE DEF same
  <2>2. MayBeSent(same)
    BY <1>3, <2>1 DEF MayBeSent, assertHttpFetchDestination, Ok, ScopeDenied
  <2>3. ProviderMove(c, "fetch", same)
    BY <1>3, <2>1, <2>2 DEF ProviderMove
  <2> QED
    BY <2>3 DEF ProviderMoved
<1> QED
  BY <1>1, <1>2, <1>3 DEF followRedirect

LEMMA FetchHopMoves ==
  ASSUME NEW c \in Calls, CallIsSound(c), fetchHop(c)
  PROVE  ProviderMoved(c)
<1>1. phase[c] = "fetch" /\ phase[c] \in AtProvider /\ IsFetch(held[c]) /\ MayBeSent(held[c])
  BY DEF fetchHop, CallIsSound, AtProvider
<1>2. CASE Denies(c) /\ effects' = effects
  BY <1>1, <1>2, RefusalMoves
<1>3. CASE /\ effects' = effects \cup {transportRequest(c)}
           /\ \/ Returns(c, {}) \/ Fails(c)
              \/ \E status \in {301, 303, 307}, url \in RedirectTargets : followRedirect(c, status, url)
  <2> DEFINE x == transportRequest(c)
  <2>1. /\ x.call = c /\ x.origin = held[c].url.origin /\ x.method = held[c].method
        /\ x.body = held[c].body /\ x.credential \in {None, x.origin}
    BY DEF transportRequest, credentialOrigin
  <2> HIDE DEF x
  <2>2. SentIsAllowed(x)
    BY <1>1, <2>1 DEF SentIsAllowed, MayBeSent
  <2>3. /\ effects \subseteq effects'
        /\ \A e \in effects' : e \in effects \/ (e.call = c /\ SentIsAllowed(e))
    BY <1>3, <2>1, <2>2 DEF x
  <2>4. {} \in SUBSET Fields
    OBVIOUS
  <2> QED
    BY <1>1, <1>3, <2>3, <2>4, ReturnMoves, RefusalMoves, RedirectMoves
<1> QED
  BY <1>2, <1>3 DEF fetchHop

LEMMA KvMoves ==
  ASSUME NEW c \in Calls, kvBegin(c) \/ kvCommit(c)
  PROVE  ProviderMoved(c)
<1>0. "provider" \in AtProvider /\ "commit" \in AtProvider /\ "provider" \in Unasked
      /\ {} \in SUBSET Fields
  BY DEF AtProvider, Unasked
<1>1. ASSUME kvBegin(c) PROVE ProviderMoved(c)
  <2>1. /\ phase[c] = "provider" /\ input[c].name = "kv.state" /\ effects' = effects
        /\ input[c].operation \in {"put", "delete"} /\ \E value : Goto(c, "commit", value)
    BY <1>1 DEF kvBegin, Invoked
  <2>2. PICK value : Goto(c, "commit", value)
    BY <2>1
  <2>3. ProviderMove(c, "commit", value)
    BY <1>0, <2>1, <2>2 DEF ProviderMove
  <2> QED
    BY <2>3 DEF ProviderMoved
<1>2. ASSUME kvCommit(c) PROVE ProviderMoved(c)
  <2>1. phase[c] = "commit"
    BY <1>2 DEF kvCommit
  <2>2. \/ Denies(c) /\ effects' = effects
        \/ Fails(c) /\ effects' = effects
        \/ Returns(c, {}) /\ effects' = effects
        \/ Returns(c, {}) /\ Effect(c, "put")
        \/ Returns(c, {}) /\ Effect(c, "delete")
    BY <1>2 DEF kvCommit, kvPut, kvDelete
  <2>3. CASE (Denies(c) \/ Fails(c)) /\ effects' = effects
    BY <2>1, <2>3, <1>0, RefusalMoves
  <2>4. CASE Returns(c, {}) /\ effects' = effects
    BY <2>1, <2>4, <1>0, ReturnMoves
  <2>5. CASE Returns(c, {}) /\ Effect(c, "put")
    BY <2>1, <2>5, <1>0, ReturnMoves, EffectIsNoRequest
  <2>6. CASE Returns(c, {}) /\ Effect(c, "delete")
    BY <2>1, <2>6, <1>0, ReturnMoves, EffectIsNoRequest
  <2> QED
    BY <2>2, <2>3, <2>4, <2>5, <2>6
<1> QED
  BY <1>1, <1>2

LEMMA ProvidersMove ==
  ASSUME NEW c \in Calls, CallIsSound(c), ProviderStep(c)
  PROVE  ProviderMoved(c) /\ input' = input
<1>1. ProviderMoved(c)
  BY ServicesMove, TokensMove, StartFetchMoves, FetchHopMoves, KvMoves DEF ProviderStep
<1>2. input' = input
  BY DEF ProviderStep, slackSend, emailSend, invoiceRead, createApproval, startApprovalLifecycle,
         resolveTokens, invokeWithToken, startFetch, fetchHop, kvGet, kvBegin, kvCommit
<1> QED
  BY <1>1, <1>2

-----------------------------------------------------------------------------
(* What a step of the broker does.  The path of a call: it is asked for    *)
(* once, and it passes the journal only when nothing is recorded there.    *)
Path(c, to) ==
  /\ phase[c] \in Busy /\ to \in (Busy \ {"requested"}) \cup {"answered"}
  /\ phase[c] = "requested" => to \in {"journal", "reported"}
  /\ phase[c] = "journal" => to = "answered" \/ (to = "limit" /\ journal[c[2]] = None)
  /\ phase[c] = "reported" => to = "answered"
  /\ to \in Authorized => phase[c] \in Authorized \/ MayGo(input[c])

(* What it holds and what it asks of the services.                         *)
Asks(c, to, value) ==
  /\ effects \subseteq effects'
  /\ \A e \in effects' : e \in effects \/ (e.call = c /\ SentIsAllowed(e))
  /\ to \in Unasked => effects' = effects /\ phase[c] \in Unasked
  /\ phase[c] \in {"requested", "journal", "reported"} => effects' = effects
  /\ to = "returned" => value.fields \in (SUBSET Fields) \cup {Malformed}
  /\ to = "fetch" => IsFetch(value) /\ MayBeSent(value)
  /\ to = "commit" => input[c].name = "kv.state" /\ input[c].operation \in {"put", "delete"}

(* What it records.                                                        *)
Entries == [input : Requests, result : Calls, fields : SUBSET Fields]

Records(c, to, value) ==
  /\ \/ journal' = journal
     \/ /\ phase[c] = "returned" /\ to \in {"reported", "answered"}
        /\ \E entry \in Entries : entry.result = c /\ journal' = [journal EXCEPT ![c[2]] = entry]
  /\ to = "reported" /\ value.status = "success" => journal'[c[2]] # None /\ journal'[c[2]].result = c

(* What it answers: nothing, the result of its own call, which was         *)
(* reported as a success, or the recorded one.                             *)
Answers(c, to, value) ==
  /\ to = "answered" =>
       \/ value.by = None
       \/ phase[c] = "reported" /\ held[c].status = "success" /\ value.by = c
       \/ phase[c] = "journal" /\ journal[c[2]] # None /\ value.by = journal[c[2]].result
  /\ \/ audit' = audit /\ (phase[c] = "reported" => value.by = None)
     \/ /\ phase[c] = "reported" /\ to = "answered"
        /\ value.by = IF held[c].status = "success" THEN c ELSE None
        /\ \E r : r.call = c /\ r.status = held[c].status /\ audit' = audit \cup {r}

BrokerMove(c, to, value) ==
  /\ Goto(c, to, value) /\ input' = input /\ clock' = clock /\ calledAt' \in [Calls -> 0..MaxClock]
  /\ Path(c, to) /\ Asks(c, to, value) /\ Records(c, to, value) /\ Answers(c, to, value)

BrokerMoved(c) == \E to, value : BrokerMove(c, to, value)

(* The steps that only report a failure, or only reject.                   *)
LEMMA ReportMoves ==
  ASSUME Shape, NEW c \in Calls, phase[c] \in Busy \ {"journal", "reported"},
         NEW status, status # "success", NEW reason, Reports(c, status, reason),
         input' = input, effects' = effects, audit' = audit, journal' = journal,
         clock' = clock, calledAt' \in [Calls -> 0..MaxClock]
  PROVE  BrokerMoved(c)
<1> DEFINE value == [status |-> status, reason |-> reason]
<1>1. Goto(c, "reported", value) /\ value.status # "success"
  BY DEF Reports
<1> HIDE DEF value
<1>2. Path(c, "reported")
  BY DEF Path, Busy, Authorized
<1>3. Asks(c, "reported", value)
  BY DEF Asks, Unasked
<1>4. Records(c, "reported", value) /\ Answers(c, "reported", value)
  BY <1>1 DEF Records, Answers
<1>5. BrokerMove(c, "reported", value)
  BY <1>1, <1>2, <1>3, <1>4 DEF BrokerMove
<1> QED
  BY <1>5 DEF BrokerMoved

LEMMA RejectMoves ==
  ASSUME Shape, NEW c \in Calls, phase[c] \in Busy \ {"requested"}, Rejects(c),
         input' = input, effects' = effects, audit' = audit, clock' = clock, calledAt' = calledAt,
         \/ journal' = journal
         \/ /\ phase[c] = "returned"
            /\ \E entry \in Entries : entry.result = c /\ journal' = [journal EXCEPT ![c[2]] = entry]
  PROVE  BrokerMoved(c)
<1> DEFINE value == [by |-> None]
<1>1. Goto(c, "answered", value) /\ value.by = None
  BY DEF Rejects, Answered
<1> HIDE DEF value
<1>2. Path(c, "answered")
  BY DEF Path, Busy, Authorized
<1>3. Asks(c, "answered", value)
  BY DEF Asks, Unasked
<1>4. Records(c, "answered", value) /\ Answers(c, "answered", value)
  BY <1>1 DEF Records, Answers
<1>5. BrokerMove(c, "answered", value)
  BY <1>1, <1>2, <1>3, <1>4 DEF BrokerMove, Shape
<1> QED
  BY <1>5 DEF BrokerMoved

(* The steps on the way to the provider.                                   *)
LEMMA PassMoves ==
  ASSUME Shape, NEW c \in Calls, NEW to, NEW value, Goto(c, to, value), Path(c, to),
         to \in {"journal", "limit", "bucket", "provider"}, phase[c] \in Unasked,
         input' = input, effects' = effects, audit' = audit, journal' = journal,
         clock' = clock, calledAt' \in [Calls -> 0..MaxClock]
  PROVE  BrokerMoved(c)
<1>1. Asks(c, to, value)
  BY DEF Asks
<1>2. Records(c, to, value) /\ Answers(c, to, value)
  BY DEF Records, Answers, Unasked
<1>3. BrokerMove(c, to, value)
  BY <1>1, <1>2 DEF BrokerMove
<1> QED
  BY <1>3 DEF BrokerMoved

LEMMA CallMoves ==
  ASSUME Shape, NEW c \in Calls, Call(c)
  PROVE  BrokerMoved(c)
<1>1. /\ phase[c] = "requested" /\ authorize(c)
      /\ input' = input /\ effects' = effects /\ audit' = audit /\ journal' = journal
      /\ clock' = clock /\ calledAt' \in [Calls -> 0..MaxClock]
  BY DEF Call, providerVars, Shape
<1>2. \/ Reports(c, "denied", "grant_missing")
      \/ \E verdict : Reports(c, "denied", verdict)
      \/ MayGo(input[c]) /\ Goto(c, "journal", None)
  BY <1>1 DEF authorize, MayGo
<1>3. ASSUME NEW reason, Reports(c, "denied", reason) PROVE BrokerMoved(c)
  BY <1>1, <1>3, ReportMoves DEF Busy
<1>4. CASE MayGo(input[c]) /\ Goto(c, "journal", None)
  <2>1. Path(c, "journal") /\ phase[c] \in Unasked
    BY <1>1, <1>4 DEF Path, Busy, Unasked
  <2> QED
    BY <1>1, <1>4, <2>1, PassMoves
<1> QED
  BY <1>2, <1>3, <1>4

LEMMA ReadJournalMoves ==
  ASSUME Shape, NEW c \in Calls, readJournaledCapabilityCall(c)
  PROVE  BrokerMoved(c)
<1>1. /\ phase[c] = "journal" /\ input' = input /\ effects' = effects /\ audit' = audit
      /\ journal' = journal /\ clock' = clock /\ calledAt' = calledAt
  BY DEF readJournaledCapabilityCall, providerVars, brokerVars
<1>2. \/ journal[c[2]] = None /\ Goto(c, "limit", None)
      \/ journal[c[2]] # None /\ Answered(c, journal[c[2]].result)
      \/ Rejects(c)
  BY DEF readJournaledCapabilityCall
<1>3. CASE journal[c[2]] = None /\ Goto(c, "limit", None)
  <2>1. Path(c, "limit") /\ phase[c] \in Unasked
    BY <1>1, <1>3 DEF Path, Busy, Unasked, Authorized
  <2> QED
    BY <1>1, <1>3, <2>1, PassMoves DEF Shape
<1>4. CASE journal[c[2]] # None /\ Answered(c, journal[c[2]].result)
  <2> DEFINE value == [by |-> journal[c[2]].result]
  <2>1. Goto(c, "answered", value) /\ value.by = journal[c[2]].result
    BY <1>4 DEF Answered
  <2> HIDE DEF value
  <2>2. Path(c, "answered") /\ Asks(c, "answered", value)
    BY <1>1 DEF Path, Busy, Authorized, Asks, Unasked
  <2>3. Records(c, "answered", value) /\ Answers(c, "answered", value)
    BY <1>1, <1>4, <2>1 DEF Records, Answers
  <2>4. BrokerMove(c, "answered", value)
    BY <1>1, <2>1, <2>2, <2>3 DEF BrokerMove, Shape
  <2> QED
    BY <2>4 DEF BrokerMoved
<1>5. CASE Rejects(c)
  BY <1>1, <1>5, RejectMoves DEF Busy
<1> QED
  BY <1>2, <1>3, <1>4, <1>5

LEMMA RateLimitMoves ==
  ASSUME Shape, NEW c \in Calls, checkCapabilityRateLimit(c) \/ putBucket(c)
  PROVE  BrokerMoved(c)
<1>1. /\ phase[c] \in {"limit", "bucket"} /\ input' = input /\ effects' = effects /\ audit' = audit
      /\ journal' = journal /\ clock' = clock /\ calledAt' = calledAt
  BY DEF checkCapabilityRateLimit, putBucket, providerVars, brokerVars
<1>2. \/ \E to \in {"provider", "bucket"} : \E value : Goto(c, to, value)
      \/ Reports(c, "denied", "rate_limited")
      \/ Rejects(c)
  BY DEF checkCapabilityRateLimit, putBucket
<1>3. ASSUME NEW to \in {"provider", "bucket"}, NEW value, Goto(c, to, value) PROVE BrokerMoved(c)
  <2>1. Path(c, to) /\ phase[c] \in Unasked
    BY <1>1, <1>3 DEF Path, Busy, Unasked, Authorized
  <2> QED
    BY <1>1, <1>3, <2>1, PassMoves DEF Shape
<1>4. CASE Reports(c, "denied", "rate_limited")
  BY <1>1, <1>4, ReportMoves DEF Busy, Shape
<1>5. CASE Rejects(c)
  BY <1>1, <1>5, RejectMoves DEF Busy
<1> QED
  BY <1>2, <1>3, <1>4, <1>5

LEMMA ProvideMoves ==
  ASSUME Shape, NEW c \in Calls, CallIsSound(c), Provide(c)
  PROVE  BrokerMoved(c)
<1>1. PICK to, value : ProviderMove(c, to, value)
  BY ProvidersMove DEF Provide, ProviderMoved
<1>2. /\ input' = input /\ audit' = audit /\ journal' = journal /\ clock' = clock /\ calledAt' = calledAt
  BY ProvidersMove DEF Provide, brokerVars
<1>3. Path(c, to)
  BY <1>1 DEF ProviderMove, Path, AtProvider, Busy, Authorized
<1>4. Asks(c, to, value)
  BY <1>1 DEF ProviderMove, Asks, AtProvider, Unasked
<1>5. Records(c, to, value) /\ Answers(c, to, value)
  BY <1>1, <1>2 DEF ProviderMove, Records, Answers, AtProvider
<1>6. BrokerMove(c, to, value)
  BY <1>1, <1>2, <1>3, <1>4, <1>5 DEF BrokerMove, ProviderMove, Shape
<1> QED
  BY <1>6 DEF BrokerMoved

LEMMA EntryIsEntry ==
  ASSUME NEW c \in Calls, CallIsSound(c), phase[c] = "returned", held[c].fields # Malformed
  PROVE  journalEntry(c) \in Entries /\ journalEntry(c).result = c
<1> DEFINE fields == applyResultScope(input[c].name, Grants[input[c].name], held[c].fields)
<1>1. held[c].fields \in SUBSET Fields /\ input[c] \in Requests
  BY DEF CallIsSound
<1>2. fields \in SUBSET Fields
  BY <1>1 DEF applyResultScope
<1>3. journalEntry(c) = [input |-> input[c], result |-> c, fields |-> fields]
  BY DEF journalEntry
<1> HIDE DEF fields
<1> QED
  BY <1>1, <1>2, <1>3 DEF Entries

LEMMA WriteJournalMoves ==
  ASSUME Shape, NEW c \in Calls, CallIsSound(c), writeCapabilityCall(c)
  PROVE  BrokerMoved(c)
<1>1. /\ phase[c] = "returned" /\ input' = input /\ effects' = effects /\ audit' = audit
      /\ clock' = clock /\ calledAt' = calledAt
  BY DEF writeCapabilityCall, providerVars
<1>2. \/ Reports(c, "denied", "result_scope_denied") /\ journal' = journal
      \/ /\ held[c].fields # Malformed /\ journal' = [journal EXCEPT ![c[2]] = journalEntry(c)]
         /\ Reports(c, "success", "provider_completed")
      \/ /\ held[c].fields # Malformed /\ journal' = [journal EXCEPT ![c[2]] = journalEntry(c)]
         /\ Rejects(c)
      \/ Rejects(c) /\ journal' = journal
  BY DEF writeCapabilityCall
<1>3. CASE Reports(c, "denied", "result_scope_denied") /\ journal' = journal
  BY <1>1, <1>3, ReportMoves DEF Busy, Shape
<1>4. CASE /\ held[c].fields # Malformed /\ journal' = [journal EXCEPT ![c[2]] = journalEntry(c)]
           /\ Reports(c, "success", "provider_completed")
  <2> DEFINE value == [status |-> "success", reason |-> "provider_completed"]
  <2>1. Goto(c, "reported", value)
    BY <1>4 DEF Reports
  <2> HIDE DEF value
  <2>2. PICK entry \in Entries : entry.result = c /\ journal' = [journal EXCEPT ![c[2]] = entry]
    BY <1>1, <1>4, EntryIsEntry
  <2>3. journal'[c[2]] = entry /\ entry # None
    BY <2>2, CallsArePairs, NoneIsNoOutcome DEF Shape, Entries, Fields
  <2>4. Path(c, "reported") /\ Asks(c, "reported", value)
    BY <1>1 DEF Path, Busy, Authorized, Asks, Unasked
  <2>5. Records(c, "reported", value) /\ Answers(c, "reported", value)
    BY <1>1, <2>2, <2>3 DEF Records, Answers
  <2>6. BrokerMove(c, "reported", value)
    BY <1>1, <2>1, <2>4, <2>5 DEF BrokerMove, Shape
  <2> QED
    BY <2>6 DEF BrokerMoved
<1>5. CASE /\ held[c].fields # Malformed /\ journal' = [journal EXCEPT ![c[2]] = journalEntry(c)]
           /\ Rejects(c)
  BY <1>1, <1>5, EntryIsEntry, RejectMoves DEF Busy
<1>6. CASE Rejects(c) /\ journal' = journal
  BY <1>1, <1>6, RejectMoves DEF Busy
<1> QED
  BY <1>2, <1>3, <1>4, <1>5, <1>6

LEMMA AuditMoves ==
  ASSUME Shape, NEW c \in Calls, writeCapabilityAudit(c)
  PROVE  BrokerMoved(c)
<1>1. /\ phase[c] = "reported" /\ input' = input /\ effects' = effects /\ journal' = journal
      /\ clock' = clock /\ calledAt' = calledAt
  BY DEF writeCapabilityAudit, providerVars
<1>2. CASE Rejects(c) /\ audit' = audit
  BY <1>1, <1>2, RejectMoves DEF Busy
<1>3. CASE /\ audit' = audit \cup {[call |-> c, status |-> held[c].status, reason |-> held[c].reason]}
           /\ Answered(c, IF held[c].status = "success" THEN c ELSE None)
  <2> DEFINE value == [by |-> IF held[c].status = "success" THEN c ELSE None]
             r == [call |-> c, status |-> held[c].status, reason |-> held[c].reason]
  <2>1. /\ Goto(c, "answered", value) /\ value.by = IF held[c].status = "success" THEN c ELSE None
        /\ r.call = c /\ r.status = held[c].status /\ audit' = audit \cup {r}
    BY <1>3 DEF Answered
  <2> HIDE DEF value, r
  <2>2. Path(c, "answered") /\ Asks(c, "answered", value)
    BY <1>1 DEF Path, Busy, Authorized, Asks, Unasked
  <2>3. Records(c, "answered", value) /\ Answers(c, "answered", value)
    BY <1>1, <2>1 DEF Records, Answers
  <2>4. BrokerMove(c, "answered", value)
    BY <1>1, <2>1, <2>2, <2>3 DEF BrokerMove, Shape
  <2> QED
    BY <2>4 DEF BrokerMoved
<1> QED
  BY <1>2, <1>3 DEF writeCapabilityAudit

LEMMA BrokerMoves ==
  ASSUME Shape, NEW c \in Calls, CallIsSound(c), BrokerStep(c)
  PROVE  BrokerMoved(c)
  BY CallMoves, ReadJournalMoves, RateLimitMoves, ProvideMoves, WriteJournalMoves, AuditMoves
  DEF BrokerStep

-----------------------------------------------------------------------------
(* A step of the broker keeps every call sound.                            *)
LEMMA MovedTo ==
  ASSUME Shape, NEW c \in Calls, NEW to, NEW value, BrokerMove(c, to, value)
  PROVE  /\ phase' \in [Calls -> Phases] /\ held' = [d \in Calls |-> held'[d]]
         /\ phase'[c] = to /\ held'[c] = value
         /\ \A d \in Calls : d # c => phase'[d] = phase[d] /\ held'[d] = held[d]
<1>1. Goto(c, to, value) /\ to \in Phases
  BY DEF BrokerMove, Path, Phases
<1> QED
  BY <1>1, GotoMoves

LEMMA JournalAfter ==
  ASSUME Shape, NEW c \in Calls, NEW to, NEW value, BrokerMove(c, to, value)
  PROVE  /\ journal' = [i \in Indexes |-> journal'[i]]
         /\ \A i \in Indexes : i # c[2] => journal'[i] = journal[i]
         /\ \/ journal' = journal
            \/ /\ phase[c] = "returned" /\ to \in {"reported", "answered"}
               /\ journal'[c[2]] \in Entries /\ journal'[c[2]].result = c
<1>1. Records(c, to, value)
  BY DEF BrokerMove
<1>2. CASE journal' = journal
  BY <1>2 DEF Shape
<1>3. CASE /\ phase[c] = "returned" /\ to \in {"reported", "answered"}
           /\ \E entry \in Entries : entry.result = c /\ journal' = [journal EXCEPT ![c[2]] = entry]
  <2>1. PICK entry \in Entries : entry.result = c /\ journal' = [journal EXCEPT ![c[2]] = entry]
    BY <1>3
  <2> QED
    BY <1>3, <2>1, CallsArePairs DEF Shape
<1> QED
  BY <1>1, <1>2, <1>3 DEF Records

LEMMA OthersStaySound ==
  ASSUME Shape, NEW c \in Calls, NEW to, NEW value, BrokerMove(c, to, value),
         NEW d \in Calls, d # c, CallIsSound(d)
  PROVE  CallIsSound(d)'
<1>1. phase'[d] = phase[d] /\ held'[d] = held[d] /\ input' = input
  BY MovedTo DEF BrokerMove
<1>2. EffectsOf(d)' = EffectsOf(d)
  BY DEF BrokerMove, Asks, EffectsOf
<1>3. AuditOf(d)' = AuditOf(d)
  BY DEF BrokerMove, Answers, AuditOf
<1>4. journal'[d[2]] # None /\ journal'[d[2]].result = d => journal'[d[2]] = journal[d[2]]
  BY JournalAfter, CallsArePairs
<1> QED
  BY <1>1, <1>2, <1>3, <1>4 DEF CallIsSound, MayGo, MayBeSent

LEMMA MovedStaysSound ==
  ASSUME Shape, NEW c \in Calls, NEW to, NEW value, BrokerMove(c, to, value), CallIsSound(c)
  PROVE  CallIsSound(c)'
<1>1. phase'[c] = to /\ held'[c] = value /\ input' = input
  BY MovedTo DEF BrokerMove
<1>2. Path(c, to) /\ Asks(c, to, value) /\ Answers(c, to, value)
  BY DEF BrokerMove
<1>3. phase[c] \notin {"idle", "answered", "delivered"} /\ to \notin {"idle", "delivered"}
  BY <1>2 DEF Path, Busy
<1>4. input[c] \in Requests /\ AuditOf(c) = {}
  BY <1>3 DEF CallIsSound
<1>5. to \in Authorized => MayGo(input[c])
  BY <1>2 DEF CallIsSound, Path
<1>6. to \in Unasked => EffectsOf(c)' = {}
  BY <1>2 DEF CallIsSound, Asks, EffectsOf
<1>7. /\ to = "fetch" => IsFetch(value) /\ MayBeSent(value)
      /\ to = "commit" => input[c].name = "kv.state" /\ input[c].operation \in {"put", "delete"}
      /\ to = "returned" => value.fields \in (SUBSET Fields) \cup {Malformed}
  BY <1>2 DEF Asks
<1>8. to # "answered" => AuditOf(c)' = {}
  <2> SUFFICES ASSUME to # "answered" PROVE AuditOf(c)' = {}
    OBVIOUS
  <2>1. audit' = audit
    BY <1>2 DEF Answers
  <2> QED
    BY <2>1, <1>4 DEF AuditOf
<1>9. to = "answered" =>
       /\ AuditOf(c)' = {} \/ \E r \in AuditOf(c)' : AuditOf(c)' = {r}
       /\ value.by # None =>
            {a.status : a \in AuditOf(c)'} = (IF value.by = c THEN {"success"} ELSE {})
  <2> SUFFICES ASSUME to = "answered"
               PROVE  /\ AuditOf(c)' = {} \/ \E r \in AuditOf(c)' : AuditOf(c)' = {r}
                      /\ value.by # None =>
                           {a.status : a \in AuditOf(c)'} = (IF value.by = c THEN {"success"} ELSE {})
    OBVIOUS
  <2>1. CASE audit' = audit /\ (phase[c] = "reported" => value.by = None)
    <3>1. AuditOf(c)' = {}
      BY <2>1, <1>4 DEF AuditOf
    <3>2. value.by # None => value.by # c
      <4> SUFFICES ASSUME value.by = c, value.by # None PROVE FALSE
        OBVIOUS
      <4>1. phase[c] = "journal" /\ journal[c[2]] # None /\ journal[c[2]].result = c
        BY <1>2, <2>1 DEF Answers
      <4> QED
        BY <4>1 DEF CallIsSound
    <3>3. {a.status : a \in AuditOf(c)'} = {}
      BY <3>1
    <3> QED
      BY <3>1, <3>2, <3>3
  <2>2. CASE /\ phase[c] = "reported"
             /\ value.by = IF held[c].status = "success" THEN c ELSE None
             /\ \E r : r.call = c /\ r.status = held[c].status /\ audit' = audit \cup {r}
    <3>1. PICK r : r.call = c /\ r.status = held[c].status /\ audit' = audit \cup {r}
      BY <2>2
    <3>2. AuditOf(c)' = {r}
      BY <3>1, <1>4 DEF AuditOf
    <3>3. {a.status : a \in AuditOf(c)'} = {r.status}
      BY <3>2
    <3>4. value.by # None => value.by = c /\ r.status = "success"
      BY <2>2, <3>1
    <3> QED
      BY <3>2, <3>3, <3>4
  <2> QED
    BY <2>1, <2>2, <1>2 DEF Answers
<1>10. journal'[c[2]] # None /\ journal'[c[2]].result = c => to \in {"reported", "answered", "delivered"}
  <2>1. CASE journal' = journal
    <3> SUFFICES ASSUME journal[c[2]] # None, journal[c[2]].result = c
                 PROVE  to \in {"reported", "answered", "delivered"}
      BY <2>1
    <3>1. phase[c] = "reported"
      BY <1>3 DEF CallIsSound
    <3> QED
      BY <3>1, <1>2 DEF Path
  <2>2. CASE to \in {"reported", "answered"}
    BY <2>2
  <2> QED
    BY <2>1, <2>2, JournalAfter
<1> QED
  BY <1>1, <1>3, <1>4, <1>5, <1>6, <1>7, <1>8, <1>9, <1>10 DEF CallIsSound, MayGo, MayBeSent

LEMMA BrokerKeepsBroker ==
  ASSUME Shape, BrokerInv, NEW c \in Calls, NEW to, NEW value, BrokerMove(c, to, value)
  PROVE  BrokerInv'
<1>1. \A d \in Calls : CallIsSound(d)'
  BY OthersStaySound, MovedStaysSound DEF BrokerInv
<1>2. \A i \in Indexes : JournalIsSound(i)'
  <2> SUFFICES ASSUME NEW i \in Indexes PROVE JournalIsSound(i)'
    OBVIOUS
  <2>1. CASE journal'[i] = journal[i]
    BY <2>1 DEF BrokerInv, JournalIsSound
  <2>2. CASE i = c[2] /\ journal'[i] \in Entries /\ journal'[i].result = c
    BY <2>2 DEF JournalIsSound, Entries
  <2> QED
    BY <2>1, <2>2, JournalAfter
<1>3. \A e \in effects' : e.call \in Calls /\ SentIsAllowed(e)'
  BY DEF BrokerInv, BrokerMove, Asks, SentIsAllowed
<1> QED
  BY <1>1, <1>2, <1>3 DEF BrokerInv

(* What a step of the broker means for the attempt that made the call, and *)
(* for the others.                                                         *)
LEMMA BrokerKeepsRuntime ==
  ASSUME Shape, RuntimeInv, NEW c \in Calls, NEW to, NEW value, BrokerMove(c, to, value),
         UNCHANGED runtimeVars
  PROVE  RuntimeInv'
<1>1. /\ hook' = hook /\ worker' = worker /\ subrequests' = subrequests /\ pending' = pending
      /\ message' = message /\ settled' = settled /\ timer' = timer
      /\ ahead' = ahead /\ made' = made
  BY DEF runtimeVars
<1>2. /\ phase[c] \notin {"idle", "delivered", "answered"} /\ phase'[c] \notin {"idle", "delivered"}
      /\ \A d \in Calls : d # c => phase'[d] = phase[d]
  BY MovedTo DEF BrokerMove, Path, Busy
<1>3. \A a \in Attempts, i \in Indexes : <<a, i>> \in Calls
  BY CallsArePairs
<1> SUFFICES ASSUME NEW a \in Attempts PROVE AttemptIsSound(a)'
  BY DEF RuntimeInv
<1>4. AttemptIsSound(a)
  BY DEF RuntimeInv
<1>5. \A i \in Indexes : phase'[<<a, i>>] \in {"idle", "delivered"} <=> phase[<<a, i>>] \in {"idle", "delivered"}
  BY <1>2, <1>3
<1>6. \A i \in Indexes : phase[<<a, i>>] = "idle" => phase'[<<a, i>>] = "idle"
  BY <1>2, <1>3
<1>7. Quiet(a) => Quiet(a)'
  BY <1>1, <1>5 DEF Quiet
<1>8. maxAttempts' = maxAttempts
  BY <1>1 DEF maxAttempts
<1> QED
  BY <1>1, <1>4, <1>5, <1>6, <1>7, <1>8 DEF AttemptIsSound, Runs

LEMMA AttemptsAreNumbers ==
  /\ Attempts \subseteq Nat /\ \A a \in Attempts : a >= 1 /\ \A b \in 1..a : b \in Attempts
<1>1. Cardinality(Attempts) \in Nat
  BY RuntimeConstants, FS_CardinalityType
<1> QED
  BY <1>1, RuntimeConstants

LEMMA BrokerKeepsRetry ==
  ASSUME Shape, BrokerInv, RuntimeInv, RetryInv, NEW c \in Calls, NEW to, NEW value,
         BrokerMove(c, to, value), UNCHANGED runtimeVars
  PROVE  RetryInv'
<1>1. /\ phase'[c] = to /\ held'[c] = value
      /\ \A d \in Calls : d # c => phase'[d] = phase[d] /\ held'[d] = held[d]
  BY MovedTo
<1>2. Path(c, to) /\ Asks(c, to, value) /\ Answers(c, to, value) /\ Records(c, to, value)
  BY DEF BrokerMove
<1>3. phase[c] \notin {"idle", "answered", "delivered"} /\ to \notin {"idle", "delivered"}
  BY <1>2 DEF Path, Busy
<1>4. worker' = worker
  BY DEF runtimeVars
<1>5. c[1] \in Attempts /\ c[2] \in Indexes /\ c = <<c[1], c[2]>> /\ None \notin Calls
  BY CallsArePairs, CallsAreNamed
<1>6. worker[c[1]] # "none" /\ c[1] <= 2
  <2>1. AttemptIsSound(c[1])
    BY <1>5 DEF RuntimeInv
  <2>2. c[2] <= subrequests[c[1]] \/ c[2] > subrequests[c[1]]
    BY <1>5 DEF Shape, Indexes
  <2>3. ~(c[2] > subrequests[c[1]])
    BY <1>3, <1>5, <2>1 DEF AttemptIsSound
  <2>4. worker[c[1]] # "none"
    BY <2>1, <2>2, <2>3, <1>5 DEF AttemptIsSound, Indexes
  <2> QED
    BY <2>1, <2>4, <1>5, AttemptsAreNumbers DEF AttemptIsSound, maxAttempts
<1> SUFFICES ASSUME NEW a \in Attempts, NEW b \in Attempts, NEW i \in Indexes, a < b, b <= 2
             PROVE  RetryIsSound(a, b, i)'
  BY DEF RetryInv
<1>7. RetryIsSound(a, b, i) /\ <<a, i>> \in Calls /\ <<b, i>> \in Calls /\ a = 1 /\ b = 2
  BY CallsArePairs, AttemptsAreNumbers DEF RetryInv
<1>8. EffectsOf(<<b, i>>)' = EffectsOf(<<b, i>>) \/ c = <<b, i>>
  BY <1>2 DEF Asks, EffectsOf
<1>9. CASE c[2] # i
  <2>1. c # <<a, i>> /\ c # <<b, i>> /\ journal'[i] = journal[i]
    BY <1>9, JournalAfter
  <2> QED
    BY <2>1, <1>1, <1>4, <1>7, <1>8 DEF RetryIsSound, Successful
<1>10. CASE c = <<a, i>>
  <2>1. c # <<b, i>> /\ ~Successful(<<a, i>>)'
    BY <1>1, <1>3, <1>7, <1>10 DEF Successful
  <2>2. ASSUME worker[b] = "none"
        PROVE  /\ journal'[i] # None => journal'[i].result = c
               /\ to = "reported" /\ value.status = "success" => journal'[i] # None
               /\ to = "answered" /\ value.by # None => journal'[i] # None /\ value.by = c
    <3>1. journal'[i] # None => journal'[i].result = c
      BY <2>2, <1>7, <1>10, JournalAfter DEF RetryIsSound
    <3>2. to = "reported" /\ value.status = "success" => journal'[i] # None
      BY <1>2, <1>10 DEF Records
    <3>3. to = "answered" /\ value.by # None => journal'[i] # None /\ value.by = c
      <4> SUFFICES ASSUME to = "answered", value.by # None PROVE journal'[i] # None /\ value.by = c
        OBVIOUS
      <4>1. phase[c] \in {"reported", "journal"}
        BY <1>2 DEF Answers
      <4>2. journal' = journal
        BY <4>1, JournalAfter
      <4>3. CASE phase[c] = "reported" /\ held[c].status = "success" /\ value.by = c
        BY <4>2, <4>3, <2>2, <1>7, <1>10 DEF RetryIsSound
      <4>4. CASE phase[c] = "journal" /\ journal[c[2]] # None /\ value.by = journal[c[2]].result
        BY <4>2, <4>4, <2>2, <1>7, <1>10 DEF RetryIsSound
      <4> QED
        BY <4>3, <4>4, <1>2 DEF Answers
    <3> QED
      BY <3>1, <3>2, <3>3
  <2> QED
    BY <2>1, <2>2, <1>1, <1>3, <1>4, <1>10 DEF RetryIsSound
<1>11. CASE c = <<b, i>>
  <2>1. c # <<a, i>> /\ worker'[b] # "none"
    BY <1>4, <1>6, <1>7, <1>11
  <2>2. Successful(<<a, i>>)' <=> Successful(<<a, i>>)
    BY <2>1, <1>1, <1>7 DEF Successful
  <2>3. ASSUME Successful(<<a, i>>)
        PROVE  /\ journal'[i] # None /\ journal'[i].result = <<a, i>>
               /\ EffectsOf(<<b, i>>)' = {}
               /\ to \in {"journal", "reported", "answered"}
               /\ to = "reported" => value.status # "success"
               /\ to = "answered" => value.by \in {None, <<a, i>>}
    <3>1. /\ journal[i] # None /\ journal[i].result = <<a, i>> /\ EffectsOf(<<b, i>>) = {}
          /\ phase[c] \in {"requested", "journal", "reported"}
          /\ phase[c] = "reported" => held[c].status # "success"
      BY <2>3, <1>3, <1>7, <1>11 DEF RetryIsSound
    <3>2. journal' = journal /\ effects' = effects
      BY <3>1, <1>2, JournalAfter DEF Asks
    <3>3. to \in {"journal", "reported", "answered"}
      BY <3>1, <1>2, <1>11 DEF Path
    <3>4. to = "reported" => value.status # "success"
      BY <3>1, <3>2, <1>2, <1>11, <2>1 DEF Records
    <3>5. to = "answered" => value.by \in {None, <<a, i>>}
      BY <3>1, <1>2, <1>11 DEF Answers
    <3> QED
      BY <3>1, <3>2, <3>3, <3>4, <3>5 DEF EffectsOf
  <2> QED
    BY <2>1, <2>2, <2>3, <1>1, <1>7, <1>11 DEF RetryIsSound
<1>12. c[2] = i => c = <<a, i>> \/ c = <<b, i>>
  <2>1. c[1] = 1 \/ c[1] = 2
    BY <1>5, <1>6, AttemptsAreNumbers
  <2> QED
    BY <2>1, <1>5, <1>7
<1> QED
  BY <1>9, <1>10, <1>11, <1>12

-----------------------------------------------------------------------------
(* The facet.  Only the two steps of a transaction touch it.               *)
FacetRests(c) ==
  /\ facet' = facet /\ transaction' = transaction
  /\ phase[c] # "commit" /\ phase'[c] # "commit"
  /\ \A e \in effects' : e \in effects \/ e.kind # "put"

LEMMA AskRests ==
  ASSUME Shape, NEW c \in Calls, NEW kind, kind # "fetch", kind # "put",
         AsksOnce(c, kind) \/ (Effect(c, kind) /\ Goto(c, "lifecycle", None))
  PROVE  phase'[c] # "commit" /\ \A e \in effects' : e \in effects \/ e.kind # "put"
<1>1. phase'[c] # "commit"
  BY DEF AsksOnce, Returns, Fails, Goto, Shape
<1>2. Effect(c, kind) \/ effects' = effects
  BY DEF AsksOnce
<1> QED
  BY <1>1, <1>2, EffectIsNoRequest

LEMMA ProvidersRest ==
  ASSUME Shape, NEW c \in Calls, ProviderStep(c), ~kvBegin(c), ~kvCommit(c)
  PROVE  FacetRests(c)
<1>1. ASSUME slackSend(c) PROVE FacetRests(c)
  <2>1. AsksOnce(c, "message") \/ (Fails(c) /\ effects' = effects)
    BY <1>1 DEF slackSend
  <2>2. phase[c] # "commit" /\ facet' = facet /\ transaction' = transaction
    BY <1>1 DEF slackSend, Invoked
  <2> QED
    BY <2>1, <2>2, AskRests DEF FacetRests, Fails, Goto, Shape
<1>2. ASSUME emailSend(c) PROVE FacetRests(c)
  <2>1. AsksOnce(c, "email") \/ (Denies(c) /\ effects' = effects)
    BY <1>2 DEF emailSend
  <2>2. phase[c] # "commit" /\ facet' = facet /\ transaction' = transaction
    BY <1>2 DEF emailSend, Invoked
  <2> QED
    BY <2>1, <2>2, AskRests DEF FacetRests, Denies, Goto, Shape
<1>3. ASSUME invoiceRead(c) PROVE FacetRests(c)
  BY <1>3 DEF invoiceRead, Invoked, providerVars, FacetRests, Returns, Denies, Fails, Goto, Shape
<1>4. ASSUME createApproval(c) PROVE FacetRests(c)
  <2>1. \/ Effect(c, "approval") /\ Goto(c, "lifecycle", None)
        \/ AsksOnce(c, "approval")
    BY <1>4 DEF createApproval, AsksOnce
  <2>2. phase[c] # "commit" /\ facet' = facet /\ transaction' = transaction
    BY <1>4 DEF createApproval, Invoked
  <2> QED
    BY <2>1, <2>2, AskRests DEF FacetRests
<1>5. ASSUME startApprovalLifecycle(c) PROVE FacetRests(c)
  <2>1. AsksOnce(c, "lifecycle") /\ phase[c] # "commit" /\ facet' = facet /\ transaction' = transaction
    BY <1>5 DEF startApprovalLifecycle
  <2> QED
    BY <2>1, AskRests DEF FacetRests
<1>6. ASSUME resolveTokens(c) PROVE FacetRests(c)
  BY <1>6 DEF resolveTokens, Invoked, providerVars, FacetRests, Fails, Goto, Shape
<1>7. ASSUME invokeWithToken(c) PROVE FacetRests(c)
  <2>1. AsksOnce(c, "issue") \/ (effects' = effects /\ \E value : Goto(c, "invoke", value))
    BY <1>7 DEF invokeWithToken
  <2>2. phase[c] # "commit" /\ facet' = facet /\ transaction' = transaction
    BY <1>7 DEF invokeWithToken
  <2> QED
    BY <2>1, <2>2, AskRests DEF FacetRests, Goto, Shape
<1>8. ASSUME startFetch(c) PROVE FacetRests(c)
  BY <1>8 DEF startFetch, Invoked, providerVars, FacetRests, Denies, Goto, Shape
<1>9. ASSUME fetchHop(c) PROVE FacetRests(c)
  <2>1. phase[c] = "fetch" /\ facet' = facet /\ transaction' = transaction
    BY <1>9 DEF fetchHop
  <2>2. effects' = effects \/ effects' = effects \cup {transportRequest(c)}
    BY <1>9 DEF fetchHop
  <2>3. transportRequest(c).kind = "fetch"
    BY DEF transportRequest
  <2>4. phase'[c] # "commit"
    <3>1. \A status, url : followRedirect(c, status, url) =>
            Denies(c) \/ \E value : Goto(c, "fetch", value)
      BY DEF followRedirect
    <3>2. \/ Denies(c) \/ Fails(c) \/ Returns(c, {})
          \/ \E value : Goto(c, "fetch", value)
      BY <1>9, <3>1 DEF fetchHop
    <3> QED
      BY <3>2 DEF Returns, Fails, Denies, Goto, Shape
  <2> QED
    BY <2>1, <2>2, <2>3, <2>4 DEF FacetRests
<1>10. ASSUME kvGet(c) PROVE FacetRests(c)
  BY <1>10 DEF kvGet, Invoked, providerVars, FacetRests, Returns, Fails, Goto, Shape
<1> QED
  BY <1>1, <1>2, <1>3, <1>4, <1>5, <1>6, <1>7, <1>8, <1>9, <1>10 DEF ProviderStep

LEMMA BrokerRests ==
  ASSUME Shape, NEW c \in Calls, BrokerStep(c), ~kvBegin(c), ~kvCommit(c)
  PROVE  FacetRests(c)
<1>1. ASSUME Call(c) PROVE FacetRests(c)
  BY <1>1 DEF Call, authorize, Reports, providerVars, FacetRests, Goto, Shape
<1>2. ASSUME readJournaledCapabilityCall(c) PROVE FacetRests(c)
  BY <1>2 DEF readJournaledCapabilityCall, Answered, Rejects, providerVars, FacetRests, Goto, Shape
<1>3. ASSUME checkCapabilityRateLimit(c) PROVE FacetRests(c)
  BY <1>3 DEF checkCapabilityRateLimit, Answered, Reports, Rejects, providerVars, FacetRests, Goto, Shape
<1>4. ASSUME putBucket(c) PROVE FacetRests(c)
  BY <1>4 DEF putBucket, providerVars, FacetRests, Goto, Shape
<1>5. ASSUME Provide(c) PROVE FacetRests(c)
  BY <1>5, ProvidersRest DEF Provide
<1>6. ASSUME writeCapabilityCall(c) PROVE FacetRests(c)
  BY <1>6 DEF writeCapabilityCall, Answered, Reports, Rejects, providerVars, FacetRests, Goto, Shape
<1>7. ASSUME writeCapabilityAudit(c) PROVE FacetRests(c)
  BY <1>7 DEF writeCapabilityAudit, Answered, Rejects, providerVars, FacetRests, Goto, Shape
<1> QED
  BY <1>1, <1>2, <1>3, <1>4, <1>5, <1>6, <1>7 DEF BrokerStep

(* What FacetInv says of a value of the facet.                             *)
Fits(entries) ==
  /\ IsFiniteSet(DOMAIN entries) /\ Cardinality(DOMAIN entries) <= MaxEntries
  /\ IsFiniteSet(bytesOf(entries)) /\ FacetBytes(entries) <= MaxTotalBytes

PutsAreKept(entries, asked) ==
  \A e \in {x \in asked : x.kind = "put"} :
    \/ input[e.call].key \in DOMAIN entries
    \/ \E d \in asked : d.kind = "delete" /\ input[d.call].key = input[e.call].key

(* The entries after a put and after a delete.                             *)
With(entries, key, value) ==
  [k \in DOMAIN entries \cup {key} |-> IF k = key THEN value ELSE entries[k]]
Less(entries, key) == [k \in DOMAIN entries \ {key} |-> entries[k]]

LEMMA PutFits ==
  ASSUME NEW entries, Fits(entries), NEW key, NEW value \in Nat,
         key \in DOMAIN entries \/ ~(Cardinality(DOMAIN entries) >= MaxEntries),
         ~(FacetBytes(With(entries, key, value)) > MaxTotalBytes)
  PROVE  Fits(With(entries, key, value))
<1> DEFINE next == With(entries, key, value)
<1>1. DOMAIN next = DOMAIN entries \cup {key}
  BY DEF With
<1>2. IsFiniteSet(DOMAIN next) /\ Cardinality(DOMAIN next) <= MaxEntries
  <2>1. IsFiniteSet(DOMAIN entries) /\ Cardinality(DOMAIN entries) \in Nat
        /\ Cardinality(DOMAIN entries) <= MaxEntries /\ MaxEntries \in Nat
    BY FS_CardinalityType, KvConfiguration DEF Fits
  <2>2. /\ IsFiniteSet(DOMAIN entries \cup {key})
        /\ Cardinality(DOMAIN entries \cup {key}) =
             IF key \in DOMAIN entries THEN Cardinality(DOMAIN entries) ELSE Cardinality(DOMAIN entries) + 1
    BY <2>1, FS_AddElement
  <2> QED
    BY <1>1, <2>1, <2>2
<1>3. IsFiniteSet(bytesOf(next))
  <2> DEFINE added == {key} \X (1..value)
  <2>1. IsFiniteSet({key}) /\ IsFiniteSet(1..value)
    <3>1. IsFiniteSet({key})
      BY FS_Singleton
    <3>2. 1 \in Int /\ value \in Int
      OBVIOUS
    <3>3. IsFiniteSet(1..value)
      BY <3>2, FS_Interval
    <3> QED
      BY <3>1, <3>3
  <2>2. IsFiniteSet(added)
    BY <2>1, FS_Product
  <2>3. IsFiniteSet(bytesOf(entries) \cup added)
    BY <2>2, FS_Union DEF Fits
  <2>4. bytesOf(next) \in SUBSET (bytesOf(entries) \cup added)
    <3> SUFFICES ASSUME NEW x \in bytesOf(next) PROVE x \in bytesOf(entries) \cup added
      OBVIOUS
    <3>1. PICK k \in DOMAIN next : x \in {k} \X (1..next[k])
      BY DEF bytesOf
    <3>2. CASE k = key
      BY <3>1, <3>2 DEF With
    <3>3. CASE k # key
      <4>1. k \in DOMAIN entries /\ next[k] = entries[k]
        BY <1>1, <3>3 DEF With
      <4> QED
        BY <3>1, <4>1 DEF bytesOf
    <3> QED
      BY <3>2, <3>3
  <2> QED
    BY <2>3, <2>4, FS_Subset
<1>4. FacetBytes(next) <= MaxTotalBytes
  <2>1. FacetBytes(next) \in Nat
    BY <1>3, FS_CardinalityType DEF FacetBytes
  <2> QED
    BY <2>1, KvConfiguration
<1> QED
  BY <1>2, <1>3, <1>4 DEF Fits

LEMMA DeleteFits ==
  ASSUME NEW entries, Fits(entries), NEW key
  PROVE  Fits(Less(entries, key))
<1> DEFINE next == Less(entries, key)
<1>1. DOMAIN next = DOMAIN entries \ {key} /\ \A k \in DOMAIN next : next[k] = entries[k]
  BY DEF Less
<1> HIDE DEF next
<1>2. IsFiniteSet(DOMAIN next) /\ Cardinality(DOMAIN next) <= MaxEntries
  <2>1. IsFiniteSet(DOMAIN entries) /\ DOMAIN next \in SUBSET DOMAIN entries
    BY <1>1 DEF Fits
  <2>2. IsFiniteSet(DOMAIN next) /\ Cardinality(DOMAIN next) <= Cardinality(DOMAIN entries)
    BY <2>1, FS_Subset
  <2>3. Cardinality(DOMAIN next) \in Nat /\ Cardinality(DOMAIN entries) \in Nat /\ MaxEntries \in Nat
    BY <2>1, <2>2, FS_CardinalityType, KvConfiguration
  <2> QED
    BY <2>2, <2>3 DEF Fits
<1>3. IsFiniteSet(bytesOf(next)) /\ FacetBytes(next) <= MaxTotalBytes
  <2>1. IsFiniteSet(bytesOf(entries)) /\ bytesOf(next) \in SUBSET bytesOf(entries)
    BY <1>1 DEF Fits, bytesOf
  <2>2. IsFiniteSet(bytesOf(next)) /\ Cardinality(bytesOf(next)) <= Cardinality(bytesOf(entries))
    BY <2>1, FS_Subset
  <2>3. Cardinality(bytesOf(next)) \in Nat /\ Cardinality(bytesOf(entries)) \in Nat /\ MaxTotalBytes \in Nat
    BY <2>1, <2>2, FS_CardinalityType, KvConfiguration
  <2> QED
    BY <2>2, <2>3 DEF Fits, FacetBytes
<1> QED
  BY <1>2, <1>3 DEF Fits, next

(* The size of a value that is put.                                        *)
LEMMA PutHasASize ==
  ASSUME NEW c \in Calls, CallIsSound(c), phase[c] = "commit", input[c].operation = "put"
  PROVE  input[c].value \in Nat
<1>1. input[c] \in Requests /\ input[c].name = "kv.state" /\ MayGo(input[c])
  BY DEF CallIsSound, Authorized
<1>2. Parse("kv.state", input[c]) = Ok
  BY <1>1 DEF MayGo, assertScope, Ok, InputInvalid
<1>3. Parse("kv.state", input[c]) = parseKvStateInput(input[c])
  BY DEF Parse
<1>4. Proper(input[c].value)
  BY <1>2, <1>3 DEF parseKvStateInput, Ok, InputInvalid
<1> QED
  BY <1>1, <1>4, PutsHaveASize

LEMMA CommitKeepsFacet ==
  ASSUME NEW c \in Calls, CallIsSound(c), kvCommit(c), held[c].facet = facet,
         Fits(facet), PutsAreKept(facet, effects), input' = input
  PROVE  Fits(facet)' /\ PutsAreKept(facet, effects)'
<1> DEFINE key == input[c].key
           put == [call |-> c, kind |-> "put"]
           delete == [call |-> c, kind |-> "delete"]
<1>0. put.kind = "put" /\ put.call = c /\ delete.kind = "delete" /\ delete.call = c
  OBVIOUS
<1>1. phase[c] = "commit"
  BY DEF kvCommit
<1>2. \/ /\ input[c].operation = "put" /\ facet' = With(facet, key, input[c].value)
         /\ key \in DOMAIN facet \/ ~(Cardinality(DOMAIN facet) >= MaxEntries)
         /\ ~(FacetBytes(With(facet, key, input[c].value)) > MaxTotalBytes)
         /\ effects' = effects \cup {put}
      \/ facet' = Less(facet, key) /\ effects' = effects \cup {delete}
      \/ facet' = facet /\ effects' = effects
  BY DEF kvCommit, kvPut, kvDelete, Effect, With, Less
<1> HIDE DEF put, delete
<1>3. CASE /\ input[c].operation = "put" /\ facet' = With(facet, key, input[c].value)
           /\ key \in DOMAIN facet \/ ~(Cardinality(DOMAIN facet) >= MaxEntries)
           /\ ~(FacetBytes(With(facet, key, input[c].value)) > MaxTotalBytes)
           /\ effects' = effects \cup {put}
  <2>1. input[c].value \in Nat
    BY <1>1, <1>3, PutHasASize
  <2>2. Fits(facet')
    BY <2>1, <1>3, PutFits
  <2>3. DOMAIN facet' = DOMAIN facet \cup {key}
    BY <1>3 DEF With
  <2>4. PutsAreKept(facet, effects)'
    BY <2>3, <1>0, <1>3 DEF PutsAreKept
  <2> QED
    BY <2>2, <2>4 DEF Fits, bytesOf, FacetBytes
<1>4. CASE facet' = Less(facet, key) /\ effects' = effects \cup {delete}
  <2>1. Fits(facet')
    BY <1>4, DeleteFits
  <2>2. DOMAIN facet' = DOMAIN facet \ {key}
    BY <1>4 DEF Less
  <2>3. PutsAreKept(facet, effects)'
    BY <2>2, <1>0, <1>4 DEF PutsAreKept
  <2> QED
    BY <2>1, <2>3 DEF Fits, bytesOf, FacetBytes
<1>5. CASE facet' = facet /\ effects' = effects
  BY <1>5 DEF Fits, PutsAreKept, bytesOf, FacetBytes
<1> QED
  BY <1>2, <1>3, <1>4, <1>5

LEMMA FacetParts ==
  FacetInv <=>
    /\ transaction \in Calls \cup {None}
    /\ \A c \in Calls : phase[c] = "commit" => transaction = c /\ held[c].facet = facet
    /\ transaction # None => phase[transaction] = "commit"
    /\ Fits(facet) /\ PutsAreKept(facet, effects)
  BY DEF FacetInv, KvWritesKept, Fits, PutsAreKept

LEMMA BrokerKeepsFacet ==
  ASSUME Shape, BrokerInv, FacetInv, NEW c \in Calls, BrokerStep(c),
         NEW to, NEW value, BrokerMove(c, to, value)
  PROVE  FacetInv'
<1>0. /\ phase'[c] = to /\ held'[c] = value
      /\ \A d \in Calls : d # c => phase'[d] = phase[d] /\ held'[d] = held[d]
      /\ input' = input /\ effects \subseteq effects' /\ CallIsSound(c) /\ None \notin Calls
  BY MovedTo, CallsAreNamed DEF BrokerMove, Asks, BrokerInv
<1>1. /\ transaction \in Calls \cup {None}
      /\ \A d \in Calls : phase[d] = "commit" => transaction = d /\ held[d].facet = facet
      /\ transaction # None => phase[transaction] = "commit"
      /\ Fits(facet) /\ PutsAreKept(facet, effects)
  BY FacetParts
<1>2. SUFFICES /\ transaction' \in Calls \cup {None}
               /\ \A d \in Calls : phase'[d] = "commit" => transaction' = d /\ held'[d].facet = facet'
               /\ transaction' # None => phase'[transaction'] = "commit"
               /\ Fits(facet)' /\ PutsAreKept(facet, effects)'
  BY DEF FacetInv, KvWritesKept, Fits, PutsAreKept
<1>3. CASE kvBegin(c)
  <2>1. /\ transaction = None /\ transaction' = c /\ effects' = effects /\ facet' = facet
        /\ Goto(c, "commit", [facet |-> facet])
    BY <1>3 DEF kvBegin
  <2>2. phase'[c] = "commit" /\ held'[c].facet = facet
    BY <2>1 DEF Goto, Shape
  <2>3. \A d \in Calls : d # c => phase'[d] # "commit"
    BY <2>1, <1>0, <1>1
  <2> QED
    BY <2>1, <2>2, <2>3, <1>0, <1>1 DEF Fits, PutsAreKept, bytesOf, FacetBytes
<1>4. CASE kvCommit(c)
  <2>1. phase[c] = "commit" /\ transaction' = None
    BY <1>4 DEF kvCommit
  <2>2. phase'[c] # "commit"
    BY <1>4 DEF kvCommit, kvPut, kvDelete, Returns, Denies, Fails, Goto, Shape
  <2>3. \A d \in Calls : phase'[d] # "commit"
    BY <2>1, <2>2, <1>0, <1>1
  <2>4. Fits(facet)' /\ PutsAreKept(facet, effects)'
    BY <2>1, <1>0, <1>1, <1>4, CommitKeepsFacet
  <2> QED
    BY <2>1, <2>3, <2>4
<1>5. CASE FacetRests(c)
  <2>1. facet' = facet /\ transaction' = transaction /\ phase[c] # "commit" /\ phase'[c] # "commit"
        /\ \A e \in effects' : e \in effects \/ e.kind # "put"
    BY <1>5 DEF FacetRests
  <2>2. transaction # c
    BY <2>1, <1>0, <1>1
  <2>3. PutsAreKept(facet, effects)'
    BY <2>1, <1>0, <1>1 DEF PutsAreKept
  <2> QED
    BY <2>1, <2>2, <2>3, <1>0, <1>1 DEF Fits, bytesOf, FacetBytes
<1> QED
  BY <1>3, <1>4, <1>5, BrokerRests

LEMMA BrokerKeepsShape ==
  ASSUME Shape, NEW c \in Calls, NEW to, NEW value, BrokerMove(c, to, value), UNCHANGED runtimeVars
  PROVE  Shape'
<1>1. /\ phase' \in [Calls -> Phases] /\ held' = [d \in Calls |-> held'[d]]
      /\ journal' = [i \in Indexes |-> journal'[i]]
  BY MovedTo, JournalAfter
<1>2. input' = input /\ clock' = clock /\ calledAt' \in [Calls -> 0..MaxClock]
  BY DEF BrokerMove
<1> QED
  BY <1>1, <1>2 DEF Shape, runtimeVars

(* A step of the parent's broker.                                          *)
LEMMA ParentKeeps ==
  ASSUME IInv, NEW c \in Calls, Parent(c)
  PROVE  IInv'
<1>1. BrokerStep(c) /\ UNCHANGED runtimeVars
  BY DEF Parent
<1>2. Shape /\ BrokerInv /\ FacetInv /\ RuntimeInv /\ RetryInv /\ CallIsSound(c)
  BY DEF IInv, BrokerInv
<1>3. PICK to, value : BrokerMove(c, to, value)
  BY <1>1, <1>2, BrokerMoves DEF BrokerMoved
<1>4. Shape'
  BY <1>1, <1>2, <1>3, BrokerKeepsShape
<1>5. BrokerInv'
  BY <1>2, <1>3, BrokerKeepsBroker
<1>6. FacetInv'
  BY <1>1, <1>2, <1>3, BrokerKeepsFacet
<1>7. RuntimeInv'
  BY <1>1, <1>2, <1>3, BrokerKeepsRuntime
<1>8. RetryInv'
  BY <1>1, <1>2, <1>3, BrokerKeepsRetry
<1> QED
  BY <1>4, <1>5, <1>6, <1>7, <1>8 DEF IInv

-----------------------------------------------------------------------------
(* The steps of the worker and the parent that leave the calls alone.      *)
LEMMA CallsRest ==
  ASSUME BrokerInv, FacetInv, RetryInv,
         UNCHANGED <<phase, held, input, effects, facet, transaction, journal, audit>>,
         \A b \in Attempts : worker'[b] = "none" => worker[b] = "none"
  PROVE  BrokerInv' /\ FacetInv' /\ RetryInv'
<1>1. BrokerInv'
  <2>1. \A c \in Calls : EffectsOf(c)' = EffectsOf(c) /\ AuditOf(c)' = AuditOf(c)
    BY DEF EffectsOf, AuditOf
  <2>2. ASSUME NEW c \in Calls PROVE CallIsSound(c)'
    BY <2>1 DEF BrokerInv, CallIsSound, MayGo
  <2>3. ASSUME NEW i \in Indexes PROVE JournalIsSound(i)'
    BY DEF BrokerInv, JournalIsSound
  <2>4. ASSUME NEW e \in effects' PROVE e.call \in Calls /\ SentIsAllowed(e)'
    BY DEF BrokerInv, SentIsAllowed, MayBeSent, MayGo
  <2> QED BY <2>2, <2>3, <2>4 DEF BrokerInv
<1>2. FacetInv'
  BY DEF FacetInv, KvWritesKept, FacetBytes, bytesOf
<1>3. RetryInv'
  BY DEF RetryInv, RetryIsSound, Successful, EffectsOf
<1> QED
  BY <1>1, <1>2, <1>3

(* An attempt nothing happens to.                                          *)
LEMMA AttemptRests ==
  ASSUME NEW b \in Attempts, AttemptIsSound(b), hook' = hook, worker'[b] = worker[b],
         subrequests'[b] = subrequests[b], pending'[b] = pending[b], message'[b] = message[b],
         timer'[b] = timer[b], settled'[b] = settled[b], made'[b] = made[b],
         \A i \in Indexes : phase'[<<b, i>>] = phase[<<b, i>>],
         \A x \in Attempts : settled[x] # None => settled'[x] # None
  PROVE  AttemptIsSound(b)'
<1>1. maxAttempts' = maxAttempts
  BY DEF maxAttempts
<1> QED
  BY <1>1 DEF AttemptIsSound, Quiet, Runs

LEMMA ErrorIsOutcome == Error \in Outcomes /\ Error.ok = None /\ Error # None
<1>1. Error \in Outcomes /\ Error.ok = None
  BY DEF Error, Outcomes, Results
<1> QED
  BY <1>1, NoneIsNoOutcome

LEMMA HandlerResult ==
  ASSUME NEW type \in {"event", "transform", "policy"}, NEW result \in dispatchResults(type)
  PROVE  result \in Outcomes /\ (result.ok = TRUE => result.value \in Accepted(type))
<1>1. Accepted(type) \subseteq {"accepted", "transformed", "allow", "deny"}
  BY DEF Accepted
<1>2. ASSUME NEW x \in Outcomes PROVE /\ validateResult(type, x) \in Outcomes
                                      /\ validateResult(type, x).ok = TRUE =>
                                           validateResult(type, x).value \in Accepted(type)
  <2>1. Error \in Outcomes /\ Error.ok # TRUE
    BY ErrorIsOutcome, NoneIsNoOutcome
  <2> QED
    BY <1>2, <2>1 DEF validateResult
<1>3. ASSUME NEW returned PROVE dispatchPlugin(type, returned) \in Outcomes
  BY <1>1 DEF dispatchPlugin, Value, DispatchFailure, Outcomes, Results
<1>4. CASE result = DispatchFailure
  BY <1>4 DEF DispatchFailure, Outcomes, Results
<1>5. CASE \E returned \in HandlerReturns : result = validateResult(type, dispatchPlugin(type, returned))
  BY <1>2, <1>3, <1>5
<1> QED
  BY <1>4, <1>5 DEF dispatchResults

LEMMA StartKeeps ==
  ASSUME IInv, NEW a \in Attempts, StartAttempt(a)
  PROVE  IInv'
<1>1. Shape /\ BrokerInv /\ FacetInv /\ RuntimeInv /\ RetryInv
  BY DEF IInv
<1>2. /\ worker[a] = "none" /\ hook' = hook /\ subrequests' = subrequests /\ pending' = pending
      /\ message' = message /\ ahead' = ahead /\ made' = made /\ clock' = clock /\ calledAt' = calledAt
      /\ UNCHANGED <<phase, held, input, effects, facet, transaction, journal, audit>>
      /\ \/ /\ worker' = [worker EXCEPT ![a] = "starting"] /\ settled' = settled
            /\ timer' = [timer EXCEPT ![a] = "startup"]
         \/ /\ worker' = [worker EXCEPT ![a] = "gone"] /\ timer' = timer
            /\ settled' = [settled EXCEPT ![a] = Error]
  BY DEF StartAttempt, providerVars, brokerVars
<1>3. /\ AttemptIsSound(a) /\ subrequests[a] = 0 /\ settled[a] = None /\ message[a] = None
  BY <1>1, <1>2 DEF RuntimeInv, AttemptIsSound
<1>4. a <= maxAttempts /\ \A b \in Attempts : b < a => settled[b] # None
  <2>1. CASE a = 1
    BY <2>1, AttemptsAreNumbers DEF maxAttempts
  <2>2. CASE a # 1
    <3>1. a - 1 \in Attempts /\ a \in Nat
      BY <2>2, AttemptsAreNumbers
    <3>2. settled[a - 1] # None /\ a - 1 < maxAttempts
      BY <2>2 DEF StartAttempt, shouldRetry
    <3>3. AttemptIsSound(a - 1)
      BY <1>1, <3>1 DEF RuntimeInv
    <3>4. \A b \in Attempts : b < a - 1 => settled[b] # None
      BY <3>2, <3>3 DEF AttemptIsSound
    <3>5. maxAttempts \in Nat
      BY DEF maxAttempts
    <3> QED
      BY <3>1, <3>2, <3>4, <3>5, AttemptsAreNumbers
  <2> QED
    BY <2>1, <2>2
<1>5. Error \in Outcomes /\ Error.ok = None /\ Error # None
  BY ErrorIsOutcome
<1>6. Shape'
  BY <1>1, <1>2, <1>5 DEF Shape
<1>7. BrokerInv' /\ FacetInv' /\ RetryInv'
  BY <1>1, <1>2, CallsRest DEF Shape
<1>8. \A x \in Attempts : settled[x] # None => settled'[x] # None
  BY <1>1, <1>2, <1>3, <1>5 DEF Shape
<1>9. AttemptIsSound(a)'
  <2>1. /\ worker'[a] \in {"starting", "gone"} /\ phase' = phase /\ maxAttempts' = maxAttempts
        /\ settled'[a] = None \/ (worker'[a] = "gone" /\ settled'[a] = Error)
    BY <1>1, <1>2, <1>3 DEF Shape, maxAttempts
  <2> QED
    BY <2>1, <1>2, <1>3, <1>4, <1>5, <1>8, NoneIsNoOutcome DEF AttemptIsSound, Runs
<1>10. RuntimeInv'
  <2> SUFFICES ASSUME NEW b \in Attempts PROVE AttemptIsSound(b)'
    BY DEF RuntimeInv
  <2>1. CASE b # a
    BY <2>1, <1>1, <1>2, <1>8, AttemptRests DEF RuntimeInv, Shape
  <2> QED
    BY <2>1, <1>9
<1> QED
  BY <1>6, <1>7, <1>10 DEF IInv

(* The evaluation of the bundle, the end of the handler, and the posting   *)
(* of the last message.                                                    *)
LEMMA WorkerKeeps ==
  ASSUME IInv, NEW a \in Attempts, EvaluateBundle(a) \/ HandlerEnds(a) \/ PostLast(a)
  PROVE  IInv'
<1>1. Shape /\ BrokerInv /\ FacetInv /\ RuntimeInv /\ RetryInv
  BY DEF IInv
<1>2. /\ hook' = hook /\ subrequests' = subrequests /\ pending' = pending /\ timer' = timer
      /\ settled' = settled /\ clock' = clock /\ calledAt' = calledAt
      /\ UNCHANGED <<phase, held, input, effects, facet, transaction, journal, audit>>
      /\ worker[a] \in {"starting", "running", "ended"}
  BY DEF EvaluateBundle, HandlerEnds, PostLast, providerVars, brokerVars
<1>3. AttemptIsSound(a) /\ maxAttempts' = maxAttempts
  BY <1>1, <1>2 DEF RuntimeInv, maxAttempts
<1>4. ASSUME EvaluateBundle(a)
      PROVE  Shape' /\ AttemptIsSound(a)' /\ worker'[a] # "none"
             /\ \A b \in Attempts : b # a => /\ worker'[b] = worker[b] /\ message'[b] = message[b]
                                             /\ made'[b] = made[b]
  <2>1. /\ ahead' = ahead /\ made' = made /\ worker[a] = "starting"
        /\ \/ worker' = [worker EXCEPT ![a] = "running"] /\ message' = message
           \/ worker' = [worker EXCEPT ![a] = "failed"] /\ message' = [message EXCEPT ![a] = Error]
    BY <1>4 DEF EvaluateBundle
  <2>2. \A i \in Indexes : phase[<<a, i>>] = "idle"
    <3>1. \A i \in Indexes : i > 0
      BY DEF Indexes
    <3> QED
      BY <3>1, <2>1, <1>3 DEF AttemptIsSound
  <2>3. Error.ok # TRUE
    BY ErrorIsOutcome, NoneIsNoOutcome
  <2>4. Quiet(a)' /\ Quiet(a)
    BY <1>2, <2>2 DEF Quiet
  <2>5. Shape'
    BY <1>1, <1>2, <2>1, ErrorIsOutcome DEF Shape
  <2>6. \/ worker'[a] = "running" /\ message'[a] = message[a]
        \/ worker'[a] = "failed" /\ message'[a] = Error
    BY <1>1, <2>1 DEF Shape
  <2>7. AttemptIsSound(a)'
    BY <1>2, <1>3, <2>1, <2>2, <2>3, <2>4, <2>6, ErrorIsOutcome DEF AttemptIsSound, Runs
  <2> QED
    BY <2>1, <2>5, <2>6, <2>7, <1>1 DEF Shape
<1>5. ASSUME HandlerEnds(a)
      PROVE  Shape' /\ AttemptIsSound(a)' /\ worker'[a] # "none"
             /\ \A b \in Attempts : b # a => /\ worker'[b] = worker[b] /\ message'[b] = message[b]
                                             /\ made'[b] = made[b]
  <2>1. PICK last : Ends(a, last) /\ (last \in handlerResults(a) \/ last = Error)
    BY <1>5 DEF HandlerEnds
  <2>2. worker[a] = "running" /\ settled[a] = None /\ ahead' = ahead
    BY <1>5 DEF HandlerEnds
  <2>3. ASSUME last # Error
        PROVE  /\ last \in Outcomes /\ Quiet(a)'
               /\ last.ok = TRUE => last.value \in Accepted(hook.type)
    <3>1. pending[a] = {} /\ last \in dispatchResults(hook.type)
      BY <2>1, <2>3 DEF handlerResults
    <3>2. hook.type \in {"event", "transform", "policy"}
      BY <1>1, RuntimeConstants DEF Shape
    <3>3. last \in Outcomes /\ (last.ok = TRUE => last.value \in Accepted(hook.type))
      BY <3>1, <3>2, HandlerResult
    <3>4. Quiet(a)'
      BY <1>2, <1>3, <2>2, <3>1 DEF AttemptIsSound, Quiet, Runs
    <3> QED
      BY <3>3, <3>4
  <2>4. /\ last \in Outcomes /\ last # None /\ (last.ok # None => Quiet(a)')
        /\ last.ok = TRUE => last.value \in Accepted(hook.type)
    <3>1. CASE last = Error
      BY <3>1, ErrorIsOutcome, NoneIsNoOutcome
    <3>2. CASE last # Error
      BY <3>2, <2>3, NoneIsNoOutcome
    <3> QED
      BY <3>1, <3>2
  <2>5. /\ message' = [message EXCEPT ![a] = last] /\ worker' = [worker EXCEPT ![a] = "ended"]
        /\ made' = [made EXCEPT ![a] = subrequests[a]]
    BY <2>1 DEF Ends
  <2>6. Shape'
    BY <1>1, <1>2, <2>2, <2>4, <2>5 DEF Shape
  <2>7. message'[a] = last /\ worker'[a] = "ended" /\ made'[a] = subrequests[a] /\ subrequests[a] \in Nat
    BY <1>1, <2>5 DEF Shape
  <2>8. AttemptIsSound(a)'
    BY <1>2, <1>3, <2>2, <2>4, <2>7 DEF AttemptIsSound, Runs
  <2> QED
    BY <2>5, <2>6, <2>7, <2>8, <1>1 DEF Shape
<1>6. ASSUME PostLast(a)
      PROVE  Shape' /\ AttemptIsSound(a)' /\ worker'[a] # "none"
             /\ \A b \in Attempts : b # a => /\ worker'[b] = worker[b] /\ message'[b] = message[b]
                                             /\ made'[b] = made[b]
  <2>1. /\ worker[a] = "ended" /\ worker' = [worker EXCEPT ![a] = "posted"]
        /\ ahead' = [ahead EXCEPT ![a] = subrequests[a]] /\ message' = message /\ made' = made
    BY <1>6 DEF PostLast
  <2>2. worker'[a] = "posted" /\ subrequests[a] \in Nat
    BY <1>1, <2>1 DEF Shape
  <2>3. Shape'
    BY <1>1, <1>2, <2>1, <2>2 DEF Shape
  <2>4. Quiet(a)' = Quiet(a)
    BY <1>2, <2>1 DEF Quiet
  <2>5. AttemptIsSound(a)'
    BY <1>2, <1>3, <2>1, <2>2, <2>4 DEF AttemptIsSound, Runs
  <2> QED
    BY <2>1, <2>2, <2>3, <2>5, <1>1 DEF Shape
<1>7. Shape' /\ AttemptIsSound(a)' /\ worker'[a] # "none"
      /\ \A b \in Attempts : b # a => /\ worker'[b] = worker[b] /\ message'[b] = message[b]
                                      /\ made'[b] = made[b]
  BY <1>4, <1>5, <1>6
<1>8. BrokerInv' /\ FacetInv' /\ RetryInv'
  BY <1>1, <1>2, <1>7, CallsRest
<1>9. RuntimeInv'
  <2> SUFFICES ASSUME NEW b \in Attempts PROVE AttemptIsSound(b)'
    BY DEF RuntimeInv
  <2>1. CASE b # a
    BY <2>1, <1>1, <1>2, <1>7, AttemptRests DEF RuntimeInv
  <2> QED
    BY <2>1, <1>7
<1> QED
  BY <1>7, <1>8, <1>9 DEF IInv

LEMMA SeesStartKeeps ==
  ASSUME IInv, NEW a \in Attempts, ParentSeesStart(a)
  PROVE  IInv'
<1>1. Shape /\ BrokerInv /\ FacetInv /\ RuntimeInv /\ RetryInv
  BY DEF IInv
<1>2. /\ hook' = hook /\ subrequests' = subrequests /\ pending' = pending /\ worker' = worker
      /\ settled' = settled /\ message' = message /\ clock' = clock /\ calledAt' = calledAt
      /\ ahead' = ahead /\ made' = made
      /\ UNCHANGED <<phase, held, input, effects, facet, transaction, journal, audit>>
      /\ worker[a] # "none" /\ timer' = [timer EXCEPT ![a] = "handler"]
  BY DEF ParentSeesStart, StartReported, providerVars, brokerVars
<1>3. Shape'
  BY <1>1, <1>2 DEF Shape
<1>4. BrokerInv' /\ FacetInv' /\ RetryInv'
  BY <1>1, <1>2, CallsRest
<1>5. RuntimeInv'
  BY <1>1, <1>2 DEF RuntimeInv, AttemptIsSound, Quiet, Runs, maxAttempts, Shape
<1> QED
  BY <1>3, <1>4, <1>5 DEF IInv

LEMMA SettleKeeps ==
  ASSUME IInv, NEW a \in Attempts, LastMessage(a) \/ TimerFires(a) \/ WorkerDies(a)
  PROVE  IInv'
<1>1. Shape /\ BrokerInv /\ FacetInv /\ RuntimeInv /\ RetryInv /\ AttemptIsSound(a)
  BY DEF IInv, RuntimeInv
<1>2. PICK outcome \in Outcomes :
        /\ Settles(a, outcome) /\ worker[a] # "none"
        /\ outcome.ok # None => Quiet(a)
        /\ outcome.ok = TRUE => outcome.value \in Accepted(hook.type)
  <2>1. ASSUME LastMessage(a)
        PROVE  \E outcome \in Outcomes :
                 /\ Settles(a, outcome) /\ worker[a] # "none"
                 /\ outcome.ok # None => Quiet(a)
                 /\ outcome.ok = TRUE => outcome.value \in Accepted(hook.type)
    <3>1. worker[a] \in {"failed", "posted"} /\ Settles(a, message[a])
      BY <2>1 DEF LastMessage
    <3>2. message[a] # None /\ message[a] \in Outcomes
      BY <3>1, <1>1 DEF AttemptIsSound, Shape
    <3> QED
      BY <3>1, <3>2, <1>1 DEF AttemptIsSound
  <2>2. ASSUME Settles(a, Error), worker[a] # "none"
        PROVE  \E outcome \in Outcomes :
                 /\ Settles(a, outcome) /\ worker[a] # "none"
                 /\ outcome.ok # None => Quiet(a)
                 /\ outcome.ok = TRUE => outcome.value \in Accepted(hook.type)
    BY <2>2, ErrorIsOutcome, NoneIsNoOutcome
  <2>3. ASSUME TimerFires(a) PROVE Settles(a, Error) /\ worker[a] # "none"
    BY <2>3, <1>1 DEF TimerFires, AttemptIsSound
  <2>4. ASSUME WorkerDies(a) PROVE Settles(a, Error) /\ worker[a] # "none"
    BY <2>4 DEF WorkerDies
  <2> QED
    BY <2>1, <2>2, <2>3, <2>4
<1>3. /\ hook' = hook /\ subrequests' = subrequests /\ made' = made
      /\ clock' = clock /\ calledAt' = calledAt
      /\ UNCHANGED <<phase, held, input, effects, facet, transaction, journal, audit>>
      /\ timer' = [timer EXCEPT ![a] = "off"]
      /\ settled' = [settled EXCEPT ![a] = outcome] /\ settled[a] = None
  BY <1>2 DEF Settles, providerVars, brokerVars
<1>4. \/ UNCHANGED <<worker, pending, message, ahead>>
      \/ Gone(a)
  BY DEF LastMessage, TimerFires, WorkerDies
<1>5. /\ Shape' /\ settled'[a] = outcome /\ outcome # None
      /\ \/ worker'[a] = worker[a] /\ message'[a] = message[a] /\ pending'[a] = pending[a]
         \/ worker'[a] = "gone" /\ message'[a] = None
      /\ \A b \in Attempts : b # a => /\ worker'[b] = worker[b] /\ timer'[b] = timer[b]
                                      /\ settled'[b] = settled[b] /\ pending'[b] = pending[b]
                                      /\ message'[b] = message[b]
  <2>1. Shape'
    BY <1>1, <1>3, <1>4 DEF Shape, Gone
  <2> QED
    BY <2>1, <1>1, <1>3, <1>4, NoneIsNoOutcome DEF Shape, Gone
<1>6. BrokerInv' /\ FacetInv' /\ RetryInv'
  BY <1>1, <1>2, <1>3, <1>5, CallsRest
<1>7. \A x \in Attempts : settled[x] # None => settled'[x] # None
  BY <1>5
<1>8. AttemptIsSound(a)'
  <2>1. Quiet(a)' = Quiet(a) /\ maxAttempts' = maxAttempts
    BY <1>3 DEF Quiet, maxAttempts
  <2> QED
    BY <2>1, <1>1, <1>2, <1>3, <1>5, <1>7 DEF AttemptIsSound, Runs
<1>9. RuntimeInv'
  <2> SUFFICES ASSUME NEW b \in Attempts PROVE AttemptIsSound(b)'
    BY DEF RuntimeInv
  <2>1. CASE b # a
    BY <2>1, <1>1, <1>3, <1>5, <1>7, AttemptRests DEF RuntimeInv
  <2> QED
    BY <2>1, <1>8
<1> QED
  BY <1>5, <1>6, <1>9 DEF IInv

(* A settled attempt's worker is terminated.                               *)
LEMMA StopKeeps ==
  ASSUME IInv, NEW a \in Attempts, WorkerStops(a)
  PROVE  IInv'
<1>1. Shape /\ BrokerInv /\ FacetInv /\ RuntimeInv /\ RetryInv /\ AttemptIsSound(a)
  BY DEF IInv, RuntimeInv
<1>2. /\ hook' = hook /\ subrequests' = subrequests /\ made' = made /\ timer' = timer /\ settled' = settled
      /\ clock' = clock /\ calledAt' = calledAt
      /\ UNCHANGED <<phase, held, input, effects, facet, transaction, journal, audit>>
      /\ settled[a] # None /\ Gone(a)
  BY DEF WorkerStops, providerVars, brokerVars
<1>3. /\ Shape' /\ worker'[a] = "gone" /\ message'[a] = None
      /\ \A b \in Attempts : b # a => /\ worker'[b] = worker[b] /\ pending'[b] = pending[b]
                                      /\ message'[b] = message[b]
  <2>1. Shape'
    BY <1>1, <1>2 DEF Shape, Gone
  <2> QED
    BY <2>1, <1>1, <1>2 DEF Shape, Gone
<1>4. BrokerInv' /\ FacetInv' /\ RetryInv'
  BY <1>1, <1>2, <1>3, CallsRest
<1>5. AttemptIsSound(a)'
  <2>1. Quiet(a)' = Quiet(a) /\ maxAttempts' = maxAttempts
    BY <1>2 DEF Quiet, maxAttempts
  <2> QED
    BY <2>1, <1>1, <1>2, <1>3 DEF AttemptIsSound, Runs
<1>6. RuntimeInv'
  <2> SUFFICES ASSUME NEW b \in Attempts PROVE AttemptIsSound(b)'
    BY DEF RuntimeInv
  <2>1. CASE b # a
    BY <2>1, <1>1, <1>2, <1>3, AttemptRests DEF RuntimeInv
  <2> QED
    BY <2>1, <1>5
<1> QED
  BY <1>3, <1>4, <1>6 DEF IInv

LEMMA TickKeeps ==
  ASSUME IInv, Tick, UNCHANGED runtimeVars
  PROVE  IInv'
<1>1. Shape /\ BrokerInv /\ FacetInv /\ RuntimeInv /\ RetryInv
  BY DEF IInv
<1>2. /\ calledAt' = calledAt /\ clock' \in 0..MaxClock
      /\ UNCHANGED <<phase, held, input, effects, facet, transaction, journal, audit>>
  BY <1>1, BrokerConstants DEF Tick, providerVars, Shape
<1>3. Shape'
  BY <1>1, <1>2 DEF Shape, runtimeVars
<1>4. BrokerInv' /\ FacetInv' /\ RetryInv'
  BY <1>1, <1>2, CallsRest DEF runtimeVars
<1>5. RuntimeInv'
  BY <1>1, <1>2 DEF runtimeVars, RuntimeInv, AttemptIsSound, Quiet, Runs, maxAttempts
<1> QED
  BY <1>3, <1>4, <1>5 DEF IInv

(* The handler's calls.                                                    *)
LEMMA AskKeeps ==
  ASSUME IInv, NEW a \in Attempts, callParentCapability(a)
  PROVE  IInv'
<1>0. PICK i, c : i = subrequests[a] + 1 /\ c = <<a, i>>
  OBVIOUS
<1>1. Shape /\ BrokerInv /\ FacetInv /\ RuntimeInv /\ RetryInv /\ AttemptIsSound(a)
  BY DEF IInv, RuntimeInv
<1>2. /\ Runs(a) /\ i <= Len(hook.tries[a])
      /\ subrequests' = [subrequests EXCEPT ![a] = i]
      /\ UNCHANGED <<held, effects, facet, transaction, clock, calledAt, journal, audit>>
      /\ UNCHANGED <<hook, worker, message, ahead, made, timer, settled>>
      /\ IF i > MaxSubrequests THEN UNCHANGED <<phase, input, pending>>
         ELSE /\ phase' = [phase EXCEPT ![c] = "requested"]
              /\ input' = [input EXCEPT ![c] = hook.tries[a][i]]
              /\ pending' = [pending EXCEPT ![a] = @ \cup {i}]
  BY <1>0 DEF callParentCapability, providerVars, brokerVars
<1>3. i \in Nat \ {0} /\ subrequests[a] \in Nat /\ i = subrequests[a] + 1
  BY <1>0, <1>1 DEF Shape
<1>4. made[a] \in Nat /\ made[a] < i /\ made[a] <= i /\ worker[a] \notin {"none", "starting"}
  BY <1>1, <1>2, <1>3 DEF AttemptIsSound, Shape, Runs
<1>5. subrequests'[a] = i /\ \A b \in Attempts : b # a => subrequests'[b] = subrequests[b]
  BY <1>1, <1>2 DEF Shape
<1>6. maxAttempts' = maxAttempts
  BY <1>2 DEF maxAttempts
<1>7. CASE i > MaxSubrequests
  <2>1. UNCHANGED <<phase, input, pending>>
    BY <1>2, <1>7
  <2>2. Shape'
    BY <1>1, <1>2, <1>3, <2>1 DEF Shape
  <2>3. BrokerInv' /\ FacetInv' /\ RetryInv'
    BY <1>1, <1>2, <2>1, CallsRest
  <2>4. AttemptIsSound(a)'
    <3>1. \A j \in Indexes : j \in Int
      BY DEF Indexes
    <3>2. \A j \in Indexes : j > i => j > subrequests[a]
      BY <1>3, <3>1
    <3>3. Quiet(a)' = Quiet(a)
      BY <1>2, <2>1 DEF Quiet
    <3> QED
      BY <1>1, <1>2, <1>4, <1>5, <1>6, <2>1, <3>2, <3>3 DEF AttemptIsSound, Runs
  <2>5. RuntimeInv'
    <3> SUFFICES ASSUME NEW b \in Attempts PROVE AttemptIsSound(b)'
      BY DEF RuntimeInv
    <3>1. CASE b # a
      BY <3>1, <1>1, <1>2, <1>5, <2>1, AttemptRests DEF RuntimeInv
    <3> QED
      BY <3>1, <2>4
  <2> QED
    BY <2>2, <2>3, <2>5 DEF IInv
<1>8. CASE i <= MaxSubrequests
  <2>1. /\ phase' = [phase EXCEPT ![c] = "requested"]
        /\ input' = [input EXCEPT ![c] = hook.tries[a][i]]
        /\ pending' = [pending EXCEPT ![a] = @ \cup {i}]
    <3>1. ~(i > MaxSubrequests)
      BY <1>3, <1>8, RuntimeConstants, CallsAreNamed
    <3> QED
      BY <3>1, <1>2
  <2>2. i \in Indexes /\ c \in Calls /\ c[1] = a /\ c[2] = i
    BY <1>0, <1>3, <1>8, RuntimeConstants, CallsAreNamed DEF Indexes, Calls
  <2>3. phase[c] = "idle"
    <3>1. i > subrequests[a]
      BY <1>3
    <3> QED
      BY <3>1, <2>2, <1>0, <1>1 DEF AttemptIsSound
  <2>4. hook.tries[a][i] \in Requests
    <3>1. hook \in Hooks /\ hook.tries[a] \in Seq(ToSet(hook.tries[a]))
      BY <1>1, RuntimeConstants DEF Shape
    <3>2. i \in DOMAIN hook.tries[a]
      BY <3>1, <1>2, <1>3
    <3>3. hook.tries[a][i] \in ToSet(hook.tries[a])
      BY <3>2 DEF ToSet
    <3> QED
      BY <3>1, <3>3 DEF Requests
  <2>5. phase'[c] = "requested" /\ input'[c] = hook.tries[a][i]
        /\ \A d \in Calls : d # c => phase'[d] = phase[d] /\ input'[d] = input[d]
    BY <1>1, <2>1, <2>2 DEF Shape
  <2>6. pending'[a] = pending[a] \cup {i} /\ \A b \in Attempts : b # a => pending'[b] = pending[b]
    BY <1>1, <2>1 DEF Shape
  <2>7. Shape'
    <3>1. phase' \in [Calls -> Phases]
      BY <1>1, <2>1 DEF Shape, Phases, Busy
    <3>2. input' = [d \in Calls |-> input'[d]]
      BY <1>1, <2>1 DEF Shape
    <3>3. held' = [d \in Calls |-> held'[d]]
      BY <1>1, <1>2 DEF Shape
    <3> QED
      BY <3>1, <3>2, <3>3, <1>1, <1>2, <1>3, <2>1, <2>2 DEF Shape
  <2>8. EffectsOf(c) = {} /\ CallIsSound(c)
    BY <1>1, <2>2, <2>3 DEF BrokerInv, CallIsSound, Unasked
  <2>9. BrokerInv'
    <3>1. CallIsSound(c)'
      <4>1. AuditOf(c)' = {} /\ EffectsOf(c)' = {}
        BY <1>2, <2>3, <2>8 DEF CallIsSound, AuditOf, EffectsOf
      <4>2. ~(journal'[c[2]] # None /\ journal'[c[2]].result = c)
        BY <1>2, <2>3, <2>8 DEF CallIsSound
      <4> QED
        BY <4>1, <4>2, <2>4, <2>5 DEF CallIsSound, Authorized
    <3>2. ASSUME NEW d \in Calls, d # c PROVE CallIsSound(d)'
      <4>1. CallIsSound(d) /\ phase'[d] = phase[d] /\ input'[d] = input[d]
        BY <3>2, <2>5, <1>1 DEF BrokerInv
      <4> QED
        BY <4>1, <1>2 DEF CallIsSound, MayGo, MayBeSent, AuditOf, EffectsOf
    <3> QED
      BY <3>1, <3>2, <1>1, <1>2 DEF BrokerInv, JournalIsSound, SentIsAllowed
  <2>10. FacetInv'
    <3>1. /\ transaction \in Calls \cup {None}
          /\ \A d \in Calls : phase[d] = "commit" => transaction = d /\ held[d].facet = facet
          /\ transaction # None => phase[transaction] = "commit"
          /\ Fits(facet) /\ PutsAreKept(facet, effects)
      BY <1>1, FacetParts
    <3>2. SUFFICES /\ transaction' \in Calls \cup {None}
                   /\ \A d \in Calls : phase'[d] = "commit" => transaction' = d /\ held'[d].facet = facet'
                   /\ transaction' # None => phase'[transaction'] = "commit"
                   /\ Fits(facet)' /\ PutsAreKept(facet, effects)'
      BY DEF FacetInv, KvWritesKept, Fits, PutsAreKept
    <3>3. \A d \in Calls : phase'[d] = "commit" => transaction' = d /\ held'[d].facet = facet'
      BY <1>2, <2>5, <3>1
    <3>4. transaction' # None => phase'[transaction'] = "commit"
      BY <1>2, <2>3, <2>5, <3>1
    <3>5. Fits(facet)'
      BY <1>2, <3>1 DEF Fits, bytesOf, FacetBytes
    <3>6. \A e \in effects : e.call \in Calls /\ e.call # c
      BY <1>1, <2>8 DEF BrokerInv, EffectsOf
    <3>7. \A e \in effects : input'[e.call] = input[e.call]
      BY <3>6, <2>5
    <3>8. PutsAreKept(facet, effects)'
      BY <1>2, <3>1, <3>7 DEF PutsAreKept
    <3> QED
      BY <1>2, <3>1, <3>3, <3>4, <3>5, <3>8
  <2>11. RuntimeInv'
    <3>1. AttemptIsSound(a)'
      <4>1. \A j \in Indexes : phase'[<<a, j>>] \notin {"idle", "delivered"} => j \in pending'[a]
        <5> SUFFICES ASSUME NEW j \in Indexes, phase'[<<a, j>>] \notin {"idle", "delivered"}
                     PROVE  j \in pending'[a]
          OBVIOUS
        <5>1. CASE j = i
          BY <5>1, <2>6
        <5>2. CASE j # i
          BY <5>2, <1>1, <1>2, <1>0, <2>2, <2>5, <2>6, CallsArePairs DEF AttemptIsSound
        <5> QED
          BY <5>1, <5>2
      <4>2. \A j \in Indexes : j > subrequests'[a] => phase'[<<a, j>>] = "idle"
        <5> SUFFICES ASSUME NEW j \in Indexes, j > i PROVE phase'[<<a, j>>] = "idle"
          BY <1>5
        <5>1. j # i /\ j > subrequests[a]
          BY <1>3 DEF Indexes
        <5>2. <<a, j>> \in Calls /\ <<a, j>> # c
          BY <5>1, <1>0, <2>2, CallsArePairs
        <5> QED
          BY <5>1, <5>2, <1>1, <2>5 DEF AttemptIsSound
      <4>3. Quiet(a) => Quiet(a)'
        <5> SUFFICES ASSUME Quiet(a), NEW j \in Indexes, j <= made[a]
                     PROVE  phase'[<<a, j>>] \in {"idle", "delivered"}
          BY <1>2 DEF Quiet
        <5>1. j # i
          BY <1>3, <1>4
        <5>2. <<a, j>> \in Calls /\ <<a, j>> # c
          BY <5>1, <1>0, <2>2, CallsArePairs
        <5> QED
          BY <5>2, <2>5 DEF Quiet
      <4> QED
        BY <4>1, <4>2, <4>3, <1>1, <1>2, <1>4, <1>5, <1>6 DEF AttemptIsSound, Runs
    <3>2. ASSUME NEW b \in Attempts, b # a PROVE AttemptIsSound(b)'
      <4>1. \A j \in Indexes : phase'[<<b, j>>] = phase[<<b, j>>]
        <5> SUFFICES ASSUME NEW j \in Indexes PROVE phase'[<<b, j>>] = phase[<<b, j>>]
          OBVIOUS
        <5>1. <<b, j>> \in Calls /\ <<b, j>>[1] = b
          BY <2>2, CallsArePairs
        <5> QED
          BY <5>1, <3>2, <2>2, <2>5
      <4> QED
        BY <4>1, <3>2, <1>1, <1>2, <1>5, <2>6, AttemptRests DEF RuntimeInv
    <3> QED
      BY <3>1, <3>2 DEF RuntimeInv
  <2>12. RetryInv'
    <3> SUFFICES ASSUME NEW x \in Attempts, NEW b \in Attempts, NEW j \in Indexes, x < b, b <= 2
                 PROVE  RetryIsSound(x, b, j)'
      BY DEF RetryInv
    <3>1. RetryIsSound(x, b, j) /\ <<x, j>> \in Calls /\ <<b, j>> \in Calls
      BY <1>1, <2>2, CallsArePairs DEF RetryInv
    <3>2. Successful(<<x, j>>)' => Successful(<<x, j>>)
      BY <1>2, <2>5, <3>1 DEF Successful
    <3>3. EffectsOf(<<b, j>>)' = EffectsOf(<<b, j>>)
      BY <1>2 DEF EffectsOf
    <3>4. phase'[<<x, j>>] = phase[<<x, j>>] \/ phase'[<<x, j>>] = "requested"
      BY <2>5, <3>1
    <3>5. phase'[<<b, j>>] = phase[<<b, j>>] \/ phase'[<<b, j>>] = "requested"
      BY <2>5, <3>1
    <3> QED
      BY <3>1, <3>2, <3>3, <3>4, <3>5, <1>2 DEF RetryIsSound
  <2> QED
    BY <2>7, <2>9, <2>10, <2>11, <2>12 DEF IInv
<1> QED
  BY <1>3, <1>7, <1>8, RuntimeConstants, CallsAreNamed

(* The answer of a call: it reaches a worker of which no later attempt was *)
(* started, so what the journal holds is what the retry will find.         *)
LEMMA DeliverKeeps ==
  ASSUME IInv, NEW c \in Calls, DeliverAnswer(c)
  PROVE  IInv'
<1>0. PICK a \in Attempts, i \in Indexes : c = <<a, i>> /\ c[1] = a /\ c[2] = i
  BY CallsArePairs
<1>1. Shape /\ BrokerInv /\ FacetInv /\ RuntimeInv /\ RetryInv /\ AttemptIsSound(a)
  BY DEF IInv, RuntimeInv
<1>2. /\ phase[c] = "answered" /\ settled[a] = None /\ Runs(a)
      /\ phase' = [phase EXCEPT ![c] = "delivered"]
      /\ pending' = [pending EXCEPT ![a] = @ \ {i}]
      /\ UNCHANGED <<held, input, effects, facet, transaction, clock, calledAt, journal, audit>>
      /\ UNCHANGED <<hook, worker, subrequests, message, ahead, made, timer, settled>>
  BY <1>0 DEF DeliverAnswer, providerVars, brokerVars
<1>3. phase'[c] = "delivered" /\ \A d \in Calls : d # c => phase'[d] = phase[d]
  BY <1>1, <1>2 DEF Shape
<1>4. pending'[a] = pending[a] \ {i} /\ \A b \in Attempts : b # a => pending'[b] = pending[b]
  BY <1>1, <1>2 DEF Shape
<1>5. Quiet(a) => Quiet(a)'
  <2> SUFFICES ASSUME Quiet(a), NEW j \in Indexes, j <= made[a]
               PROVE  phase'[<<a, j>>] \in {"idle", "delivered"}
    BY <1>2 DEF Quiet
  <2>1. <<a, j>> \in Calls
    BY CallsArePairs
  <2> QED
    BY <2>1, <1>3 DEF Quiet
<1>6. Shape'
  <2>1. phase' \in [Calls -> Phases]
    BY <1>1, <1>2 DEF Shape, Phases
  <2>2. held' = [d \in Calls |-> held'[d]] /\ input' = [d \in Calls |-> input'[d]]
    BY <1>1, <1>2 DEF Shape
  <2> QED
    BY <2>1, <2>2, <1>1, <1>2 DEF Shape
<1>7. BrokerInv'
  <2>1. ASSUME NEW d \in Calls PROVE CallIsSound(d)'
    <3>1. CallIsSound(d) /\ AuditOf(d)' = AuditOf(d) /\ EffectsOf(d)' = EffectsOf(d)
      BY <1>1, <1>2 DEF BrokerInv, AuditOf, EffectsOf
    <3>2. CASE d # c
      <4>1. phase'[d] = phase[d]
        BY <3>2, <1>3
      <4> QED
        BY <4>1, <3>1, <1>2 DEF CallIsSound, MayGo, MayBeSent
    <3>3. CASE d = c
      <4>1. /\ input[c] \in Requests
            /\ AuditOf(c) = {} \/ \E r \in AuditOf(c) : AuditOf(c) = {r}
            /\ held[c].by # None =>
                 {x.status : x \in AuditOf(c)} = (IF held[c].by = c THEN {"success"} ELSE {})
        BY <3>1, <3>3, <1>2 DEF CallIsSound
      <4> QED
        BY <4>1, <3>1, <3>3, <1>2, <1>3 DEF CallIsSound, Authorized, Unasked
    <3> QED
      BY <3>2, <3>3
  <2> QED
    BY <2>1, <1>1, <1>2 DEF BrokerInv, JournalIsSound, SentIsAllowed
<1>8. FacetInv'
  <2>1. \A d \in Calls : phase'[d] = "commit" <=> phase[d] = "commit"
    BY <1>2, <1>3
  <2>2. transaction # None => transaction \in Calls
    BY <1>1 DEF FacetInv
  <2>3. FacetBytes(facet)' = FacetBytes(facet) /\ bytesOf(facet)' = bytesOf(facet)
    BY <1>2 DEF FacetBytes, bytesOf
  <2> QED
    BY <2>1, <2>2, <2>3, <1>1, <1>2 DEF FacetInv, KvWritesKept
<1>9. RuntimeInv'
  <2>1. AttemptIsSound(a)'
    <3>1. \A j \in Indexes : phase'[<<a, j>>] \notin {"idle", "delivered"} => j \in pending'[a]
      <4> SUFFICES ASSUME NEW j \in Indexes, phase'[<<a, j>>] \notin {"idle", "delivered"}
                   PROVE  j \in pending'[a]
        OBVIOUS
      <4>1. j # i
        BY <1>0, <1>3
      <4> QED
        BY <4>1, <1>0, <1>1, <1>2, <1>3, <1>4, CallsArePairs DEF AttemptIsSound
    <3>2. \A j \in Indexes : j > subrequests[a] => phase'[<<a, j>>] = "idle"
      BY <1>0, <1>1, <1>2, <1>3, CallsArePairs DEF AttemptIsSound
    <3>3. maxAttempts' = maxAttempts
      BY <1>2 DEF maxAttempts
    <3> QED
      BY <3>1, <3>2, <3>3, <1>1, <1>2, <1>5 DEF AttemptIsSound, Runs
  <2>2. ASSUME NEW b \in Attempts, b # a PROVE AttemptIsSound(b)'
    <3>1. \A j \in Indexes : phase'[<<b, j>>] = phase[<<b, j>>]
      BY <1>0, <1>3, <2>2, CallsArePairs
    <3> QED
      BY <3>1, <2>2, <1>1, <1>2, <1>4, AttemptRests DEF RuntimeInv
  <2> QED
    BY <2>1, <2>2 DEF RuntimeInv
<1>10. RetryInv'
  <2> SUFFICES ASSUME NEW x \in Attempts, NEW b \in Attempts, NEW j \in Indexes, x < b, b <= 2
               PROVE  RetryIsSound(x, b, j)'
    BY DEF RetryInv
  <2>1. RetryIsSound(x, b, j) /\ <<x, j>> \in Calls /\ <<b, j>> \in Calls /\ AttemptIsSound(b)
    BY <1>1, CallsArePairs DEF RetryInv, RuntimeInv
  <2>2. EffectsOf(<<b, j>>)' = EffectsOf(<<b, j>>)
    BY <1>2 DEF EffectsOf
  <2>3. CASE <<x, j>> = c
    <3>1. x = a /\ j = i /\ <<b, j>> # c
      BY <2>3, <1>0, AttemptsAreNumbers
    <3>2. worker[b] = "none"
      BY <3>1, <2>1, <1>2 DEF AttemptIsSound
    <3>3. phase[<<b, j>>] = "idle"
      <4>1. subrequests[b] = 0 /\ j > 0
        BY <3>2, <2>1 DEF AttemptIsSound, Indexes
      <4> QED
        BY <4>1, <2>1 DEF AttemptIsSound
    <3>4. EffectsOf(<<b, j>>) = {}
      BY <3>3, <2>1, <1>1 DEF BrokerInv, CallIsSound, Unasked
    <3>5. phase'[<<b, j>>] = "idle"
      BY <3>1, <3>3, <2>1, <1>3
    <3>6. held[<<x, j>>].by # None => journal[j] # None /\ held[<<x, j>>].by = <<x, j>>
      BY <2>1, <2>3, <3>2, <1>2 DEF RetryIsSound
    <3>7. journal[j] # None => journal[j].result = <<x, j>>
      BY <2>1, <3>2 DEF RetryIsSound
    <3>8. phase'[<<x, j>>] = "delivered"
      BY <2>3, <1>3
    <3> QED
      BY <2>2, <3>2, <3>4, <3>5, <3>6, <3>7, <3>8, <1>2 DEF RetryIsSound, Successful
  <2>4. CASE <<x, j>> # c
    <3>1. phase'[<<x, j>>] = phase[<<x, j>>]
      BY <2>1, <2>4, <1>3
    <3>2. \/ phase'[<<b, j>>] = phase[<<b, j>>]
          \/ phase'[<<b, j>>] = "delivered" /\ phase[<<b, j>>] = "answered"
      BY <2>1, <1>2, <1>3
    <3> QED
      BY <2>1, <2>2, <3>1, <3>2, <1>2 DEF RetryIsSound, Successful
  <2> QED
    BY <2>3, <2>4
<1> QED
  BY <1>6, <1>7, <1>8, <1>9, <1>10 DEF IInv

-----------------------------------------------------------------------------
LEMMA InitIInv == Init => IInv
<1> SUFFICES ASSUME Init PROVE IInv
  OBVIOUS
<1>1. /\ clock = 0 /\ calledAt = [c \in Calls |-> 0] /\ effects = {} /\ audit = {} /\ transaction = None
      /\ phase = [c \in Calls |-> "idle"] /\ held = [c \in Calls |-> None]
      /\ facet = [k \in {} |-> 0] /\ journal = [i \in Indexes |-> None]
      /\ input = [c \in Calls |-> None] /\ hook \in Hooks
      /\ worker = [a \in Attempts |-> "none"] /\ subrequests = [a \in Attempts |-> 0]
      /\ pending = [a \in Attempts |-> {}] /\ message = [a \in Attempts |-> None]
      /\ ahead = [a \in Attempts |-> 0] /\ made = [a \in Attempts |-> 0]
      /\ timer = [a \in Attempts |-> "off"] /\ settled = [a \in Attempts |-> None]
  BY DEF Init, BrokerInit
<1>2. Shape
  BY <1>1, BrokerConstants DEF Shape, Phases, Busy
<1>3. BrokerInv
  <2>1. \A c \in Calls : EffectsOf(c) = {} /\ AuditOf(c) = {}
    BY <1>1 DEF EffectsOf, AuditOf
  <2>2. \A c \in Calls : c[2] \in Indexes
    BY CallsArePairs
  <2>3. \A c \in Calls : phase[c] = "idle" /\ journal[c[2]] = None
    BY <1>1, <2>2
  <2>4. \A c \in Calls : CallIsSound(c)
    BY <2>1, <2>3 DEF CallIsSound, Authorized
  <2> QED
    BY <1>1, <2>4 DEF BrokerInv, JournalIsSound
<1>4. FacetInv
  <2>1. DOMAIN facet = {} /\ bytesOf(facet) = {}
    BY <1>1 DEF bytesOf
  <2>2. IsFiniteSet({}) /\ Cardinality({}) = 0
    BY FS_EmptySet
  <2>3. Cardinality(DOMAIN facet) <= MaxEntries /\ FacetBytes(facet) <= MaxTotalBytes
    BY <2>1, <2>2, KvConfiguration DEF FacetBytes
  <2> QED
    BY <1>1, <2>1, <2>2, <2>3 DEF FacetInv, KvWritesKept
<1>5. RuntimeInv
  <2> SUFFICES ASSUME NEW a \in Attempts PROVE AttemptIsSound(a)
    BY DEF RuntimeInv
  <2>1. \A i \in Indexes : phase[<<a, i>>] = "idle"
    BY <1>1 DEF Calls, Indexes
  <2>2. 0 <= Len(hook.tries[a])
    BY <1>1, RuntimeConstants
  <2> QED
    BY <1>1, <2>1, <2>2 DEF AttemptIsSound, Runs
<1>6. RetryInv
  <2>1. \A a \in Attempts, i \in Indexes : phase[<<a, i>>] = "idle" /\ journal[i] = None
    BY <1>1 DEF Calls, Indexes
  <2> QED
    BY <2>1 DEF RetryInv, RetryIsSound, Successful
<1> QED
  BY <1>2, <1>3, <1>4, <1>5, <1>6 DEF IInv

LEMMA StepIInv == IInv /\ [Next]_vars => IInv'
<1> SUFFICES ASSUME IInv, [Next]_vars PROVE IInv'
  OBVIOUS
<1>1. ASSUME NEW a \in Attempts,
             \/ StartAttempt(a) \/ EvaluateBundle(a) \/ ParentSeesStart(a)
             \/ callParentCapability(a) \/ HandlerEnds(a) \/ PostLast(a)
             \/ LastMessage(a) \/ TimerFires(a) \/ WorkerDies(a) \/ WorkerStops(a)
      PROVE  IInv'
  BY <1>1, StartKeeps, WorkerKeeps, SeesStartKeeps, AskKeeps, SettleKeeps, StopKeeps
<1>2. ASSUME NEW c \in Calls, Parent(c) \/ DeliverAnswer(c) PROVE IInv'
  BY <1>2, ParentKeeps, DeliverKeeps
<1>3. CASE Tick /\ UNCHANGED runtimeVars
  BY <1>3, TickKeeps
<1>4. CASE UNCHANGED vars
  <2>1. Shape /\ BrokerInv /\ FacetInv /\ RuntimeInv /\ RetryInv
    BY DEF IInv
  <2>2. /\ UNCHANGED <<phase, held, input, effects, facet, transaction, clock, calledAt, journal, audit>>
        /\ UNCHANGED <<hook, worker, subrequests, pending, message, ahead, made, timer, settled>>
    BY <1>4 DEF vars, providerVars, brokerVars, runtimeVars
  <2>3. Shape'
    BY <2>1, <2>2 DEF Shape
  <2>4. BrokerInv' /\ FacetInv' /\ RetryInv'
    BY <2>1, <2>2, CallsRest
  <2>5. RuntimeInv'
    BY <2>1, <2>2 DEF RuntimeInv, AttemptIsSound, Quiet, Runs, maxAttempts
  <2> QED
    BY <2>3, <2>4, <2>5 DEF IInv
<1> QED
  BY <1>1, <1>2, <1>3, <1>4 DEF Next

(* The inductive invariant holds throughout.                               *)
LEMMA Invariance == Spec => []IInv
<1> QED
  BY InitIInv, StepIInv, PTL DEF Spec

(* The types of the broker's calls, its journal and the attempts, and no   *)
(* more calls of an attempt than its handler makes (callParentCapability,  *)
(* readJournaledCapabilityCall).                                           *)
THEOREM RuntimeTypes == Spec => []TypeOK
<1>1. IInv => TypeOK
  <2> SUFFICES ASSUME IInv PROVE TypeOK
    OBVIOUS
  <2>1. Shape /\ FacetInv /\ RuntimeInv /\ BrokerInv
    BY DEF IInv
  <2>2. \A i \in Indexes : journal[i] = None \/ journal[i].result \in Calls
    BY <2>1 DEF BrokerInv, JournalIsSound
  <2>3. ASSUME NEW a \in Attempts PROVE subrequests[a] \in 0..Len(hook.tries[a])
    <3>1. subrequests[a] \in Nat /\ subrequests[a] <= Len(hook.tries[a])
      BY <2>1 DEF Shape, RuntimeInv, AttemptIsSound
    <3>2. Len(hook.tries[a]) \in Nat
      BY <2>1, RuntimeConstants DEF Shape
    <3> QED
      BY <3>1, <3>2
  <2>4. DOMAIN held = Calls /\ DOMAIN input = Calls
    BY <2>1 DEF Shape
  <2> QED
    BY <2>1, <2>2, <2>3, <2>4 DEF TypeOK, Shape, FacetInv, Phases, Busy
<1> QED
  BY <1>1, Invariance, PTL

(* A result is final for the calls it rests on: an attempt settles with a  *)
(* result only when the broker has under way no call its handler had made  *)
(* when it was found complete, whatever handler, services, timers and      *)
(* worker do, and what is called later has a higher number; and a policy   *)
(* hook that failed is a deny (finishResolve, handlerResults,              *)
(* runScopedPluginDispatch).                                               *)
THEOREM ResultsAreFinal == Spec => []ResultHasNoCallInFlight
<1>1. IInv => ResultHasNoCallInFlight
  <2> SUFFICES ASSUME IInv, NEW a \in Attempts, settled[a] # None
               PROVE  /\ settled[a].ok # None => \A i \in Indexes : i <= made[a] => ~InFlight(<<a, i>>)
                      /\ hook.type = "policy" => dispatchResult(a).value \in {"allow", "deny"}
    BY DEF ResultHasNoCallInFlight
  <2>1. AttemptIsSound(a)
    BY DEF IInv, RuntimeInv
  <2>2. settled[a].ok # None => \A i \in Indexes : i <= made[a] => ~InFlight(<<a, i>>)
    BY <2>1 DEF AttemptIsSound, Quiet, InFlight
  <2>3. ASSUME hook.type = "policy" PROVE dispatchResult(a).value \in {"allow", "deny"}
    <3>1. CASE settled[a].ok = TRUE
      BY <3>1, <2>1, <2>3 DEF AttemptIsSound, Accepted, dispatchResult
    <3>2. CASE settled[a].ok # TRUE
      BY <3>2, <2>3 DEF dispatchResult
    <3> QED
      BY <3>1, <3>2
  <2> QED
    BY <2>2, <2>3
<1> QED
  BY <1>1, Invariance, PTL

(* What a plugin's call does is done once and not lost: a retry repeats no *)
(* effect the plugin was told of, a provider is asked once, and concurrent *)
(* transactions lose no write to the key-value store                       *)
(* (readJournaledCapabilityCall, writeCapabilityCall, the rotating token   *)
(* provider's fallback, createKvStateProvider).                            *)
THEOREM EffectsOnce == Spec => []EffectsHappenOnce
<1>1. IInv => ToldEffectIsNotRepeated
  <2> SUFFICES ASSUME IInv, NEW a \in Attempts, NEW b \in Attempts, NEW i \in Indexes,
                      a < b, Successful(<<a, i>>)
               PROVE  /\ \A e \in effects : e.call # <<b, i>>
                      /\ Successful(<<b, i>>) => held[<<b, i>>].by = held[<<a, i>>].by
    BY DEF ToldEffectIsNotRepeated
  <2>1. CASE b <= 2
    BY <2>1 DEF IInv, RetryInv, RetryIsSound, Successful, EffectsOf
  <2>2. CASE ~(b <= 2)
    <3>1. AttemptIsSound(b) /\ CallIsSound(<<b, i>>)
      BY CallsArePairs DEF IInv, RuntimeInv, BrokerInv, Calls, Indexes
    <3>2. worker[b] = "none"
      <4>1. maxAttempts \in {1, 2} /\ b \in Nat
        BY AttemptsAreNumbers DEF maxAttempts
      <4>2. ~(b <= maxAttempts)
        BY <4>1, <2>2
      <4> QED
        BY <4>2, <3>1 DEF AttemptIsSound
    <3>3. phase[<<b, i>>] = "idle"
      BY <3>1, <3>2 DEF AttemptIsSound, Indexes
    <3> QED
      BY <3>1, <3>3 DEF CallIsSound, Unasked, EffectsOf, Successful
  <2> QED
    BY <2>1, <2>2
<1>2. IInv => AskedOnce
  BY DEF IInv, BrokerInv, CallIsSound, Unasked, EffectsOf, AskedOnce
<1>3. IInv => KvWritesKept
  BY DEF IInv, FacetInv
<1>4. IInv => EffectsHappenOnce
  BY <1>1, <1>2, <1>3 DEF EffectsHappenOnce
<1> QED
  BY <1>4, Invariance, PTL

(* Every answer of the broker is audited, once, and a credential goes only *)
(* to the origin it is for, among the origins the provider is configured   *)
(* with, redirected requests included                                      *)
(* (writeCapabilityAudit, createHttpFetchProvider).                        *)
THEOREM CallsAccounted == Spec => []CallsAreAccountedFor
<1>1. IInv => AnswerIsAudited
  <2> SUFFICES ASSUME IInv, NEW c \in Calls
               PROVE  /\ Successful(c) =>
                           {a.status : a \in {x \in audit : x.call = c}}
                             = (IF held[c].by = c THEN {"success"} ELSE {})
                      /\ Cardinality({a \in audit : a.call = c}) <= 1
    BY DEF AnswerIsAudited
  <2>1. CallIsSound(c)
    BY DEF IInv, BrokerInv
  <2>2. AuditOf(c) = {} \/ \E r \in AuditOf(c) : AuditOf(c) = {r}
    BY <2>1 DEF CallIsSound
  <2>3. Cardinality(AuditOf(c)) <= 1
    <3>1. CASE AuditOf(c) = {}
      BY <3>1, FS_EmptySet
    <3>2. CASE \E r \in AuditOf(c) : AuditOf(c) = {r}
      BY <3>2, FS_Singleton
    <3> QED
      BY <2>2, <3>1, <3>2
  <2>4. Successful(c) =>
          {a.status : a \in AuditOf(c)} = (IF held[c].by = c THEN {"success"} ELSE {})
    BY <2>1 DEF CallIsSound, Successful
  <2> QED
    BY <2>3, <2>4 DEF AuditOf
<1>2. IInv => CredentialStaysHome
  BY DEF IInv, BrokerInv, SentIsAllowed, CredentialStaysHome
<1>3. IInv => CallsAreAccountedFor
  BY <1>1, <1>2 DEF CallsAreAccountedFor
<1> QED
  BY <1>3, Invariance, PTL
=============================================================================
