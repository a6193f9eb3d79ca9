--------------------------- MODULE MCLocalRuntime ---------------------------
(* LocalRuntime for TLC: one grant per capability, and handlers that use   *)
(* each of them.                                                           *)
EXTENDS LocalRuntime

MCOrigin(name, network) == [scheme |-> "https", network |-> network, name |-> name]
MCUrl(origin) == [origin |-> origin, credentials |-> FALSE, bare |-> TRUE]
MCHome == MCOrigin("home", "public")
MCOther == MCOrigin("other", "public")
MCMetadata == MCOrigin("metadata", "link_local")
MCAuthHeader == [kind |-> "auth"]
MCEntityHeader == [kind |-> "entity"]

MCAllowedOrigins == {MCHome, MCOther}
MCAllowedMethods == {"GET", "POST"}
MCCredentials == [o \in {MCHome} |-> MCAuthHeader]
MCRedirectTargets == {MCUrl(MCOther), MCUrl(MCMetadata)}
MCSnapshots == {[active |-> "t1", candidate |-> "t2"], [active |-> "t1", candidate |-> None]}
MCTemplates == [t \in {"invoice"} |-> {"amount"}]
MCInvoiceOwner == [i \in {"i1", "i2"} |-> IF i = "i1" THEN "a" ELSE "b"]

MCGrants ==
  [name \in Capabilities |->
     CASE name = "slack.send" -> [channel |-> {"C1"}]
       [] name = "github.issue.create" -> [repositories |-> <<"r1">>]
       [] name = "approvals.request" -> [roles |-> {"owner"}, resumeHooks |-> {}]
       [] name = "email.send" -> [recipientDomains |-> {"d1"}, templates |-> {"invoice"}]
       [] name = "http.fetch" -> [origins |-> {MCUrl(MCHome)}, methods |-> {"POST"},
                                  requestHeaders |-> {MCAuthHeader, MCEntityHeader}]
       [] name = "kv.state" -> [operations |-> {"get", "put", "delete"}, keyPrefixes |-> {<<"p">>}]
       [] name = "invoice.read" -> [fields |-> {"amount"}]]
MCProviders == Capabilities
MCLimits == [n \in {"slack.send"} |-> 1]

Slack == [name |-> "slack.send", channel |-> "C1", text |-> "t", extra |-> FALSE]
SlackOutside == [Slack EXCEPT !.channel = "C2"]
GitHub == [name |-> "github.issue.create", repository |-> "r1", title |-> "t", body |-> None, extra |-> FALSE]
Approval == [name |-> "approvals.request", role |-> "owner", resumeHook |-> "h", expiresAt |-> 1, subject |-> "s"]
Email(vars_) == [name |-> "email.send", to |-> [domain |-> "d1"], template |-> "invoice",
                 variables |-> vars_, extra |-> FALSE]
Http(headers) == [name |-> "http.fetch", url |-> MCUrl(MCHome), method |-> "POST", headers |-> headers,
                  body |-> "b", extra |-> FALSE]
Kv(op, key, value) == [name |-> "kv.state", operation |-> op, key |-> <<"p", key>>, value |-> value,
                       extra |-> FALSE]
Invoice(id) == [name |-> "invoice.read", invoiceId |-> id, tenantId |-> None]
Ungranted == [name |-> "shell.exec"]

MCTries(type, first, second) == [type |-> type, tries |-> <<first, second>>]
MCHooks ==
  {MCTries("transform", <<Slack, Slack>>, <<>>),
   MCTries("event", <<GitHub>>, <<GitHub>>),
   MCTries("policy", <<Approval, SlackOutside>>, <<>>),
   MCTries("policy", <<Email({"amount"}), Email({})>>, <<>>),
   MCTries("event", <<Http({MCEntityHeader})>>, <<Http({MCAuthHeader})>>),
   MCTries("policy", <<Kv("put", "k1", 1), Kv("put", "k2", 1)>>, <<>>),
   MCTries("transform", <<Kv("put", "k1", 2), Kv("delete", "k1", None)>>, <<>>),
   MCTries("transform", <<Kv("get", "k1", None), Invoice("i2")>>, <<>>),
   MCTries("policy", <<Kv("put", "k1", None), Ungranted, Slack>>, <<>>),
   MCTries("event", <<Invoice("i1")>>, <<Invoice("i1")>>),
   MCTries("event", <<Invoice("i2")>>, <<Kv("put", "k1", 1)>>)}

MCConcurrentSlack == {MCTries("policy", <<Slack, Slack>>, <<>>)}
=============================================================================
