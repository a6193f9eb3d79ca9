-------------------------- MODULE CapabilityScope --------------------------
(***************************************************************************)
(* What a capability grant admits (capabilities/src/index.ts): the input   *)
(* parsers, the normalisation of the values of a grant and assertScope.    *)
(* A text that fails its syntax check is Malformed, a field that is        *)
(* missing is None; a list in a grant is the sequence or set of its        *)
(* values.                                                                 *)
(***************************************************************************)
EXTENDS Naturals, FiniteSets, SequencesExt

CONSTANTS None, Malformed

Ok == "ok"
InputInvalid == "input_invalid"
ScopeDenied == "scope_denied"

Proper(value) == value \notin {None, Malformed}

-----------------------------------------------------------------------------
(* Addresses.  An origin is a scheme, the network its host is in and a     *)
(* name; a URL adds what its parser looks at.                              *)
PublicNetwork == "public"
isPublicHttpDestination(origin) ==
  origin.scheme \in {"https", "http"} /\ origin.network = PublicNetwork

parseHttpFetchUrl(url) ==
  IF url \in {None, Malformed} \/ url.credentials THEN InputInvalid ELSE Ok

assertHttpFetchDestination(url, allowedOrigins) ==
  IF isPublicHttpDestination(url.origin) /\ url.origin \in allowedOrigins THEN Ok ELSE ScopeDenied

normalizeHttpOrigins(urls) ==
  IF \E url \in urls : parseHttpFetchUrl(url) # Ok \/ ~url.bare \/ ~isPublicHttpDestination(url.origin)
  THEN Malformed
  ELSE {url.origin : url \in urls}

supportedHttpMethods == {"DELETE", "GET", "HEAD", "OPTIONS", "PATCH", "POST", "PUT"}

(* Headers by what isRoutingHttpHeader tells apart; credential headers can *)
(* still be supplied by the plugin.                                        *)
isRoutingHttpHeader(header) == header.kind = "routing"
isUnsafeCredentialHeader(header) == header.kind = "transport"

normalizeHttpGrantValues(values, kind) ==
  IF \/ None \in values \/ Malformed \in values
     \/ kind = "method" /\ ~(values \subseteq supportedHttpMethods)
     \/ kind = "request header" /\ \E header \in values : isRoutingHttpHeader(header)
  THEN Malformed ELSE values

-----------------------------------------------------------------------------
(* The parsers: an input is refused or passes unchanged.                   *)
parseSlackSendInput(input) == IF Proper(input.channel) /\ input.text # None THEN Ok ELSE InputInvalid

parseGitHubIssueCreateInput(input) ==
  IF Proper(input.repository) /\ Proper(input.title) /\ input.body # Malformed /\ ~input.extra
  THEN Ok ELSE InputInvalid

parseApprovalRequestInput(input) ==
  IF Proper(input.role) /\ Proper(input.resumeHook) /\ Proper(input.expiresAt) /\ input.subject # None
  THEN Ok ELSE InputInvalid

parseInvoiceReadInput(input) ==
  IF Proper(input.invoiceId) /\ input.tenantId # Malformed THEN Ok ELSE InputInvalid

parseKvStateInput(input) ==
  IF /\ input.operation \in {"get", "put", "delete"}
     /\ Proper(input.key) /\ input.key # <<>> /\ ~input.extra
     /\ IF input.operation = "put" THEN Proper(input.value) ELSE input.value = None
  THEN Ok ELSE InputInvalid

parseHttpFetchInput(input) ==
  IF /\ input.url # None /\ ~input.extra
     /\ input.method \in supportedHttpMethods
     /\ input.method \in {"GET", "HEAD"} => input.body = None
     /\ \A header \in input.headers : Proper(header) /\ ~isRoutingHttpHeader(header)
  THEN Ok ELSE InputInvalid

emailRecipientDomain(address) == IF Proper(address) THEN address.domain ELSE Malformed

parseEmailSendInput(input) ==
  IF /\ emailRecipientDomain(input.to) # Malformed
     /\ Proper(input.template) /\ ~input.extra
     /\ \A variable \in input.variables : Proper(variable)
  THEN Ok ELSE InputInvalid

-----------------------------------------------------------------------------
normalizeGitHubRepositoryGrant(repositories) ==
  IF repositories = <<>> \/ ~IsInjective(repositories) \/ Malformed \in ToSet(repositories)
  THEN Malformed ELSE ToSet(repositories)

normalizeEmailGrantValues(values) ==
  IF None \in values \/ Malformed \in values THEN Malformed ELSE values

normalizeKvStateGrantValues(values, kind) ==
  IF \/ Malformed \in values \/ None \in values
     \/ kind = "operation" /\ ~(values \subseteq {"get", "put", "delete"})
     \/ kind = "key prefix" /\ <<>> \in values
  THEN Malformed ELSE values

(* A list that must name the value, and one that restricts only when it is *)
(* not empty.                                                              *)
Names(values, value) == values # Malformed /\ value \in values
Restricts(values, value) == values # {} => value \in values

-----------------------------------------------------------------------------
(* assertScope, one operator per capability: what the grant must say of a  *)
(* parsed input.                                                           *)
slackScope(grant, input) == Restricts(grant.channel, input.channel)

githubScope(grant, input) ==
  Names(normalizeGitHubRepositoryGrant(grant.repositories), input.repository)

approvalsScope(grant, input) ==
  Restricts(grant.roles, input.role) /\ Restricts(grant.resumeHooks, input.resumeHook)

emailScope(grant, input) ==
  /\ Names(normalizeEmailGrantValues(grant.recipientDomains), emailRecipientDomain(input.to))
  /\ Names(normalizeEmailGrantValues(grant.templates), input.template)

httpScope(grant, input) ==
  LET origins == normalizeHttpOrigins(grant.origins)
      headers == normalizeHttpGrantValues(grant.requestHeaders, "request header")
  IN /\ origins # Malformed /\ assertHttpFetchDestination(input.url, origins) = Ok
     /\ Names(normalizeHttpGrantValues(grant.methods, "method"), input.method)
     /\ headers # Malformed /\ input.headers \subseteq headers

kvScope(grant, input) ==
  LET prefixes == normalizeKvStateGrantValues(grant.keyPrefixes, "key prefix") IN
  /\ Names(normalizeKvStateGrantValues(grant.operations, "operation"), input.operation)
  /\ prefixes # Malformed /\ \E prefix \in prefixes : IsPrefix(prefix, input.key)

Capabilities ==
  {"slack.send", "github.issue.create", "approvals.request", "email.send", "http.fetch", "kv.state",
   "invoice.read"}

Parse(name, input) ==
  CASE name = "slack.send" -> parseSlackSendInput(input)
    [] name = "github.issue.create" -> parseGitHubIssueCreateInput(input)
    [] name = "approvals.request" -> parseApprovalRequestInput(input)
    [] name = "email.send" -> parseEmailSendInput(input)
    [] name = "http.fetch" ->
         IF parseHttpFetchInput(input) = Ok THEN parseHttpFetchUrl(input.url) ELSE InputInvalid
    [] name = "kv.state" -> parseKvStateInput(input)
    [] name = "invoice.read" -> parseInvoiceReadInput(input)

Admits(name, grant, input) ==
  CASE name = "slack.send" -> slackScope(grant, input)
    [] name = "github.issue.create" -> githubScope(grant, input)
    [] name = "approvals.request" -> approvalsScope(grant, input)
    [] name = "email.send" -> emailScope(grant, input)
    [] name = "http.fetch" -> httpScope(grant, input)
    [] name = "kv.state" -> kvScope(grant, input)
    [] name = "invoice.read" -> TRUE

assertScope(name, grant, input) ==
  IF Parse(name, input) # Ok THEN InputInvalid
  ELSE IF Admits(name, grant, input) THEN Ok ELSE ScopeDenied

(* The fields of a result the grant lets through; an empty list lets all   *)
(* through.                                                                *)
applyResultScope(name, grant, result) ==
  IF name # "invoice.read" \/ grant.fields = {} THEN result
  ELSE result \cap grant.fields
=============================================================================
