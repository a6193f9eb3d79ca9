------------------------------- MODULE AdminApi -------------------------------
(***************************************************************************)
(* The Admin API: the Worker entry (worker-entry.ts), which picks the      *)
(* database of the caller's app, and the HTTP handler (http-api.ts) with   *)
(* its routes. A request is taken apart at each await: resolving the       *)
(* credential for the route, resolving it again in the handler, reserving  *)
(* a change, and the calls of the stores. Requests run concurrently.       *)
(***************************************************************************)
EXTENDS AdminStores

CONSTANTS Slots,       \* bound: requests at a time
          Default      \* the database bound as DB

VARIABLES deployment,  \* what the Worker is configured with
          requests,    \* per slot: a request and how far it is
          sent,        \* how many requests were sent
          effects,     \* the store calls that changed something, or may have
          late         \* buckets reserved by a Worker that had read the time before another's reservation

api == <<deployment, requests, sent, effects, late>>

Idle == [phase |-> "idle"]

-----------------------------------------------------------------------------
(* The routes.                                                              *)

(***************************************************************************)
(* Isolation is what the contract of the endpoint says it is.              *)
(***************************************************************************)
endpoint(method, isolation) == [methods |-> {method}, isolation |-> isolation]

readEndpoints ==
    [session |-> endpoint("GET", "identity"),
     dashboard |-> endpoint("GET", "tenant-collection"),
     operations |-> endpoint("GET", "tenant-collection"),
     installations |-> endpoint("GET", "tenant-collection"),
     pluginVersions |-> endpoint("GET", "tenant-collection"),
     approvals |-> endpoint("GET", "tenant-collection"),
     executions |-> endpoint("GET", "tenant-collection"),
     auditEvents |-> endpoint("GET", "tenant-collection"),
     providerConnections |-> endpoint("GET", "tenant-collection"),
     installationReview |-> endpoint("GET", "tenant-resource"),
     installPreview |-> endpoint("GET", "tenant-resource"),
     executionDetail |-> endpoint("GET", "tenant-resource"),
     usage |-> endpoint("GET", "tenant-collection")]

changeEndpoints ==
    [slackOAuthInstallStart |-> endpoint("POST", "tenant-mutation"),
     installationCommand |-> endpoint("PATCH", "tenant-mutation"),
     installCreate |-> endpoint("POST", "tenant-mutation"),
     installRequestCreate |-> endpoint("POST", "tenant-mutation"),
     rollbackCreate |-> endpoint("POST", "tenant-mutation"),
     approvalDecisionCreate |-> endpoint("POST", "tenant-mutation"),
     serviceTokenCollection |-> [methods |-> {"POST", "DELETE"}, isolation |-> "tenant-mutation"]]

ADMIN_HTTP_ENDPOINT_CONTRACTS == readEndpoints @@ changeEndpoints

(***************************************************************************)
(* A review names its installation, or is no route at all.                 *)
(***************************************************************************)
matchAdminHttpEndpoint(r) ==
    /\ r.route \in DOMAIN ADMIN_HTTP_ENDPOINT_CONTRACTS
    /\ r.route = "installationReview" => r.query.id # None

methodAllowed(r) == r.method \in ADMIN_HTTP_ENDPOINT_CONTRACTS[r.route].methods

originAllowed(r) == r.origin = None \/ r.origin \in deployment.origins

-----------------------------------------------------------------------------
(* What a handler checks before it calls its store. "service" is what the   *)
(* deployment must have, or "unavailable" is answered.                      *)

Handler(service, unavailable, operation, forbidden) ==
    [service |-> service, unavailable |-> unavailable, operation |-> operation,
     forbidden |-> forbidden, invalid |-> None, keyed |-> FALSE, family |-> None]

AdminMutationFamily ==
    {"installation-command", "installation-create", "installation-request", "provider-oauth-start", "rollback",
     "approval-decision", "service-token-issue", "service-token-revoke"}

ASSUME FamilyAssumption == None \notin AdminMutationFamily

Change(handler, invalid, keyed, family) ==
    [handler EXCEPT !.invalid = invalid, !.keyed = keyed, !.family = family]

runInstallRequest ==
    Change(Handler("database", "install_request_store_unavailable", "installation:request",
                   "installation_request_forbidden"),
           "invalid_install_request", TRUE, "installation-request")

runServiceTokenIssue ==
    Change(Handler("tokens", "service_token_service_unavailable", "service-token:issue",
                   "service_token_issue_forbidden"),
           "invalid_service_token", FALSE, "service-token-issue")

runServiceTokenRevoke ==
    Change(Handler("tokens", "service_token_service_unavailable", "service-token:revoke",
                   "service_token_revoke_forbidden"),
           "invalid_service_token", FALSE, "service-token-revoke")

runInstall ==
    Change(Handler("database", "install_flow_store_unavailable", "installation:manage",
                   "installation_install_forbidden"),
           "invalid_install_request", TRUE, "installation-create")

runInstallationCommand ==
    Change(Handler("database", "installation_command_store_unavailable", "installation:manage",
                   "installation_command_forbidden"),
           "invalid_command", FALSE, "installation-command")

runRollback ==
    Change(Handler("database", "rollback_store_unavailable", "rollback:execute", "rollback_forbidden"),
           "invalid_rollback", TRUE, "rollback")

runApprovalDecision ==
    Change(Handler("database", "approval_store_unavailable", "approval:decide",
                   "approval_decision_forbidden"),
           "invalid_approval_decision", FALSE, "approval-decision")

(***************************************************************************)
(* The service is looked at after the caller and the request are.          *)
(***************************************************************************)
runSlackOAuthInstallStart ==
    Change(Handler("any", None, "provider-connection:manage", "slack_oauth_install_start_forbidden"),
           "slack_oauth_install_start_invalid_request", FALSE, "provider-oauth-start")

resolveSession == Handler("any", None, "session:read", "admin_scope_forbidden")

resolveInstallPreview ==
    Handler("database", "install_flow_store_unavailable", "installation:read", "installation_read_forbidden")

resolveInstallationDetail ==
    Handler("database", "installation_store_unavailable", "installation:read", "installation_read_forbidden")

resolveExecutionDetail ==
    Handler("database", "execution_store_unavailable", "execution:read", "execution_read_forbidden")

resolveUsage == Handler("database", "usage_meter_unavailable", "usage:read", "usage_forbidden")

resolveProviderConnections ==
    Handler("database", "provider_connection_store_unavailable", "dashboard:read",
            "provider_connections_forbidden")

resolveDashboard ==
    Handler("database", "dashboard_store_unavailable", "dashboard:read", "dashboard_forbidden")

(***************************************************************************)
(* The dispatch of the handler.                                            *)
(***************************************************************************)
handlerOf(r) ==
    CASE r.route = "installationCommand" -> runInstallationCommand
      [] r.route = "installCreate" -> runInstall
      [] r.route = "installRequestCreate" -> runInstallRequest
      [] r.route = "rollbackCreate" -> runRollback
      [] r.route = "approvalDecisionCreate" -> runApprovalDecision
      [] r.route = "serviceTokenCollection" ->
            IF r.method = "POST" THEN runServiceTokenIssue ELSE runServiceTokenRevoke
      [] r.route = "slackOAuthInstallStart" -> runSlackOAuthInstallStart
      [] r.route = "session" -> resolveSession
      [] r.route = "installPreview" -> resolveInstallPreview
      [] r.route = "executionDetail" -> resolveExecutionDetail
      [] r.route = "usage" -> resolveUsage
      [] r.route = "providerConnections" -> resolveProviderConnections
      [] r.route = "installationReview" -> resolveInstallationDetail
      [] OTHER -> resolveDashboard

isDashboard(r) == r.route \in {"dashboard", "operations"} \cup Sections

-----------------------------------------------------------------------------
(* What a request carries. A body is JSON or not, fits or not, and gives a  *)
(* command or, where it does not parse or is of another shape, None.        *)

(***************************************************************************)
(* The command of an installation changes its state, its priority or both. *)
(***************************************************************************)
isInstallationCommand(c) == c.expected >= 0 /\ (c.state # None \/ c.priority # None)

parseRollbackCommand(c) == c.expected >= 0

isInstallRequest(c) == c.enabled \in BOOLEAN /\ c.priority \in Int

parseApprovalDecision(c) == c.decision \in {"approved", "rejected"}

(***************************************************************************)
(* A role is given by its present name.                                    *)
(***************************************************************************)
parseServiceTokenIssue(c) ==
    normalizeRbacRole(c.role) = c.role /\ c.scopes \subseteq RBAC_OPERATIONS /\ c.expiresAt \in Int

wellFormed(r) ==
    CASE r.route = "installationCommand" -> isInstallationCommand(r.command)
      [] r.route = "rollbackCreate" -> parseRollbackCommand(r.command)
      [] r.route \in {"installCreate", "installRequestCreate"} -> isInstallRequest(r.command)
      [] r.route = "approvalDecisionCreate" -> parseApprovalDecision(r.command)
      [] OTHER -> parseServiceTokenIssue(r.command)

(***************************************************************************)
(* No body and a body that is not UTF-8 are invalid; more than the limit   *)
(* is too large.                                                           *)
(***************************************************************************)
readBoundedUtf8Body(r, invalid) ==
    IF r.body = "over" THEN "request_too_large" ELSE IF r.body = "none" THEN invalid ELSE None

parseBody(r, invalid) ==
    IF ~r.json THEN "unsupported_media_type"
    ELSE IF readBoundedUtf8Body(r, invalid) # None THEN readBoundedUtf8Body(r, invalid)
    ELSE IF r.command = None THEN invalid
    ELSE IF ~wellFormed(r) THEN invalid ELSE None

isIdempotencyKey(key) == key # None

isBoundedFilter(id) == id # None

(***************************************************************************)
(* A single id, and no other parameter.                                    *)
(***************************************************************************)
onlyId(r) == isBoundedFilter(r.query.id) /\ ~r.query.extra

dashboardLimit(limit) ==
    IF limit = None THEN DefaultLimit ELSE IF limit > MaxLimit THEN MaxLimit ELSE limit

validLimit(r) == r.query.limit = None \/ r.query.limit \in Nat \ {0}

(***************************************************************************)
(* No other parameter, none twice, and a known status.                     *)
(***************************************************************************)
executionFilters(r) ==
    /\ ~r.query.extra
    /\ r.query.filters.status \in ExecutionStatuses \cup {None}

executionFilterQuery(filters) == IF filters = NoFilters THEN None ELSE filters

canReadAppWideSchemaMigrations(who) == normalizeRbacRole(who.role) \in {"owner", "admin"}

(***************************************************************************)
(* What is wrong with a request of a caller who may ask it.                *)
(***************************************************************************)
badRequest(r) ==
    LET handler == handlerOf(r) IN
    CASE r.route = "slackOAuthInstallStart" ->
            IF r.body # "none" \/ r.query.extra THEN handler.invalid
            ELSE IF deployment.start # "complete" THEN "slack_oauth_install_start_unavailable" ELSE None
      [] handler = runServiceTokenRevoke -> IF onlyId(r) THEN None ELSE handler.invalid
      [] handler.family # None /\ handler # runServiceTokenRevoke /\ r.route # "slackOAuthInstallStart" ->
            LET bad == parseBody(r, handler.invalid) IN
            IF bad # None THEN bad
            ELSE IF handler.keyed /\ ~isIdempotencyKey(r.key) THEN "invalid_idempotency_key" ELSE None
      [] r.route = "installPreview" -> IF r.query.id = None THEN "invalid_version" ELSE None
      [] r.route = "executionDetail" -> IF onlyId(r) THEN None ELSE "invalid_execution_id"
      [] r.route = "usage" -> IF r.query.range THEN None ELSE "invalid_usage_query"
      [] OTHER -> None

statusOf(code) ==
    CASE code = "unsupported_media_type" -> 415
      [] code = "request_too_large" -> 413
      [] code = "slack_oauth_install_start_unavailable" -> 503
      [] OTHER -> 400

-----------------------------------------------------------------------------
(* The deployment.                                                          *)

(***************************************************************************)
(* Origins are https, or http on the loopback; a wildcard is refused.      *)
(***************************************************************************)
createAllowedOriginSet(origins) == origins \cap {"wildcard", "insecure"} = {}

(***************************************************************************)
(* Slack's bindings come together or not at all. The callback needs a      *)
(* database and the bindings of the start.                                 *)
(***************************************************************************)
validSlack(d) ==
    /\ d.start # "incomplete" /\ d.callback # "incomplete"
    /\ d.callback = "complete" => d.start = "complete" /\ (d.db \/ d.routes # None)

validConfiguration(d) ==
    /\ createAllowedOriginSet(d.origins) /\ validSlack(d)
    /\ d.cursor # "short" /\ d.catalog /\ (d.limiter => d.limits)

hasIdentityResolver(d) == d.db \/ d.identities

(***************************************************************************)
(* With DB bound, service tokens come first; without it only the bootstrap *)
(* identities are left, whatever the credential looks like.                *)
(***************************************************************************)
identify(credential) ==
    IF ~deployment.db THEN {createStaticTokenIdentityResolver(credential)}
    ELSE IF deployment.identities \/ isServiceTokenCredential(credential) THEN resolveToken(credential)
    ELSE {NotFound}

-----------------------------------------------------------------------------
(* A request's way through the Worker.                                      *)

Answer(status, code, value) == [status |-> status, code |-> code, value |-> value]

answered(r, answer) ==
    IF r.gone THEN Idle
    ELSE [phase |-> "answered", n |-> r.n, route |-> r.route, who |-> r.who, database |-> r.database,
          answer |-> answer]

Respond(c, answer) == requests' = [requests EXCEPT ![c] = answered(@, answer)]

Fail(c, status, code) == Respond(c, Answer(status, code, None))

Advance(c, phase) == requests' = [requests EXCEPT ![c].phase = phase]

at(c, phase) == requests[c].phase = phase

untouched == UNCHANGED <<clock, tokens, buckets, rows, keys, deployment, sent, effects, late>>

(***************************************************************************)
(* A request as it arrives. Its fields are those of the form the client    *)
(* filled in.                                                              *)
(***************************************************************************)
fresh(form) ==
    [method |-> form.method, route |-> form.route, origin |-> form.origin, credential |-> form.credential,
     json |-> form.json, body |-> form.body, command |-> form.command, key |-> form.key, query |-> form.query,
     phase |-> "arrived", n |-> sent, gone |-> FALSE, database |-> None, who |-> None, spent |-> FALSE,
     identified |-> 0, now |-> 0, start |-> None, step |-> None, pages |-> <<>>]

Send(c, form) == sent' = sent + 1 /\ requests' = [requests EXCEPT ![c] = fresh(form)]

(***************************************************************************)
(* Whether the database of the caller's app has to be found first.         *)
(***************************************************************************)
routable(r) == /\ matchAdminHttpEndpoint(r) /\ r.method # "OPTIONS" /\ methodAllowed(r)
               /\ originAllowed(r)

Fetch(c) ==
    LET r == requests[c] IN
    /\ at(c, "arrived") /\ untouched
    /\ \/ deployment.routes = "invalid" /\ Fail(c, 503, "admin_configuration_unavailable")
       \/ /\ deployment.routes = None
          /\ requests' = [requests EXCEPT ![c].phase = "handling",
                                          ![c].database = IF deployment.db THEN Default ELSE None]
       \/ deployment.routes = "valid" /\ ~routable(r) /\ Advance(c, "handling")
       \/ /\ deployment.routes = "valid" /\ routable(r)
          /\ IF r.credential = None THEN Fail(c, 401, "unauthorized")
             ELSE IF ~hasIdentityResolver(deployment) THEN Fail(c, 503, "identity_resolver_unavailable")
             ELSE Advance(c, "routing")

(***************************************************************************)
(* The caller's app decides; an app without a route never gets another     *)
(* database.                                                               *)
(***************************************************************************)
resolveRequestDatabase(c) ==
    LET r == requests[c] IN
    /\ at(c, "routing") /\ untouched
    /\ \E found \in identify(r.credential) :
          \/ found = Thrown /\ Fail(c, 503, "admin_configuration_unavailable")
          \/ found = NotFound /\ Fail(c, 401, "unauthorized")
          \/ /\ found.kind = "identity" /\ found.who.app = None
             /\ Advance(c, "handling")
          \/ /\ found.kind = "identity" /\ found.who.app # None
             /\ IF databaseOf(found.who.app) = None THEN Fail(c, 503, "app_database_unavailable")
                ELSE requests' = [requests EXCEPT ![c].phase = "handling",
                                                 ![c].database = databaseOf(found.who.app)]

serviceBound(r) ==
    LET service == handlerOf(r).service IN
    service = "any" \/ (service = "database" /\ r.database # None) \/ (service = "tokens" /\ deployment.db)

NoRefusal == Answer(0, None, None)

(***************************************************************************)
(* Everything the handler refuses before its first await.                  *)
(***************************************************************************)
createControlPlaneHttpHandler(r) ==
    IF ~originAllowed(r) THEN Answer(403, "origin_forbidden", None)
    ELSE IF ~matchAdminHttpEndpoint(r) THEN Answer(404, "route_not_found", None)
    ELSE IF r.method = "OPTIONS"
         THEN IF r.origin = None THEN Answer(403, "origin_required", None) ELSE Answer(204, None, None)
    ELSE IF ~methodAllowed(r) THEN Answer(405, "method_not_allowed", None)
    ELSE IF ~serviceBound(r) THEN Answer(503, handlerOf(r).unavailable, None)
    ELSE IF isDashboard(r) /\ ~validLimit(r) THEN Answer(400, "invalid_limit", None)
    ELSE IF ~hasIdentityResolver(deployment) THEN Answer(503, "identity_resolver_unavailable", None)
    ELSE IF r.credential = None THEN Answer(401, "unauthorized", None)
    ELSE NoRefusal

(***************************************************************************)
(* "spent" is a history of the model: the request's token was revoked      *)
(* before the handler asked for it.                                        *)
(***************************************************************************)
Handle(c) ==
    /\ at(c, "handling") /\ untouched
    /\ \/ ~validConfiguration(deployment) /\ Fail(c, 503, "admin_configuration_unavailable")
       \/ /\ validConfiguration(deployment)
          /\ LET refusal == createControlPlaneHttpHandler(requests[c]) IN
             IF refusal # NoRefusal THEN Respond(c, refusal)
             ELSE requests' = [requests EXCEPT ![c].phase = "identifying",
                                               ![c].spent = isRevoked(requests[c].credential)]

(***************************************************************************)
(* A cursor is good for the caller, section and search it was given for.   *)
(***************************************************************************)
cursorRefused(r, who) ==
    /\ r.route \in Sections /\ r.query.cursor # None
    /\ \/ ~isCursorPayload(r.query.cursor)
       \/ ~cursorIsFor(r.query.cursor, who, r.route,
                       IF r.route = "executions" THEN executionFilterQuery(r.query.filters) ELSE None)

(***************************************************************************)
(* What the dashboard refuses of a caller who may read it.                 *)
(***************************************************************************)
dashboardRefusal(r, who) ==
    IF r.route = "operations" THEN None
    ELSE IF deployment.cursor = "none" THEN Answer(503, "cursor_service_unavailable", None)
    ELSE IF r.route = "executions" /\ ~executionFilters(r) THEN Answer(400, "invalid_execution_filter", None)
    ELSE IF cursorRefused(r, who) THEN Answer(400, "invalid_cursor", None)
    ELSE None

(***************************************************************************)
(* The caller, once more; then what the role and scopes allow; then the    *)
(* request itself.                                                         *)
(***************************************************************************)
resolveAdminIdentity(c) ==
    LET r == requests[c]
        handler == handlerOf(r)
        admit(who) ==
            IF ~isTenantScopedAdminIdentity(who) THEN Fail(c, 403, "admin_scope_forbidden")
            ELSE IF ~requireRbac(who, handler.operation) THEN Fail(c, 403, handler.forbidden)
            ELSE IF badRequest(r) # None THEN Fail(c, statusOf(badRequest(r)), badRequest(r))
            ELSE IF isDashboard(r) /\ dashboardRefusal(r, who) # None THEN Respond(c, dashboardRefusal(r, who))
            ELSE IF r.route = "session" THEN Respond(c, Answer(200, None, who))
            ELSE requests' = [requests EXCEPT ![c].who = who, ![c].identified = clock, ![c].now = clock,
                                ![c].phase = IF handler.family = None THEN "working" ELSE "reserving",
                                ![c].step = IF r.route = "dashboard" THEN Sections \ {"auditEvents"} ELSE None]
    IN /\ at(c, "identifying") /\ untouched
       /\ \E found \in identify(r.credential) :
             \/ found = Thrown /\ Fail(c, 500, "internal_error")
             \/ found = NotFound /\ Fail(c, 401, "unauthorized")
             \/ found.kind = "identity" /\ admit(found.who)

unavailable(c) == Fail(c, 503, "admin_mutation_rate_limit_unavailable")

(***************************************************************************)
(* A change is reserved before its store is called; a limiter that is not  *)
(* there or fails refuses it. Its answer may be lost after it counted.     *)
(***************************************************************************)
reserveAdminMutation(c) ==
    LET r == requests[c]
        bucket == rateLimitBucketId(r.who, handlerOf(r).family)
        current == windowOf(bucket)
    IN /\ at(c, "reserving")
       /\ UNCHANGED <<clock, tokens, rows, keys, deployment, sent, effects>>
       /\ \/ unavailable(c) /\ UNCHANGED <<buckets, late>>
          \/ /\ deployment.limiter
             /\ reserve(bucket, r.now)
             /\ late' = late \cup {b \in {bucket} : current # None /\ current.start > r.now}
             /\ \/ unavailable(c)
                \/ IF reservationCount(bucket, r.now) > Limit
                   THEN Respond(c, Answer(429, "admin_mutation_rate_limited", retryAfter(bucket, r.now)))
                   ELSE requests' = [requests EXCEPT ![c].phase = "working", ![c].now = clock,
                          ![c].start = evaluateFixedWindowReservation(current, r.now).record.start]

-----------------------------------------------------------------------------
(* Reads.                                                                   *)

internalError(c) == Fail(c, 500, "internal_error")

notFoundUnless(c, condition, code, value) ==
    IF condition THEN Respond(c, Answer(200, None, value)) ELSE Fail(c, 404, code)

reads == UNCHANGED <<clock, tokens, buckets, rows, keys, deployment, sent, effects, late>>

working(c, route) == at(c, "working") /\ requests[c].route = route

ReadDetail(c) ==
    LET r == requests[c] IN
    /\ at(c, "working") /\ reads
    /\ r.route \in {"operations", "usage", "providerConnections", "installationReview",
                    "installPreview", "executionDetail"}
    /\ \/ internalError(c)
       \/ /\ r.route = "operations"
          /\ Respond(c, Answer(200, None, readOperationalHealth(r.database, r.who, r.now)))
       \/ /\ r.route = "usage"
          /\ Respond(c, Answer(200, None, readUsageSummary(r.database, r.who, r.now)))
       \/ r.route = "providerConnections" /\ Respond(c, Answer(200, None, None))
       \/ /\ r.route = "installationReview"
          /\ LET found == readInstallation(r.database, r.who, r.query.id) IN
             notFoundUnless(c, found # {}, "installation_not_found", found)
       \/ /\ r.route = "installPreview"
          /\ notFoundUnless(c, readVersion(r.who, r.query.id), "plugin_version_not_found",
                            Versions[r.query.id].capabilities)
       \/ /\ r.route = "executionDetail"
          /\ LET found == readExecution(r.database, r.who, r.query.id) IN
             notFoundUnless(c, found # {}, "execution_not_found", found)

(***************************************************************************)
(* A page, and the cursor of the next one.                                 *)
(***************************************************************************)
serializeSectionPage(page, who, section, query) ==
    [items |-> page.items,
     cursor |-> IF page.next = None THEN None
                ELSE createAdminCursorCodec_encode(who, section, page.next, query)]

ReadSection(c) ==
    LET r == requests[c]
        filters == IF r.route = "executions" THEN r.query.filters ELSE NoFilters
        position == IF r.query.cursor = None THEN None ELSE r.query.cursor.position
        page == readSection(r.database, r.who, r.route, dashboardLimit(r.query.limit), position, filters)
    IN /\ at(c, "working") /\ r.route \in Sections /\ reads
       /\ \/ internalError(c)
          \/ /\ ~corruptPage(page)
             /\ Respond(c, Answer(200, None,
                           serializeSectionPage(page, r.who, r.route, executionFilterQuery(filters))))

withPage(pages, section, page) ==
    [s \in DOMAIN pages \cup {section} |-> IF s = section THEN page ELSE pages[s]]

(***************************************************************************)
(* The sections of the dashboard are read side by side, each by a query of *)
(* its own.                                                                *)
(***************************************************************************)
ReadDashboard(c) ==
    LET r == requests[c] IN
    /\ working(c, "dashboard") /\ reads
    /\ \/ internalError(c)
       \/ \E section \in r.step :
             LET page == readSection(r.database, r.who, section, dashboardLimit(r.query.limit), None, NoFilters)
             IN /\ ~corruptPage(page)
                /\ requests' = [requests EXCEPT ![c].step = @ \ {section},
                      ![c].pages = withPage(@, section, serializeSectionPage(page, r.who, section, None))]
       \/ /\ r.step = {}
          /\ Respond(c, Answer(200, None,
               [sections |-> r.pages, usage |-> readUsageSummary(r.database, r.who, r.now),
                migrations |-> canReadAppWideSchemaMigrations(r.who)]))

-----------------------------------------------------------------------------
(* Changes.                                                                 *)

(***************************************************************************)
(* What a store call of this request has changed. A key that the handler   *)
(* does not ask for is not looked at.                                      *)
(***************************************************************************)
effectOf(r) ==
    [n |-> r.n, route |-> r.route, operation |-> handlerOf(r).operation, credential |-> r.credential,
     app |-> r.who.app, tenant |-> r.who.tenant, database |-> r.database,
     key |-> IF handlerOf(r).keyed THEN r.key ELSE None, now |-> r.now, identified |-> r.identified, spent |-> r.spent,
     bucket |-> rateLimitBucketId(r.who, handlerOf(r).family), start |-> r.start]

effect(r) == effects' = effects \cup {effectOf(r)}

stable == UNCHANGED <<clock, buckets, deployment, sent, late>>

unchanged == stable /\ UNCHANGED <<tokens, rows, keys, effects>>

refusalStatus(outcome) ==
    CASE outcome \in {"not_found", "approval_not_found"} -> 404
      [] outcome \in {"service_token_role_escalation", "service_token_scope_forbidden",
                      "approval_role_forbidden"} -> 403
      [] outcome \in {"conflict", "same_version", "key_reused", "approval_already_decided",
                      "approval_expired"} -> 409
      [] OTHER -> 400

refuse(c, outcome) == Fail(c, refusalStatus(outcome), outcome)

(***************************************************************************)
(* Bound: an id is left for the audit event.                               *)
(***************************************************************************)
change(c, result) ==
    /\ freshIds(requests[c].database, "auditEvents") # {}
    /\ write(requests[c].database, result.new)
    /\ effect(requests[c])
    /\ stable /\ UNCHANGED tokens

(***************************************************************************)
(* A change without a key. When D1 takes it and its acknowledgement is     *)
(* lost, the store reads the row again and reports its own change as       *)
(* another's.                                                              *)
(***************************************************************************)
unkeyed(c, result, again) ==
    \/ internalError(c) /\ unchanged
    \/ result.outcome # "done" /\ refuse(c, result.outcome) /\ unchanged
    \/ result.outcome = "done" /\ result.new = {} /\ Respond(c, Answer(200, None, result.row)) /\ unchanged
    \/ /\ result.outcome = "done" /\ result.new # {} /\ change(c, result) /\ UNCHANGED keys
       /\ Respond(c, Answer(200, None, result.row)) \/ refuse(c, again) \/ internalError(c)

installationCommandStore_updateInstallation(c) ==
    LET r == requests[c] IN
    working(c, "installationCommand")
    /\ unkeyed(c, updateInstallation(r.database, r.who, r.command), "conflict")

approvalDecisionStore_decide(c) ==
    LET r == requests[c] IN
    /\ working(c, "approvalDecisionCreate")
    /\ \E id \in freshIds(r.database, "installations") :
          unkeyed(c, decide(r.database, id, r.who, r.command), "approval_already_decided")

(***************************************************************************)
(* A change with a key: a record of the key answers, and it is read again  *)
(* when the acknowledgement is lost.                                       *)
(***************************************************************************)
keyedChange(c, kind, success, result) ==
    LET r == requests[c]
        known == recordOf(r.database, kind, r.who, r.key, r.now)
        replay == resolveReplay(CHOOSE k \in known : TRUE, r.command)
    IN \/ internalError(c) /\ unchanged
       \/ /\ known # {} /\ unchanged
          /\ IF replay.outcome = "done" THEN Respond(c, Answer(success, None, replay.row))
             ELSE refuse(c, replay.outcome)
       \/ known = {} /\ result.outcome # "done" /\ refuse(c, result.outcome) /\ unchanged
       \/ /\ known = {} /\ result.outcome = "done" /\ change(c, result)
          /\ remember(r.database, kind, r.who, r.key, r.command, result.row, r.now)
          /\ Respond(c, Answer(success, None, result.row)) \/ internalError(c)

rollbackStore_rollback(c) ==
    LET r == requests[c] IN
    working(c, "rollbackCreate")
    /\ keyedChange(c, "rollback", 200, rollback(r.database, r.who, r.command))

installRequestStore_requestInstallation(c) ==
    LET r == requests[c] IN
    /\ working(c, "installRequestCreate")
    /\ \E id \in freshIds(r.database, "approvals") :
          keyedChange(c, "request", 201, requestInstallation(id, r.who, r.command))

-----------------------------------------------------------------------------
(* The install, call by call.                                               *)

answerByRecord(c, records) ==
    LET replay == resolveReplay(CHOOSE k \in records : TRUE, requests[c].command) IN
    IF replay.outcome = "done" THEN Respond(c, Answer(201, None, replay.row)) ELSE refuse(c, replay.outcome)

installRecords(r) == recordOf(r.database, "install", r.who, r.key, r.now)

install(c) ==
    /\ working(c, "installCreate") /\ unchanged
    /\ \/ internalError(c)
       \/ installRecords(requests[c]) # {} /\ answerByRecord(c, installRecords(requests[c]))
       \/ installRecords(requests[c]) = {} /\ Advance(c, "proposing")

install_Propose(c) ==
    LET refusal == resolveAdminInstallProposal(requests[c].who, requests[c].command) IN
    /\ at(c, "proposing") /\ unchanged
    /\ \/ internalError(c)
       \/ IF refusal = None THEN Advance(c, "writing") ELSE refuse(c, refusal)

(***************************************************************************)
(* Mutated: the record of the key is not a primary key of its table.       *)
(***************************************************************************)
installBatch_AnyKey(c, id) ==
    LET r == requests[c]
        installation == proposedRow("installations", id, r.who, r.command,
                                    IF r.command.enabled THEN "enabled" ELSE "disabled")
    IN /\ change(c, Written(r.database, installation, "install"))
       /\ remember(r.database, "install", r.who, r.key, r.command, installation, r.now)

(***************************************************************************)
(* One batch: an expired record goes, the installation, its audit event    *)
(* and the record are inserted; a record of the key that is there fails    *)
(* all of it.                                                              *)
(***************************************************************************)
installBatch(c, id) ==
    LET r == requests[c]
        installation == proposedRow("installations", id, r.who, r.command,
                                    IF r.command.enabled THEN "enabled" ELSE "disabled")
    IN /\ installRecords(r) = {}
       /\ change(c, Written(r.database, installation, "install"))
       /\ remember(r.database, "install", r.who, r.key, r.command, installation, r.now)

install_Write(c) ==
    /\ at(c, "writing")
    /\ \/ Advance(c, "recovering") /\ unchanged
       \/ \E id \in freshIds(requests[c].database, "installations") :
             /\ installBatch(c, id)
             /\ \/ Respond(c, Answer(201, None, proposedRow("installations", id, requests[c].who,
                     requests[c].command, IF requests[c].command.enabled THEN "enabled" ELSE "disabled")))
                \/ Advance(c, "recovering")

(***************************************************************************)
(* After a failed batch the record of a concurrent winner, or of the batch *)
(* itself, answers.                                                        *)
(***************************************************************************)
install_Recover(c) ==
    /\ at(c, "recovering") /\ unchanged
    /\ \/ internalError(c)
       \/ installRecords(requests[c]) # {} /\ answerByRecord(c, installRecords(requests[c]))

-----------------------------------------------------------------------------
(* Service tokens and the start of Slack's installation.                    *)

tokenRoute(c, method) == working(c, "serviceTokenCollection") /\ requests[c].method = method

serviceTokenManager_issue(c) ==
    LET r == requests[c]
        refusal == assertValidIssue(r.who, r.command)
    IN /\ tokenRoute(c, "POST")
       /\ \/ refusal # None /\ refuse(c, refusal) /\ unchanged
          \/ refusal = None /\ internalError(c) /\ unchanged
          \/ /\ refusal = None /\ unusedTokenIds # {}
             /\ tokens' = tokens \cup {tokenRecord(r.who, r.command)}
             /\ effect(r) /\ stable /\ UNCHANGED stores
             /\ \/ Respond(c, Answer(201, None, tokenRecord(r.who, r.command).credential))
                \/ internalError(c)

(***************************************************************************)
(* The store looks for the token, then revokes it with the time that was   *)
(* read before it looked.                                                  *)
(***************************************************************************)
serviceTokenManager_revoke(c) ==
    LET r == requests[c] IN
    /\ tokenRoute(c, "DELETE") /\ unchanged
    /\ \/ internalError(c)
       \/ ~tokenExists(r.query.id, r.who) /\ Fail(c, 404, "service_token_not_found")
       \/ tokenExists(r.query.id, r.who) /\ Advance(c, "revoking")

revoke_Update(c) ==
    LET r == requests[c] IN
    /\ at(c, "revoking")
    /\ \/ internalError(c) /\ unchanged
       \/ /\ revokeToken(r.query.id, r.who, r.now)
          /\ effect(r) /\ stable /\ UNCHANGED stores
          /\ Respond(c, Answer(204, None, None)) \/ internalError(c)

(***************************************************************************)
(* SlackConnection models what the start keeps; here it is a call that is  *)
(* made or fails.                                                          *)
(***************************************************************************)
slackOAuthInstallStartService_start(c) ==
    /\ working(c, "slackOAuthInstallStart")
    /\ effect(requests[c]) /\ stable /\ UNCHANGED <<tokens, stores>>
    /\ \/ Fail(c, 503, "slack_oauth_install_start_unavailable")
       \/ Respond(c, Answer(201, None, None))

-----------------------------------------------------------------------------
Reading(c) == ReadDetail(c) \/ ReadSection(c) \/ ReadDashboard(c)

Changing(c) ==
    \/ installationCommandStore_updateInstallation(c) \/ approvalDecisionStore_decide(c)
    \/ rollbackStore_rollback(c) \/ installRequestStore_requestInstallation(c)
    \/ install(c) \/ install_Propose(c) \/ install_Write(c) \/ install_Recover(c)
    \/ serviceTokenManager_issue(c) \/ serviceTokenManager_revoke(c) \/ revoke_Update(c)
    \/ slackOAuthInstallStartService_start(c)

Serve(c) ==
    \/ Fetch(c) \/ resolveRequestDatabase(c) \/ Handle(c) \/ resolveAdminIdentity(c)
    \/ reserveAdminMutation(c) \/ Reading(c) \/ Changing(c)
==============================================================================
