------------------------------ MODULE MCConsole -------------------------------
(***************************************************************************)
(* Instances of AdminConsole: two tenants of app "a", one of "b" and one   *)
(* of "c", which has no database of its own. Each scenario is about one    *)
(* part of the console or of the API.                                      *)
(***************************************************************************)
EXTENDS AdminConsole

MCAppOf == [t1 |-> "a", t2 |-> "a", t3 |-> "b", t4 |-> "c"]

MCAppRoutes == {[app |-> "a", database |-> "dbA"], [app |-> "b", database |-> "dbB"]}

MCVersions == <<[app |-> "a", plugin |-> "p", capabilities |-> {"c"}],
                [app |-> "a", plugin |-> "p", capabilities |-> {}],
                [app |-> "b", plugin |-> "q", capabilities |-> {}]>>

plain(n) == [managed |-> FALSE, n |-> n]

(***************************************************************************)
(* A managed credential that is also among the bootstrap identities is     *)
(* ServiceCredential(2).                                                   *)
(***************************************************************************)
MCBootstrap ==
    plain(1) :> Identity("alice", "owner", "a", "t1", None)
    @@ plain(2) :> Identity("oscar", "operator", "a", "t1", None)
    @@ plain(3) :> Identity("bella", "manager", "b", "t3", None)
    @@ plain(4) :> Identity("chris", "admin", "c", "t4", None)
    @@ plain(5) :> Identity("nobody", "viewer", "a", None, None)
    @@ ServiceCredential(2) :> Identity("duplicate", "owner", "a", "t1", None)

R(section, id, tenant, name, state, time, of) ==
    [section |-> section, id |-> id, tenant |-> tenant, app |-> MCAppOf[tenant], version |-> name,
     plugin |-> MCVersions[name].plugin, state |-> state, priority |-> 0, revision |-> 0,
     at |-> time, of |-> of]

installation(id, tenant) == R("installations", id, tenant, 1, "enabled", 0, id)
version(id, name) == R("pluginVersions", id, "t1", name, "published", 0, id)
approval(id) == R("approvals", id, "t1", 1, "pending", 0, id)
execution(id, status) == R("executions", id, "t1", 1, status, 0, id)

tables(a) == [dbA |-> a, dbB |-> {R("installations", 1, "t3", 3, "enabled", 0, 1)}, DB |-> {}]

deployed == [db |-> TRUE, routes |-> "valid", identities |-> TRUE, limiter |-> TRUE, limits |-> TRUE,
             cursor |-> "long", start |-> "complete", callback |-> "complete", catalog |-> TRUE,
             origins |-> {"console"}]

nothing == [name |-> "nothing", users |-> {}, forms |-> {}, credentials |-> {}, searches |-> {}, max |-> 0,
            deployment |-> deployed, tokens |-> {}, rows |-> tables({}), credential |-> None,
            database |-> "dbA", tenant |-> "t1", version |-> 1, revisions |-> 0,
            executions |-> 0, until |-> 0]

ask(method, route, credential) ==
    [method |-> method, route |-> route, origin |-> None, credential |-> credential, json |-> TRUE,
     body |-> IF method = "GET" THEN "none" ELSE "fits", command |-> None, key |-> None, query |-> NoQuery]

order(method, route, credential, command) ==
    [ask(method, route, credential) EXCEPT !.command = command]

keyed(form, key) == [form EXCEPT !.key = key]

about(form, id) == [form EXCEPT !.query.id = id]

rightsOf(role, scopes, expiresAt) == [role |-> role, scopes |-> scopes, expiresAt |-> expiresAt]

-----------------------------------------------------------------------------
(* Service tokens: issued, used, revoked; two stored ones, one expired and  *)
(* one of a role that is no more.                                           *)

issued(n, role, revokedAt, expiresAt) ==
    [id |-> n, credential |-> ServiceCredential(n), role |-> role, app |-> "a", tenant |-> "t1",
     scopes |-> {"installation:manage"}, by |-> "alice", createdAt |-> 0, expiresAt |-> expiresAt,
     revokedAt |-> revokedAt, revokedBy |-> IF revokedAt = None THEN None ELSE "alice"]

change1(credential) == order("PATCH", "installationCommand", credential,
                             [id |-> 1, expected |-> 0, state |-> "disabled", priority |-> None])

revocationScenario ==
    [nothing EXCEPT !.name = "revocation", !.max = 3, !.until = 1,
       !.rows = tables({installation(1, "t1")}), !.tokens = {issued(1, "admin", None, 2)},
       !.forms = {change1(ServiceCredential(1))}
            \cup {about(ask("DELETE", "serviceTokenCollection", plain(1)), n) : n \in {1, 9}}]

tokensScenario ==
    [nothing EXCEPT !.name = "tokens", !.max = 2, !.until = 1,
       !.rows = tables({installation(1, "t1"), installation(2, "t2"), approval(1)}),
       !.tokens = {issued(1, "admin", None, 1), issued(2, "admin", 0, 2), issued(3, "manager", None, 2)},
       !.forms = {change1(ServiceCredential(n)) : n \in 1..4}
            \cup {order("POST", "approvalDecisionCreate", ServiceCredential(1), [id |-> 1, decision |-> "rejected"])}
            \cup {order("POST", "serviceTokenCollection", plain(1), rightsOf(role, scopes, 1)) :
                    role \in {"tenant-admin", "operator"},
                    scopes \in {{"installation:manage"}, {"service-token:issue"}}}]

-----------------------------------------------------------------------------
(* Every route, refused at every turn.                                      *)

proposal(name, enabled) == [version |-> name, config |-> TRUE, confirmed |-> MCVersions[name].capabilities,
                            enabled |-> enabled, priority |-> 1]

goodForms ==
    {about(ask("GET", route, plain(1)), 1) : route \in DOMAIN readEndpoints \ {"installPreview"}}
    \cup {about(ask("GET", "installPreview", plain(1)), 1),
          change1(plain(1)),
          keyed(order("POST", "installCreate", plain(1), proposal(1, TRUE)), 1),
          keyed(order("POST", "installRequestCreate", plain(1), proposal(3, TRUE)), 1),
          keyed(order("POST", "rollbackCreate", plain(1), [id |-> 1, version |-> 2, expected |-> 0]), 1),
          order("POST", "approvalDecisionCreate", plain(1), [id |-> 1, decision |-> "rejected"]),
          order("POST", "serviceTokenCollection", plain(1), rightsOf("viewer", {"usage:read"}, 1)),
          about(ask("DELETE", "serviceTokenCollection", plain(1)), 1),
          [ask("POST", "slackOAuthInstallStart", plain(1)) EXCEPT !.body = "none"]}

(***************************************************************************)
(* What may be wrong with a request.                                       *)
(***************************************************************************)
variants(form) ==
    {form, [form EXCEPT !.json = FALSE], [form EXCEPT !.command = None], [form EXCEPT !.key = None],
     [form EXCEPT !.query.extra = TRUE], [form EXCEPT !.query.id = None], [form EXCEPT !.query.range = FALSE],
     [form EXCEPT !.query.filters.status = "unknown"], [form EXCEPT !.route = "nowhere"],
     [form EXCEPT !.query.cursor = [app |-> "a", tenant |-> "t1", section |-> form.route, position |-> <<0, 1>>,
                                    query |-> None, signed |-> FALSE]]}
    \cup {[form EXCEPT !.body = body] : body \in {"none", "over"}}
    \cup {[form EXCEPT !.method = method] : method \in {"OPTIONS", "PUT"}}
    \cup {[form EXCEPT !.method = "OPTIONS", !.origin = "console"]}
    \cup {[form EXCEPT !.origin = origin] : origin \in {"console", "elsewhere"}}
    \cup {[form EXCEPT !.query.limit = limit] : limit \in {0, 9}}
    \cup {[form EXCEPT !.credential = c] : c \in {None} \cup {plain(n) : n \in 2..6}}

requestsScenario ==
    [nothing EXCEPT !.name = "requests", !.max = 1,
       !.rows = tables({installation(1, "t1"), approval(1), execution(1, "success"), version(1, 1),
                        installation(2, "t2"), execution(2, "corrupt")}),
       !.tokens = {issued(1, "admin", None, 2)},
       !.forms = UNION {variants(form) : form \in goodForms}]

-----------------------------------------------------------------------------
(* Deployments that lack something or are configured wrongly.               *)

deploymentScenarios ==
    {[nothing EXCEPT !.name = "deployment", !.max = 1, !.deployment = d, !.rows = [tables({}) EXCEPT !.DB = tables({
                        installation(1, "t1")}).dbA], !.forms = goodForms] :
        d \in {[deployed EXCEPT !.db = FALSE, !.routes = None], [deployed EXCEPT !.routes = None],
               [deployed EXCEPT !.routes = "invalid"], [deployed EXCEPT !.db = FALSE, !.identities = FALSE],
               [deployed EXCEPT !.identities = FALSE], [deployed EXCEPT !.limiter = FALSE],
               [deployed EXCEPT !.cursor = "none"], [deployed EXCEPT !.cursor = "short"],
               [deployed EXCEPT !.callback = "incomplete"], [deployed EXCEPT !.origins = {"wildcard"}],
               [deployed EXCEPT !.start = "none", !.callback = "none"], [deployed EXCEPT !.start = "none"],
               [deployed EXCEPT !.db = FALSE, !.routes = None, !.identities = FALSE]}}

-----------------------------------------------------------------------------
(* The limit: one caller, as fast as it goes.                               *)

limitsScenario ==
    [nothing EXCEPT !.name = "limits", !.max = 3, !.until = 2,
       !.rows = tables({installation(1, "t1")}),
       !.forms = {[ask("POST", "slackOAuthInstallStart", plain(1)) EXCEPT !.body = "none"]}]

-----------------------------------------------------------------------------
(* The console.                                                             *)

consoleScenario == [nothing EXCEPT !.credential = plain(1), !.max = 2]

loginScenario ==
    [nothing EXCEPT !.name = "login", !.users = {"login", "logout"}, !.max = 5,
       !.credentials = {plain(2)}, !.database = "DB", !.rows = [tables({}) EXCEPT !.DB = {installation(1, "t1")}],
       !.deployment = [deployed EXCEPT !.routes = None]]

refreshScenario ==
    [consoleScenario EXCEPT !.name = "refresh", !.users = {"lists", "decision"}, !.max = 3,
       !.rows = tables({execution(n, "success") : n \in 1..2} \cup {approval(1)})]

arrivalsScenario ==
    [consoleScenario EXCEPT !.name = "arrivals", !.users = {"lists", "runtime"}, !.max = 3, !.executions = 4, !.until = 1,
       !.rows = tables({execution(n, "success") : n \in 2..4})]

pagesScenario ==
    [consoleScenario EXCEPT !.name = "pages", !.users = {"lists"}, !.max = 3,
       !.rows = tables({installation(n, "t1") : n \in 1..3} \cup {installation(4, "t2"), version(1, 1), version(2, 2)})]

searchScenario ==
    [consoleScenario EXCEPT !.name = "search", !.users = {"search", "detail"}, !.max = 4,
       !.searches = {[NoFilters EXCEPT !.status = "success"], [NoFilters EXCEPT !.status = "timeout"]},
       !.rows = tables({execution(n, "success") : n \in {1, 3}} \cup {execution(2, "timeout"), execution(4, "timeout")})]

reviewScenario ==
    [consoleScenario EXCEPT !.name = "review", !.users = {"review", "others", "lists"}, !.max = 3, !.revisions = 1,
       !.rows = tables({installation(n, "t1") : n \in 1..2})]

changeScenario ==
    [consoleScenario EXCEPT !.name = "change", !.max = 3, !.users = {"command", "others"}, !.revisions = 1,
       !.rows = tables({installation(1, "t1")})]

rollbackScenario ==
    [consoleScenario EXCEPT !.name = "rollback", !.max = 3, !.users = {"rollback", "others"}, !.revisions = 1,
       !.rows = tables({installation(1, "t1"), version(1, 2)})]

installScenarios ==
    {[consoleScenario EXCEPT !.name = "install", !.users = {"install"}, !.max = 3, !.credential = who,
        !.rows = tables({version(1, 1)})] : who \in {plain(1), plain(2)}}

MCScenarios ==
    {revocationScenario, tokensScenario, requestsScenario, limitsScenario, loginScenario, refreshScenario, arrivalsScenario, pagesScenario,
     searchScenario, reviewScenario, changeScenario, rollbackScenario}
    \cup deploymentScenarios \cup installScenarios
=============================================================================
