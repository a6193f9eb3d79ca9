----------------------------- MODULE AdminConsole -----------------------------
(***************************************************************************)
(* The admin console: the browser application (apps/admin-ui/src/App.tsx)  *)
(* and its client of the Admin API (api-client.ts), over the API itself.   *)
(* Every call is answered in its own time, or fails with a network error   *)
(* while the request goes on. Elsewhere other administrators and the       *)
(* runtime change what the console shows.                                  *)
(***************************************************************************)
EXTENDS AdminApi

CONSTANT Scenarios   \* bound: what is configured, stored and done in each

(***************************************************************************)
(* Where a deployment keeps the rows of an app.                            *)
(***************************************************************************)
homeOf(d, app) == IF d.routes = None THEN IF d.db THEN Default ELSE None ELSE databaseOf(app)

(***************************************************************************)
(* Every database that is bound is there, with tables of distinct rows,    *)
(* and stored tokens have an id and a credential of their own and scopes   *)
(* that are operations. A session that is open from the start is one of a  *)
(* bootstrap identity and shows the database of its app.                   *)
(***************************************************************************)
ASSUME ScenarioAssumption ==
  \A s \in Scenarios :
    /\ {s.database, Default} \cup {route.database : route \in AppRoutes} \subseteq DOMAIN s.rows
    /\ \A d \in DOMAIN s.rows : SoundTable(s.rows[d])
    /\ s.credential # None =>
         /\ s.credential \in DOMAIN Bootstrap /\ ~isServiceTokenCredential(s.credential)
         /\ Bootstrap[s.credential] # None
         /\ s.database = homeOf(s.deployment, Bootstrap[s.credential].app)
    /\ \A row \in s.tokens : /\ DOMAIN row = TokenFields /\ row.credential = ServiceCredential(row.id)
                              /\ row.scopes \subseteq RBAC_OPERATIONS
    /\ \A a, b \in s.tokens : a.id = b.id => a = b

VARIABLES scenario,
          ui,         \* the application's state
          waits,      \* per slot: what the application does with the answer
          overtaken,  \* sections whose list a refresh replaced while a page of it was on its way
          nextKey     \* idempotency keys made

console == <<scenario, ui, waits, overtaken, nextKey>>
vars == <<access, stores, api, console>>

does(user) == user \in scenario.users

NoQuery == [id |-> None, limit |-> None, cursor |-> None, filters |-> NoFilters, extra |-> FALSE,
            range |-> TRUE]

networkError == Answer(0, "network_error", None)

-----------------------------------------------------------------------------
(* The client. It keeps the credential of the session that was opened       *)
(* last.                                                                    *)

(***************************************************************************)
(* The headers every call carries.                                         *)
(***************************************************************************)
fetchAdminJson(method, route) ==
    [method |-> method, route |-> route, origin |-> "console", credential |-> ui.credential,
     json |-> method # "GET", body |-> IF method = "GET" THEN "none" ELSE "fits",
     command |-> None, key |-> None, query |-> NoQuery]

getDashboard == fetchAdminJson("GET", "dashboard")

getAuditEvents == fetchAdminJson("GET", "auditEvents")

getDashboardSection(section, cursor) ==
    [fetchAdminJson("GET", section) EXCEPT !.query.cursor = cursor]

searchExecutions(filters, cursor) ==
    [fetchAdminJson("GET", "executions") EXCEPT !.query.filters = filters, !.query.cursor = cursor]

getExecutionDetail(id) == [fetchAdminJson("GET", "executionDetail") EXCEPT !.query.id = id]

getInstallationPermissionReview(id) == [fetchAdminJson("GET", "installationReview") EXCEPT !.query.id = id]

getInstallPreview(version) == [fetchAdminJson("GET", "installPreview") EXCEPT !.query.id = version]

decideApproval_call(command) ==
    [fetchAdminJson("POST", "approvalDecisionCreate") EXCEPT !.command = command]

updateInstallationCommand(command) ==
    [fetchAdminJson("PATCH", "installationCommand") EXCEPT !.command = command]

installPlugin_call(command, key) ==
    [fetchAdminJson("POST", "installCreate") EXCEPT !.command = command, !.key = key]

requestInstallation_call(command, key) ==
    [fetchAdminJson("POST", "installRequestCreate") EXCEPT !.command = command, !.key = key]

rollbackInstallation_call(command, key) ==
    [fetchAdminJson("POST", "rollbackCreate") EXCEPT !.command = command, !.key = key]

(***************************************************************************)
(* Opening a session asks with the credential that was typed in.           *)
(***************************************************************************)
resolveSession_call(credential) == [fetchAdminJson("GET", "session") EXCEPT !.credential = credential]

quiet == UNCHANGED <<clock, tokens, buckets, rows, keys, deployment, effects, late, scenario>>

(***************************************************************************)
(* The application calls and goes on; without a credential the client      *)
(* refuses the call.                                                       *)
(***************************************************************************)
Call(c, form, then) ==
    /\ requests[c] = Idle /\ waits[c] = None /\ sent < scenario.max
    /\ form.credential # None
    /\ Send(c, form)
    /\ waits' = [waits EXCEPT ![c] = then]

(***************************************************************************)
(* An answer arrives, or the call fails: the network fails it, or what an  *)
(* intermediary made of the answer is not of its schema. Then the          *)
(* application goes on without it, whatever becomes of the request.        *)
(***************************************************************************)
answersOf(c) == {networkError} \cup IF at(c, "answered") THEN {requests[c].answer} ELSE {}

closed(c) == IF at(c, "answered") THEN Idle ELSE [requests[c] EXCEPT !.gone = TRUE]

Receive(c) ==
    /\ requests' = [requests EXCEPT ![c] = closed(c)]
    /\ waits' = [waits EXCEPT ![c] = None]
    /\ sent' = sent

(***************************************************************************)
(* A call made on the answer of another.                                   *)
(***************************************************************************)
CallAgain(c, form, then) ==
    /\ requests[c].phase = "answered"
    /\ Send(c, form)
    /\ waits' = [waits EXCEPT ![c] = then]

ok(answer) == answer.status \in {200, 201, 204}

awaits(c, step) == waits[c] # None /\ waits[c].step = step

ends(step) == [ui EXCEPT !.busy = @ \ {step}]

begin(step) == ui' = [ui EXCEPT !.busy = @ \cup {step}]

still == UNCHANGED <<overtaken, nextKey>>

-----------------------------------------------------------------------------
(* Signing in and out.                                                      *)

Loads == {"dashboard", "auditEvents", "operations", "providerConnections"}

(***************************************************************************)
(* The login panel, and the shell as it is mounted.                        *)
(***************************************************************************)
LoginState ==
    [credential |-> None, session |-> None, snapshot |-> None, unasked |-> {}, loaded |-> <<>>,
     loading |-> None, busy |-> {}, latest |-> [review |-> 0, detail |-> 0],
     reviewed |-> None, review |-> None, panel |-> None,
     target |-> None, filters |-> NoFilters, searched |-> NoFilters, results |-> None, more |-> None,
     detail |-> None]

AdminShell(credential, who) ==
    [LoginState EXCEPT !.credential = credential, !.session = who, !.unasked = Loads]

LoginPanel(c) ==
    /\ does("login") /\ ui.session = None /\ "login" \notin ui.busy
    /\ \E credential \in scenario.credentials :
          Call(c, resolveSession_call(credential), [step |-> "login", credential |-> credential])
    /\ begin("login") /\ still /\ quiet

(***************************************************************************)
(* The client keeps the credential, the application the identity.          *)
(***************************************************************************)
LoginPanel_then(c) ==
    /\ awaits(c, "login")
    /\ \E answer \in answersOf(c) :
          ui' = IF ok(answer) THEN AdminShell(waits[c].credential, answer.value) ELSE ends("login")
    /\ Receive(c) /\ still /\ quiet

(***************************************************************************)
(* Signing out unmounts the shell: an answer still on its way changes      *)
(* nothing any more.                                                       *)
(***************************************************************************)
App_onLogout ==
    /\ does("logout") /\ ui.session # None
    /\ ui' = LoginState
    /\ requests' = [c \in Slots |-> IF waits[c] = None THEN requests[c] ELSE closed(c)]
    /\ waits' = [c \in Slots |-> None]
    /\ overtaken' = {} /\ UNCHANGED <<sent, nextKey>> /\ quiet

(***************************************************************************)
(* Four calls side by side when the shell is mounted; the snapshot is set  *)
(* when all of them are answered.                                          *)
(***************************************************************************)
AdminShell_load(c) ==
    /\ ui.session # None
    /\ \E part \in ui.unasked :
          /\ Call(c, fetchAdminJson("GET", part), [step |-> "load", part |-> part])
          /\ ui' = [ui EXCEPT !.unasked = @ \ {part}]
    /\ still /\ quiet

snapshotOf(loaded) ==
    LET page(section) == IF section = "auditEvents" THEN loaded.auditEvents
                         ELSE loaded.dashboard.sections[section]
    IN [lists |-> [section \in Sections |-> page(section).items],
        cursors |-> [section \in Sections |-> page(section).cursor]]

AdminShell_loadThen(c) ==
    /\ awaits(c, "load")
    /\ \E answer \in answersOf(c) :
          LET loaded == withPage(ui.loaded, waits[c].part, answer.value) IN
          ui' = IF ~ok(answer) THEN ui
                ELSE IF DOMAIN loaded = Loads THEN [ui EXCEPT !.snapshot = snapshotOf(loaded), !.loaded = <<>>]
                ELSE [ui EXCEPT !.loaded = loaded]
    /\ Receive(c) /\ still /\ quiet

-----------------------------------------------------------------------------
(* The snapshot: refreshes and further pages.                               *)

shown(section) == LET list == ui.snapshot.lists[section] IN {list[i] : i \in DOMAIN list}

(***************************************************************************)
(* A refresh keeps the list of audit events and its cursor.                *)
(***************************************************************************)
preserveAuditSlice(snapshot, value) ==
    LET page(section) == value.sections[section]
        kept(section) == section = "auditEvents"
    IN [lists |-> [s \in Sections |-> IF kept(s) THEN snapshot.lists[s] ELSE page(s).items],
        cursors |-> [s \in Sections |-> IF kept(s) THEN snapshot.cursors[s] ELSE page(s).cursor]]

(***************************************************************************)
(* A refresh replaces the snapshot with whatever the dashboard answered,   *)
(* however late. What waits for it ends with it.                           *)
(***************************************************************************)
refreshDashboard(c) ==
    /\ awaits(c, "refresh")
    /\ LET ended == ends(waits[c].ending)
           done == IF waits[c].ok THEN [ended EXCEPT !.panel = IF waits[c].ending = "install" THEN None ELSE @,
                                                    !.target = IF waits[c].ending = "rollback" THEN None ELSE @]
                   ELSE ended
       IN \E answer \in answersOf(c) :
             IF ok(answer)
             THEN /\ ui' = [done EXCEPT !.snapshot = preserveAuditSlice(@, answer.value)]
                  /\ overtaken' = (overtaken \cap {"auditEvents"})
                                   \cup ({ui.loading} \ {None, "auditEvents"})
             ELSE ui' = ended /\ UNCHANGED overtaken
    /\ Receive(c) /\ UNCHANGED nextKey /\ quiet

(***************************************************************************)
(* A refresh that the application waits for before "ending" is over, after *)
(* a success or not; "none" waits for nothing.                             *)
(***************************************************************************)
refreshing(ending, success) == [step |-> "refresh", ending |-> ending, ok |-> success]

LoadMoreButton(cursor) == cursor # None

loadMore(c) ==
    /\ does("lists") /\ ui.snapshot # None /\ ui.loading = None
    /\ \E section \in Sections :
          /\ LoadMoreButton(ui.snapshot.cursors[section])
          /\ section = "executions" => ui.results = None
          /\ Call(c, getDashboardSection(section, ui.snapshot.cursors[section]),
                  [step |-> "page", section |-> section])
          /\ ui' = [ui EXCEPT !.loading = section]
    /\ still /\ quiet

(***************************************************************************)
(* The page goes to the end of the list that is shown now.                 *)
(***************************************************************************)
appendPage(snapshot, section, page) ==
    [snapshot EXCEPT !.lists[section] = @ \o page.items, !.cursors[section] = page.cursor]

loadMore_then(c) ==
    /\ awaits(c, "page")
    /\ \E answer \in answersOf(c) :
          ui' = [ui EXCEPT !.loading = None,
                   !.snapshot = IF ok(answer) THEN appendPage(@, waits[c].section, answer.value) ELSE @]
    /\ Receive(c) /\ still /\ quiet

-----------------------------------------------------------------------------
(* What the panels ask for. An answer that is not the last question's is    *)
(* dropped.                                                                 *)

may(operation) == canRolePerform(ui.session.role, operation)

(***************************************************************************)
(* The installations a user can ask about.                                 *)
(***************************************************************************)
InstallationsPanel == IF ui.snapshot = None THEN {} ELSE shown("installations")

lastAsked(c, what) == ui.latest[what] = waits[c].n

openPermissionReview(c) ==
    /\ does("review")
    /\ \E row \in InstallationsPanel :
          /\ Call(c, getInstallationPermissionReview(row.id), [step |-> "review", n |-> ui.latest.review + 1])
          /\ ui' = [ui EXCEPT !.latest.review = @ + 1, !.reviewed = row.id, !.review = None]
    /\ still /\ quiet

openPermissionReview_then(c) ==
    /\ awaits(c, "review")
    /\ \E answer \in answersOf(c) :
          ui' = IF lastAsked(c, "review") /\ ok(answer) THEN [ui EXCEPT !.review = answer.value] ELSE ui
    /\ Receive(c) /\ still /\ quiet

(***************************************************************************)
(* The executions a search found, or those of the snapshot.                *)
(***************************************************************************)
visibleExecutions ==
    IF ui.results = None THEN shown("executions") ELSE {ui.results[i] : i \in DOMAIN ui.results}

ExecutionsPanel_openDetail(c) ==
    /\ does("detail") /\ ui.snapshot # None
    /\ \E row \in visibleExecutions :
          /\ Call(c, getExecutionDetail(row.id), [step |-> "detail", n |-> ui.latest.detail + 1])
          /\ ui' = [ui EXCEPT !.latest.detail = @ + 1, !.detail = None]
    /\ still /\ quiet

ExecutionsPanel_openDetailThen(c) ==
    /\ awaits(c, "detail")
    /\ \E answer \in answersOf(c) :
          ui' = IF lastAsked(c, "detail") /\ ok(answer) THEN [ui EXCEPT !.detail = answer.value] ELSE ui
    /\ Receive(c) /\ still /\ quiet

runSearch(c, filters, cursor, append) ==
    /\ "search" \notin ui.busy
    /\ Call(c, searchExecutions(filters, cursor), [step |-> "search", filters |-> filters, append |-> append])

(***************************************************************************)
(* The filters are the new ones at once, the results only when they        *)
(* arrive.                                                                 *)
(***************************************************************************)
submitSearch(c) ==
    /\ does("search") /\ ui.snapshot # None
    /\ \E filters \in scenario.searches :
          /\ runSearch(c, filters, None, FALSE)
          /\ ui' = [ui EXCEPT !.busy = @ \cup {"search"}, !.filters = filters, !.detail = None]
    /\ still /\ quiet

(***************************************************************************)
(* More results are asked for with the filters and the cursor of the       *)
(* moment.                                                                 *)
(***************************************************************************)
ExecutionsPanel_loadMore(c) ==
    /\ does("search") /\ ui.results # None /\ LoadMoreButton(ui.more) /\ ui.loading # "executions"
    /\ runSearch(c, ui.filters, ui.more, TRUE)
    /\ begin("search") /\ still /\ quiet

ExecutionsPanel_found(c) ==
    /\ awaits(c, "search")
    /\ \E answer \in answersOf(c) :
          LET known(row) == \E i \in DOMAIN ui.results : ui.results[i].id = row.id
              new == SelectSeq(answer.value.items, LAMBDA row : ~known(row))
          IN ui' = IF ~ok(answer) THEN ends("search")
                   ELSE [ends("search") EXCEPT !.more = answer.value.cursor,
                           !.results = IF waits[c].append THEN @ \o new ELSE answer.value.items,
                           !.searched = IF waits[c].append THEN @ ELSE waits[c].filters]
    /\ Receive(c) /\ still /\ quiet

-----------------------------------------------------------------------------
(* Changes. Every one waits for its answer; its controls are disabled       *)
(* meanwhile.                                                               *)

(***************************************************************************)
(* The controls of an installation: the row, as it is shown, tells what a  *)
(* change is.                                                              *)
(***************************************************************************)
InstallationCommandPanel(c) ==
    /\ does("command") /\ InstallationsPanel # {} /\ may("installation:manage") /\ "command" \notin ui.busy
    /\ \E row \in InstallationsPanel, state \in {"enabled", "disabled"}, up \in {0, 1} :
          LET new == [id |-> row.id, expected |-> row.revision,
                      state |-> IF state = row.state THEN None ELSE state,
                      priority |-> IF up = 0 THEN None ELSE row.priority + up]
          IN /\ isInstallationCommand(new)
             /\ Call(c, updateInstallationCommand(new), [step |-> "command", shown |-> row])
    /\ begin("command") /\ still /\ quiet

(***************************************************************************)
(* The answer replaces what a command changes in the row that is shown.    *)
(***************************************************************************)
withUpdated(snapshot, updated) ==
    [snapshot EXCEPT !.lists["installations"] =
        [i \in DOMAIN @ |->
            IF @[i].id # updated.id THEN @[i]
            ELSE [@[i] EXCEPT !.state = updated.state, !.priority = updated.priority,
                              !.revision = updated.revision]]]

(***************************************************************************)
(* After a conflict the snapshot is refreshed before another command is    *)
(* allowed.                                                                *)
(***************************************************************************)
updateInstallation_then(c) ==
    /\ awaits(c, "command")
    /\ \E answer \in answersOf(c) :
          IF answer.code = "conflict"
          THEN CallAgain(c, getDashboard, refreshing("command", FALSE)) /\ UNCHANGED ui
          ELSE /\ ui' = IF ok(answer) THEN [ends("command") EXCEPT !.snapshot = withUpdated(@, answer.value)]
                        ELSE ends("command")
               /\ Receive(c)
    /\ still /\ quiet

openInstallPreview(c) ==
    /\ does("install") /\ ui.snapshot # None /\ may("installation:request")
    /\ ui.busy \cap {"install", "preview"} = {}
    /\ \E row \in shown("pluginVersions") :
          Call(c, getInstallPreview(row.version), [step |-> "preview", version |-> row.version])
    /\ ui' = [ui EXCEPT !.busy = @ \cup {"preview"}, !.panel = None]
    /\ still /\ quiet

(***************************************************************************)
(* A preview opens a panel of its own, with a key of its own.              *)
(***************************************************************************)
InstallFlowPanel(version, capabilities) ==
    [version |-> version, capabilities |-> capabilities, key |-> nextKey]

openInstallPreview_then(c) ==
    /\ awaits(c, "preview")
    /\ \E answer \in answersOf(c) :
          IF ok(answer)
          THEN /\ ui' = [ends("preview") EXCEPT !.panel = InstallFlowPanel(waits[c].version, answer.value)]
               /\ nextKey' = nextKey + 1
          ELSE ui' = ends("preview") /\ UNCHANGED nextKey
    /\ Receive(c) /\ UNCHANGED overtaken /\ quiet

(***************************************************************************)
(* The form is submitted as often as the user likes, each time with the    *)
(* key of its panel.                                                       *)
(***************************************************************************)
InstallFlowPanel_confirm(c) ==
    /\ ui.panel # None /\ "install" \notin ui.busy
    /\ \E enabled, config \in BOOLEAN :
          LET command == [version |-> ui.panel.version, config |-> config, confirmed |-> ui.panel.capabilities,
                          enabled |-> enabled, priority |-> 1]
          IN IF may("installation:manage")
             THEN Call(c, installPlugin_call(command, ui.panel.key), [step |-> "install"])
             ELSE Call(c, requestInstallation_call(command, ui.panel.key), [step |-> "request"])
    /\ begin("install") /\ still /\ quiet

(***************************************************************************)
(* The panel closes when the refresh after a success has succeeded; until  *)
(* then it keeps its key.                                                  *)
(***************************************************************************)
installPlugin(c) ==
    /\ awaits(c, "install")
    /\ \E answer \in answersOf(c) :
          IF ok(answer)
          THEN CallAgain(c, getDashboard, refreshing("install", TRUE)) /\ UNCHANGED ui
          ELSE ui' = ends("install") /\ Receive(c)
    /\ still /\ quiet

(***************************************************************************)
(* A request is over when it is answered; the refresh goes its own way.    *)
(***************************************************************************)
requestInstallation_then(c) ==
    /\ awaits(c, "request")
    /\ ui' = ends("install")
    /\ \E answer \in answersOf(c) :
          IF ok(answer) THEN CallAgain(c, getDashboard, refreshing("none", TRUE)) ELSE Receive(c)
    /\ still /\ quiet

(***************************************************************************)
(* A rollback is from the row that is shown to another version of its      *)
(* plugin. The dialog keeps row and key until it succeeds or is cancelled. *)
(***************************************************************************)
VersionsPanel_rollback ==
    /\ does("rollback") /\ ui.snapshot # None /\ may("installation:manage")
    /\ ui.busy \cap {"rollback", "install", "preview"} = {} /\ ui.target = None
    /\ nextKey <= scenario.max
    /\ \E row \in shown("installations"), to \in shown("pluginVersions") :
          /\ to.plugin = row.plugin /\ to.version # row.version
          /\ ui' = [ui EXCEPT !.target = [id |-> row.id, version |-> to.version, expected |-> row.revision,
                                         key |-> nextKey]]
    /\ nextKey' = nextKey + 1
    /\ UNCHANGED <<requests, waits, sent, overtaken>> /\ quiet

VersionsPanel_cancel ==
    /\ ui.target # None /\ "rollback" \notin ui.busy
    /\ ui' = [ui EXCEPT !.target = None]
    /\ UNCHANGED <<requests, waits, sent>> /\ still /\ quiet

confirmRollback(c) ==
    /\ ui.target # None /\ "rollback" \notin ui.busy
    /\ Call(c, rollbackInstallation_call([id |-> ui.target.id, version |-> ui.target.version,
                                          expected |-> ui.target.expected], ui.target.key),
            [step |-> "rollback"])
    /\ begin("rollback") /\ still /\ quiet

(***************************************************************************)
(* The refresh follows a success and a conflict; after a conflict the      *)
(* dialog keeps the row it was opened with.                                *)
(***************************************************************************)
rollbackInstallation_then(c) ==
    /\ awaits(c, "rollback")
    /\ \E answer \in answersOf(c) :
          IF ok(answer) \/ answer.code = "conflict"
          THEN CallAgain(c, getDashboard, refreshing("rollback", ok(answer))) /\ UNCHANGED ui
          ELSE ui' = ends("rollback") /\ Receive(c)
    /\ still /\ quiet

ApprovalsPanel_confirmDecision(c) ==
    /\ does("decision") /\ ui.snapshot # None /\ may("approval:decide") /\ "decision" \notin ui.busy
    /\ \E row \in shown("approvals"), decision \in {"approved", "rejected"} :
          /\ row.state = "pending"
          /\ Call(c, decideApproval_call([id |-> row.id, decision |-> decision]), [step |-> "decision"])
    /\ begin("decision") /\ still /\ quiet

withDecided(snapshot, decided) ==
    [snapshot EXCEPT !.lists["approvals"] =
        [i \in DOMAIN @ |-> IF @[i].id = decided.id THEN [@[i] EXCEPT !.state = decided.state] ELSE @[i]]]

(***************************************************************************)
(* An approval made an installation: the snapshot is refreshed, in its own *)
(* time. A rejection is shown from its answer.                             *)
(***************************************************************************)
decideApproval_then(c) ==
    /\ awaits(c, "decision")
    /\ \E answer \in answersOf(c) :
          IF ok(answer) /\ answer.value.state = "approved"
          THEN CallAgain(c, getDashboard, refreshing("none", TRUE)) /\ ui' = ends("decision")
          ELSE /\ ui' = IF ok(answer) THEN [ends("decision") EXCEPT !.snapshot = withDecided(@, answer.value)]
                        ELSE ends("decision")
               /\ Receive(c)
    /\ still /\ quiet

-----------------------------------------------------------------------------
(* Elsewhere.                                                               *)

(***************************************************************************)
(* Other callers of the Admin API.                                         *)
(***************************************************************************)
Ask(c) ==
    /\ requests[c] = Idle /\ waits[c] = None /\ sent < scenario.max
    /\ \E form \in scenario.forms : Send(c, form)
    /\ UNCHANGED <<ui, waits>> /\ still /\ quiet

Answered(c) ==
    /\ at(c, "answered") /\ waits[c] = None
    /\ requests' = [requests EXCEPT ![c] = Idle]
    /\ UNCHANGED <<ui, waits, sent>> /\ still /\ quiet

elsewhere == UNCHANGED <<tokens, buckets, keys, api, console>>

(***************************************************************************)
(* The runtime records an execution.                                       *)
(***************************************************************************)
RecordExecution ==
    /\ does("runtime") /\ elsewhere /\ UNCHANGED clock
    /\ Cardinality(rowsOf(scenario.database, "executions")) < scenario.executions
    /\ \E id \in freshIds(scenario.database, "executions") :
          rows' = [rows EXCEPT ![scenario.database] =
                     @ \cup {Row("executions", id, scenario.tenant, scenario.version, "timeout")}]

(***************************************************************************)
(* Another administrator rolls an installation back or changes its         *)
(* priority.                                                               *)
(***************************************************************************)
OtherAdministrator ==
    /\ does("others") /\ elsewhere /\ UNCHANGED clock
    /\ \E row \in rowsOf(scenario.database, "installations"), version \in DOMAIN Versions :
          /\ row.revision < scenario.revisions /\ Versions[version].plugin = row.plugin
          /\ write(scenario.database,
                   {[row EXCEPT !.version = version, !.revision = @ + 1,
                                !.priority = IF version = row.version THEN @ + 1 ELSE @]})

Tick == /\ clock < scenario.until
        /\ clock' = clock + 1
        /\ UNCHANGED <<tokens, buckets, stores, api, console>>

Worker(c) == Serve(c) /\ UNCHANGED console

Init ==
    /\ scenario \in Scenarios
    /\ clock = 0 /\ buckets = <<>>
    /\ tokens = scenario.tokens
    /\ rows = scenario.rows /\ keys = [d \in DOMAIN scenario.rows |-> {}]
    /\ deployment = scenario.deployment
    /\ requests = [c \in Slots |-> Idle] /\ waits = [c \in Slots |-> None]
    /\ sent = 0 /\ effects = {} /\ late = {} /\ overtaken = {} /\ nextKey = 1
    /\ ui = IF scenario.credential = None THEN LoginState
            ELSE LET who == Bootstrap[scenario.credential]
                     page(s) == readSection(scenario.database, who, s, DefaultLimit, None, NoFilters)
                     first(s) == serializeSectionPage(page(s), who, s, None)
                 IN [AdminShell(scenario.credential, who) EXCEPT !.unasked = {},
                       !.snapshot = [lists |-> [s \in Sections |-> first(s).items],
                                     cursors |-> [s \in Sections |-> first(s).cursor]]]

Signing(c) == LoginPanel(c) \/ LoginPanel_then(c) \/ AdminShell_load(c) \/ AdminShell_loadThen(c)

Browsing(c) ==
    \/ refreshDashboard(c) \/ loadMore(c) \/ loadMore_then(c)
    \/ openPermissionReview(c) \/ openPermissionReview_then(c)
    \/ ExecutionsPanel_openDetail(c) \/ ExecutionsPanel_openDetailThen(c)
    \/ submitSearch(c) \/ ExecutionsPanel_loadMore(c) \/ ExecutionsPanel_found(c)

Administering(c) ==
    \/ InstallationCommandPanel(c) \/ updateInstallation_then(c)
    \/ openInstallPreview(c) \/ openInstallPreview_then(c) \/ InstallFlowPanel_confirm(c)
    \/ installPlugin(c) \/ requestInstallation_then(c)
    \/ confirmRollback(c) \/ rollbackInstallation_then(c)
    \/ ApprovalsPanel_confirmDecision(c) \/ decideApproval_then(c)

Next ==
    \/ \E c \in Slots : Signing(c) \/ Browsing(c) \/ Administering(c) \/ Worker(c) \/ Ask(c) \/ Answered(c)
    \/ App_onLogout \/ VersionsPanel_rollback \/ VersionsPanel_cancel
    \/ RecordExecution \/ OtherAdministrator \/ Tick

Spec == Init /\ [][Next]_vars

-----------------------------------------------------------------------------
(* Properties.                                                              *)

Phases == {"idle", "arrived", "routing", "handling", "identifying", "reserving", "working", "proposing",
           "revoking", "writing", "recovering", "answered"}

(***************************************************************************)
(* The state is of the types the code gives it.                            *)
(***************************************************************************)
TypeOK ==
    /\ scenario \in Scenarios /\ clock \in 0..scenario.until
    /\ \A row \in tokens : /\ isServiceTokenCredential(row.credential)
                            /\ row.scopes \subseteq RBAC_OPERATIONS /\ row.createdAt <= clock
    /\ \A bucket \in DOMAIN buckets : buckets[bucket].start <= clock /\ buckets[bucket].count \in 1..Limit
    /\ \A d \in DOMAIN rows : \A a, b \in rows[d] : a.section = b.section /\ a.id = b.id => a = b
    /\ \A c \in Slots : /\ requests[c].phase \in Phases
                         /\ waits[c] # None => requests[c] # Idle
    /\ ui.session = None => ui.credential = None /\ ui.snapshot = None
    /\ ui.loading \in Sections \cup {None} /\ overtaken \subseteq Sections
    /\ ui.busy \subseteq {"login", "search", "command", "preview", "install", "rollback", "decision"}

-----------------------------------------------------------------------------
(***************************************************************************)
(* Whether the credential of a change could make it: a token that had not  *)
(* expired when it was resolved and was not revoked when the handler asked *)
(* for it, or a bootstrap identity. The row's revokedAt would not tell: it *)
(* is read before the store is asked, so it may be older than a resolution *)
(* that still found the token valid (service-tokens.ts:142).               *)
(***************************************************************************)
holderMay(e) ==
    IF deployment.db /\ isServiceTokenCredential(e.credential)
    THEN ~e.spent /\ \E row \in tokens :
            /\ row.credential = e.credential /\ row.app = e.app /\ row.tenant = e.tenant
            /\ row.expiresAt > e.identified
            /\ canRolePerform(row.role, e.operation) /\ e.operation \in row.scopes
    ELSE /\ e.credential \in DOMAIN Bootstrap
         /\ Bootstrap[e.credential].app = e.app /\ Bootstrap[e.credential].tenant = e.tenant
         /\ requireRbac(Bootstrap[e.credential], e.operation)

(***************************************************************************)
(* Every change is one its caller may make, in the caller's tenant and the *)
(* database of the caller's app: the routing and the handler resolve the   *)
(* credential separately, and a token may be revoked or expire in between. *)
(***************************************************************************)
EffectIsAuthorised ==
    \A e \in effects :
        /\ holderMay(e)
        /\ deployment.routes = "valid" => e.database = databaseOf(e.app) /\ e.database # None

(***************************************************************************)
(* A token never holds more than whoever issued it: not a role with more   *)
(* operations, not a scope that manages tokens or roles, not another       *)
(* tenant.                                                                 *)
(***************************************************************************)
TokensStayWithin ==
    \A row \in tokens : row.id \notin {old.id : old \in scenario.tokens} =>
        /\ \A o \in row.scopes : canRolePerform(row.role, o) /\ o \notin forbiddenMachineScopes
        /\ row.expiresAt \in (row.createdAt + 1)..(row.createdAt + MaxLifetime)
        /\ \E credential \in DOMAIN Bootstrap :
              LET issuer == Bootstrap[credential] IN
              /\ ~isServiceTokenCredential(credential) /\ issuer.subject = row.by
              /\ row.app = issuer.app /\ row.tenant = issuer.tenant
              /\ requireRbac(issuer, "service-token:issue")
              /\ \A o \in RBAC_OPERATIONS : canRolePerform(row.role, o) => canRolePerform(issuer.role, o)

(***************************************************************************)
(* Every page holds rows of the caller's tenant, or versions of the        *)
(* caller's app, only (admin-dashboard.ts:146-170).                        *)
(***************************************************************************)
PagesAreTheCallers ==
    \A c \in Slots :
        at(c, "answered") /\ requests[c].route \in Sections /\ requests[c].answer.status = 200 =>
            LET page == requests[c].answer.value.items IN
            \A i \in DOMAIN page :
                IF requests[c].route = "pluginVersions" THEN page[i].app = requests[c].who.app
                ELSE page[i].tenant = requests[c].who.tenant

(***************************************************************************)
(* The three together: what is done, handed out and shown stays within the *)
(* caller's rights (rbac.ts, service-tokens.ts, app-database-router.ts,    *)
(* http-api.ts, admin-dashboard.ts).                                       *)
(***************************************************************************)
AccessIsBounded == EffectIsAuthorised /\ TokensStayWithin /\ PagesAreTheCallers

(***************************************************************************)
(* No window of a bucket lets more than Limit changes through, and windows *)
(* do not overlap, however the calls interleave. A bucket whose window a   *)
(* Worker with an older time started anew is exempt:                       *)
(* evaluateFixedWindowReservation takes that reservation's time as the     *)
(* window's start.                                                         *)
(***************************************************************************)
WindowBoundsChanges ==
    \A e \in effects : e.bucket \notin late =>
        LET alike == {f \in effects : f.bucket = e.bucket} IN
        /\ Cardinality({f \in alike : f.start = e.start}) <= Limit
        /\ \A f \in alike : f.start <= e.start \/ f.start >= e.start + Window

(***************************************************************************)
(* A key acts once: a form submitted again after a lost answer, or twice   *)
(* at the same time, makes no second installation, request or rollback     *)
(* (admin-install-flow.ts:196-259, App.tsx:1373).                          *)
(***************************************************************************)
KeyActsOnce ==
    \A e, f \in effects :
        /\ e.key # None /\ e.key = f.key /\ e.route = f.route /\ e.app = f.app /\ e.tenant = f.tenant
        /\ f.now \in e.now..(e.now + KeyLifetime - 1)
        => e = f

(***************************************************************************)
(* The rows of the caller that were there from the start.                  *)
(***************************************************************************)
oldRows(section) ==
    {row \in selected(scenario.database, ui.session, section, NoFilters) :
        \E old \in scenario.rows[scenario.database] : old.section = section /\ old.id = row.id}

(***************************************************************************)
(* A list shows its rows in order, none twice and, of those that were      *)
(* there all along, none left out between two pages nor after the last.    *)
(* Exempt is a list that a refresh replaced while a page of it was on its  *)
(* way: loadMore appends that page to whatever is shown (App.tsx:201-220). *)
(***************************************************************************)
ListIsContiguous ==
    ui.snapshot # None =>
        \A section \in Sections \ overtaken :
            LET list == ui.snapshot.lists[section]
                missing == {row \in oldRows(section) : \A i \in DOMAIN list : list[i].id # row.id}
            IN /\ \A i, j \in DOMAIN list : i < j => precedes(list[i], list[j])
               /\ \A row \in missing : /\ ui.snapshot.cursors[section] # None
                                       /\ \A i \in DOMAIN list : precedes(list[i], row)

(***************************************************************************)
(* The results that are shown together are of one search, although the     *)
(* filters change before the results do and a failed search leaves the     *)
(* results and the cursor of the one before (App.tsx:1786-1826).           *)
(***************************************************************************)
ResultsAreOneSearch ==
    ui.results # None =>
        \A i \in DOMAIN ui.results :
            /\ ui.searched.plugin # None => ui.results[i].plugin = ui.searched.plugin
            /\ ui.searched.status # None => ui.results[i].state = ui.searched.status

(***************************************************************************)
(* The review that is shown is the one that was asked for last, whatever   *)
(* the order of the answers.                                               *)
(***************************************************************************)
ReviewIsTheLastAsked == ui.review # None => \A row \in ui.review : row.id = ui.reviewed

(***************************************************************************)
(* What is shown together belongs together.                                *)
(***************************************************************************)
ShownBelongsTogether == ResultsAreOneSearch /\ ReviewIsTheLastAsked

(***************************************************************************)
(* A command that takes effect changes the state and the priority its user *)
(* was shown when confirming, although refreshes land late and other       *)
(* administrators change the row meanwhile.                                *)
(***************************************************************************)
CommandChangesWhatWasShown ==
    [][\A c \in Slots :
          awaits(c, "command") /\ effects' # effects /\ (\E e \in effects' \ effects : e.n = requests[c].n) =>
              \E row \in rows[requests[c].database] :
                  /\ row.section = "installations" /\ row.id = waits[c].shown.id
                  /\ row.state = waits[c].shown.state /\ row.priority = waits[c].shown.priority]_vars

(***************************************************************************)
(* Lists are what the store has for the caller: the pages the console      *)
(* strings together are one contiguous part of the list, and what is shown *)
(* together was asked together (App.tsx:203, 218, 1815).                   *)
(***************************************************************************)
ListsAreSound == ListIsContiguous /\ ShownBelongsTogether
=============================================================================
