# TenantScript: TLA+ models, checks and proofs

TenantScript lets a multi-tenant application run its customers' plugins on Cloudflare Workers. Plugins are
published with a manifest, installed per tenant, dispatched by a loader when a hook fires, and reach the outside
world through granted capabilities. The control plane (`packages/control-plane`) keeps the records: apps, tenants,
plugin versions, installations, approvals, executions, audit events in D1 (SQLite), archives in R2, and secrets, OAuth
states and counters in Durable Objects. An admin console works over its HTTP API, and a CLI creates the whole
deployment in a Cloudflare account.

What is hard to get right is spread over calls. A handler makes several D1, R2 or Durable Object calls, and every other
handler may run between two of them. D1 executes one statement, or one batch, atomically, and part of the logic is in
triggers of the migrations. A call may reject although it took effect. An isolate or a process may die between two calls.
Callers resend under an idempotency key; a browser receives its answers in any order. The modules here model the code at
that grain: **one action per await**, that is per call of a store, a service or another process, with the triggers it
fires, and with the alternatives that it failed, or that it took effect and the caller was told it failed.

## 1. Inventory

Paths are relative to `src/packages/` unless they begin with `apps/`.

| Component | State | Operations | Interacts with | Hard behaviour | What makes it correct |
|---|---|---|---|---|---|
| Installation writers: `control-plane/src/admin-installations.ts`, `admin-rollbacks.ts`, `api.ts`, `storage.ts`, migrations 0002, 0003, 0006 | `installations` row with a revision, `admin_audit_events`, `admin_rollback_idempotency` | audited command, audited idempotent rollback, four unaudited API updates | runaway trigger and budget guard write the same row | read-compare-write across two calls, lost acknowledgements, equal keys racing, expiring keys | a revision names one state; the audit is true history; callers are told the truth |
| Runaway guard: `runaway-guard.ts`, migration 0013 | `installation_runaway_states`, the enabled flag | record outcome, quarantine, notify, recover | host after every execution; operators; other writers of `enabled` | executions finishing together, recovery between two calls of a guard | no threshold missed, one notification per incident, only recovery releases |
| Approvals: `admin-install-requests.ts`, `admin-approvals.ts`, `approval-state.ts`, `rbac.ts`, `api.ts`, migration 0010 | `approvals`, grant requests, decision audit events, idempotency records | request an installation, plugin request, decide (admin route), decide (internal API) and continue | creates installations in the decision's batch | two approvers, expiry between check and write, two decision routes | one authorised decision; grants only with it |
| Audit log: `audit-log.ts`, migration 0011 | `audit_events`, `audit_chain_heads` | append with retries, list, verify | every audited operation | writers racing for the head, duplicate ids, tampering | one gapless chain per scope; tampering found |
| Access: `service-tokens.ts`, `rbac.ts`, `admin-mutation-rate-limit.ts`, `app-database-router.ts` | service tokens, rate limit buckets | issue, list, revoke, resolve; reserve | every request of the Admin API | revocation between two resolutions, reservations out of order | nobody acts beyond a role, tenant or window |
| Admin API and its stores: `worker-entry.ts`, `http-api.ts`, `admin-dashboard.ts`, `admin-install-flow.ts`, `admin-executions.ts` | the tables, cursors, idempotency records | every route, in the order of its refusals; install | the stores above; one database per app | concurrent requests, lost answers, rows inserted while pages are read | rights, idempotency, sound pages |
| Admin console: `apps/admin-ui/src/App.tsx`, `api-client.ts` | session, snapshot, reviews, searches, calls in flight | sign in, refresh, page, search, review, command, rollback, install, decide | Admin API | answers out of order, forms repeated after a lost answer, others changing the row | what is shown belongs together; a command changes what was shown |
| Capability broker: `capabilities/src/index.ts`, `slack-send-provider.ts` | journal, rate limit bucket, audit, key-value state | check grant and scope, call a provider | plugin's worker, outside services | retries after an effect, concurrent calls, redirects, token fallback | effects happen once; calls are accounted for |
| Local sandbox and retries: `loader/src/index.ts`, `host-sdk/src/index.ts`, `plugin-sdk/src/index.ts` | worker threads, pending calls, timers | run a hook, retry an event | capability broker | messages crossing a timeout or a death, calls left behind | every attempt settles; no result with a call in flight |
| Dispatch on Dynamic Workers: `loader/src/cloudflare.ts`, `host-sdk/src/index.ts`, `proxy/src/index.ts`, `apps/example-saas/src/index.ts`, `budget-guard.ts` | warm workers, plans, mappings | plan, adapt payload, run, drain, take evidence, forward | ledger, operators | reused workers, hanging worker or evidence, mapping changed under a chain | a run executes what it names, is answered, and is recorded as it went |
| Ledger: `execution-usage-recorder.ts`, `usage-meter.ts`, `usage-counter.ts`, `execution-archive.ts`, migration 0012 | execution rows, summaries, counter, archives | record, meter, count, archive, search | R2, the budget guard | failure between two writes, two jobs, search during an archive | no execution lost, none counted twice |
| OAuth state store: `oauth-state-store.ts` | one-time states, one alarm | issue, consume, sweep | install start and callback | two clocks, failure between alarm and record | used once, swept in time |
| Secrets and Slack credential: `secret-store.ts`, `provider-secret-store-do.ts`, `slack-credential-lifecycle.ts`, `slack-token-refresh-client.ts` | encrypted credential per tenant, keyrings | staged refresh, intervention, resolve, rewrap | Slack, capability calls, OAuth callback | one-use refresh tokens, lost answers, reconnect during refresh, keys retired during a rollout | a refresh token is used once; the credential is kept and readable |
| Provider token rotation: `provider-token-rotation-store.ts` | a rotation state in the secret store | initialise, five operator transitions | secret store | two operators on one state | implements an atomic rotation |
| Slack connection: `slack-oauth-install-start.ts`, `slack-oauth-callback.ts`, `slack-oauth-client.ts`, `api.ts` | D1 connection per tenant | start, callback | state store, secret store, D1 | one state presented twice, failure between two stores | a flow connects its own tenant, once |
| CLI setup: `cli/src/setup-executor.ts`, `setup-plan.ts`, `setup-provider-router.ts`, four Cloudflare adapters, transport, Wrangler processes | journal file, lock file, the account | preflight, execute, resume, clean up | Cloudflare, operator | death between a call and the journal, lost answers, two processes, a name somebody else uses | deletes only what it recorded as created; the journal is true |

Not modelled, or in part only:

| Component | Why |
|---|---|
| Plugin publication, artifacts (`api.ts`, `storage.ts`) | the artifact store's put has no condition, so nothing in the code decides between two publishers; what is promised of it is not said |
| `createApprovalContinuationRunner`, `runHook`, `runScopedHandler`, the denied `fetch` and URL polyfill of a plugin | wrappers around modelled calls, or the absence of an ability |
| Migration catalog (`schema-migrations.ts`) | generated SQL text; the history it makes in a database is in `SetupAdapters` |
| Audit export, telemetry, usage summary queries, OpenAPI text | they format what they read |
| Scheduled retention loop (`worker-entry.ts:501`) | the archive it calls is modelled per scope |
| Manifest schemas | validation without state; a manifest is a model value |
| CLI commands (`index.ts`, `doctor.ts`, `plugin-audit.ts`, `plugin-scaffold.ts`), scripts | terminal output, templates, checks of text; single processes without persistent state |
| Console: demo client, overview, connections and migration panels, focus, plain display | no state that anything else depends on |
| Template gallery, benchmark | examples |

The hazards behind these rows, each at its line and with the properties that cover it, are listed in `PROJECT.json`.

## 2. The modules

```
InstallationAdmin                                      InstallationAdmin_proofs   MCInstallationAdmin
RunawayGuard                                           Execution_proofs           MCRunawayGuard
ApprovalFlow                                           ApprovalFlow_proofs        MCApprovalFlow
AuditTrail <~~ AuditLog                                AuditLog_proofs            MCAuditLog

AdminAccess <- AdminStores <- AdminApi <- AdminConsole AdminConsole_proofs        MCConsole
CapabilityScope <- CapabilityProviders
       <- CapabilityBroker <- LocalRuntime             LocalRuntime_proofs        MCLocalRuntime
ExecutionLedger, HostDispatch <- DynamicWorker
       <- Execution                                    Execution_proofs           MCExecution
SetupPlan <- SetupAdapters <- Setup                    Setup_proofs               MCSetup

OAuthStateStore <- SecretStore <- SlackCredential
       <- ProviderTokenRotation <- SlackConnection     SlackConnection_proofs     MCSlackConnection
TokenRotation <~~ ProviderTokenRotation
```

`<-` is EXTENDS, `<~~` a refinement (INSTANCE with a refinement mapping). The modules of a line are one composition: the
last holds `Init`, `Next` and the properties. A `_proofs` module extends the last module of its line. The `MC` modules declare model values, give structured constants their
values, and name the scenarios of a run. Definitions keep the names of the functions and triggers they translate;
`X_Suffix` beside `X`, under a comment "Mutated", is a plausible wrong version of `X`, used to show that a property can
fail.

All handler modules share one shape. The invocations (`Requests`, `Handlers`, `Calls`, `Appends`, `Executions`,
`Slots`, `Procs`) are a constant; a phase names the next call of each invocation; what it holds in local variables is
kept beside it. A handler begins with its first read and all its early returns; each later action is one call, with its
trigger conditions as guards and the catch block's alternatives.

**InstallationAdmin.** `row` is the installations table, `audit` the admin audit events, `idem` the idempotency table.
`CommandApplies`/`RollbackApplies` are the trigger conditions of migrations 0002 and 0003 (with `UNIQUE` indexes and the
primary key of the idempotency record); when they do not hold the INSERT aborts. `WriteDirect` is the unaudited API. A
config is represented by the version whose manifest it was validated against. `hist` (every state an installation has
been in) is a history variable. The app of a tenant is folded into the tenant.

**RunawayGuard.** One installation. `guard` is its row; `recordOutcome` is the upsert, `quarantineIfEnabled` the
conditional UPDATE with the trigger, `publish` the notification, `recover` the operator's recovery, `setEnabled`
every other writer of the flag. `incidents`, `recoveries`, `reenabled`, `epoch` (the recoveries there had been when a guard
recorded its outcome) and `cause` (the incident of a guard's transition, and whether its counters were `fresh`) are history.

**ApprovalFlow.** An approval is named by the handler that asked for it. `WriteRequest` is the request's batch,
`WriteDecision` the batch of a decision: the audit event whose trigger decides, and for an approved installation
request the installation with its grants. `ApiUpdate` and `runApprovalContinuation` are the internal API's decision,
switched by `ApiDecisions`. `resolveProposal` is abstracted to whether a proposal is available.

**AuditLog, AuditTrail.** `head` is `audit_chain_heads`, `events` the table. The immutability triggers are the absence of
any action that changes or removes a row. `verifyEvents` states the loop of the verifier by what it finds: the first row
with a wrong sequence, link or hash. The digest is the hashed evidence itself, so SHA-256 is taken to be collision free.
The abstract trail is one append-only sequence per scope in which an event occurs once.

**AdminAccess.** Roles and operations, service tokens (`tokens`), the fixed-window limiter (`buckets`), and the routing of
an app to its database. A credential is a model value; whether it is a managed one is its form. A revocation is two
calls, a SELECT and an UPDATE, and writes the time its caller read before both.

**AdminStores.** `rows` is the five tables the dashboard lists, per database, a row a record of section, identity, state
and position; `keys` the idempotency records. `keysetPage` is the one pagination behind all lists. Commands, rollbacks,
requests and decisions, which `InstallationAdmin` and `ApprovalFlow` take apart, are one step here, of which the
acknowledgement may be lost; the immediate install, modelled nowhere else, is taken apart: proposal, key, batch.

**AdminApi.** `requests[c]` is a request in a slot with its phase: `routing` (the Worker entry resolves the credential and
picks the database), `handling` (refusals in the order of `http-api.ts`), `identifying` (the second resolution),
`reserving`, `working`. `deployment` says what the Worker is configured with. `effects` records each store call that
changed something, with the identity the request resolved last and whether its token was `spent`: revoked, by the
table, before the handler asked for it. `late` holds the buckets a reservation
reached with an older clock than one before.

**AdminConsole.** `ui` is the state of the React application, `waits[c]` what it does with the answer of slot `c`. A call
is answered at any later time, or fails with a network error while its request goes on at the server (`gone`).
`OtherAdministrator` and `RecordExecution` change the tables from outside. The two calls of `refreshDashboard` are one,
since only the failure of the second, not its content, is shared.

**CapabilityScope, CapabilityProviders, CapabilityBroker.** A call's input and the grant are records; `Malformed` is a
text that fails its syntax check. `phase`, `held` and `input` are a broker call in progress: journal, limiter, provider,
journal, audit. `effects` is external: what services were asked to do, whether or not they answered. A provider's own
steps (two Slack tokens, redirects, a facet transaction) are actions of `CapabilityProviders`.

**LocalRuntime.** `worker`, `message`, `pending` are the worker thread's side of an attempt, `timer` and `settled` the
parent's. Messages of a worker arrive in order, and cross timers and deaths in any order. The check for outstanding calls,
the last message and the end of the worker are three steps (`HandlerEnds`, `PostLast`, `WorkerStops`): a promise chain the
handler left behind calls before, between and after them, and the parent serves what it is sent. `ahead` counts the
requests in front of the last message, `made` (history) the calls made by the check. Failure codes are one `Error`. A
retry is the next attempt.

**HostDispatch, DynamicWorker, ExecutionLedger, Execution.** `HostDispatch` holds the pure decisions: hook settings,
which installations run in which order, which payload version each gets, what a failure does to a chain, where a webhook
may go. `DynamicWorker` is one run: `cache` the workers the platform keeps warm by id, `run[r]` the caller's state, whose
worker, capability calls and evidence may hang. Calls begin at any time while the worker is alive; `DrainNext` is a turn of
the drain loop, which reads the number of calls again each time, `made` (history) the calls there were when it ended. `ExecutionLedger` is what stays: `WriteExecution` then `MeterExecution`
are the recorder's two writes, of which the second may fail without anybody being told, `lockQueue` the promise chain of the usage lock, `job` an archive run (object, manifest,
deletion) whose batch is the set of the oldest expired rows, `search` a search across it. `Execution` composes them under the budget gate and the operator's changes.

**SetupPlan, SetupAdapters, Setup.** The plan is the program's own list of operations. The journal is data that is
validated whenever it is written or read, so its validation is a definition; identifiers and digests are not modelled.
`account` is the cloud account, a resource naming its maker; `proc[p]` a process with the journal in its memory and the
call it is at; `file` and `lock` are the journal and its lock file. `faults` bounds calls that fail, before or after they
took effect. Cleanup deletes a database by the id its entry keeps, and a bucket by its name, since it has nothing else.
A Worker is the last operation, so nothing after it fails and its cleanup is never reached.

**OAuthStateStore.** Issue, consume and alarm run under `blockConcurrencyWhile`, so each is one step, except that the
record's transaction may fail after the alarm was set. State and browser binding are random, so one model value
(`Flows`) names both. A response that gets lost is a flow its browser abandons. The alarm is external: the runtime
retries a handler that threw.

**SecretStore.** A stored record is a value, a ciphertext and the key that wraps it; every write encrypts under a fresh
key and IV, so a ciphertext is a number no other write produces. Rotation of the key encryption key is three deployments
(`BothOld`, `BothNew`, `NewOnly`); an object keeps the keyring it imported until it restarts, and the operator moves on
only when nothing depends on the old key any more.

**SlackCredential, ProviderTokenRotation, SlackConnection.** `Compare` is the read and decryption of
`compareAndSwapSecret`, `replaceIfUnchanged` its storage transaction. `Rejected` is a rejected call of the store, before
or after it took effect, with the only catch block there is (around the commit). `Crash` ends a call anywhere.
`submitted` is what Slack received. One workspace per tenant is modelled: credentials of two workspaces have different
secret names and never meet. `static` is a token Slack does not rotate. `TokenRotation` is the abstract rotation of
provider tokens: one state per tenant, changed one allowed transition at a time.

## 3. The runs

Passing runs. "States" are distinct states.

| Run | States | What it shows |
|---|---|---|
| `installation_admin` | 1.7M | Three concurrent handlers of two tenants. A revision names one state of an installation although unaudited writers interfere (`RevisionNamesState`); audit events are true history (`AuditIsHistory`). `CallersAreServedHonestly`: answers are backed by an event, an idempotency key applies once per retention period, a conflict is reported truthfully even after a lost acknowledgement, tenants stay apart, installations keep their plugin. |
| `approval_flow` | 1.6M | Three handlers, both decision routes. `DecisionIsSound`: one audited decision per approval, by an authorised role before the expiry; grants live only with an approved decision, exactly as proposed; approved requests are installed; a continuation runs only for a decided approval. `AnswersAreHonest`: answers agree with the tables, a key asks once. |
| `runaway_guard` | 84k, fair | Three executions with failing calls, recoveries and other writers. `QuarantineIsSound`: one notification per transition, with counters at the threshold; no threshold is missed; quarantined means disabled unless an unaware writer enabled it. `QuarantineLifecycle`: a threshold a guard met leads to a quarantine, unless the guard fails or a recovery comes in between, and only a recovery releases it. |
| `audit_log` | 269k, fair | Three racing appends with duplicate ids and lost acknowledgements. One gapless hash chain (`LinearHistory`); the verifier accepts it and finds changed, swapped and removed rows (`TamperIsDetected`); the chain implements `AuditTrail` (`TrailSpec`); an append that gives up lost that many races, and retries end (`AppendsEndHonestly`). |
| `console` | 1.3M | The console over the API, in 27 scenarios (`MCConsole`). `AccessIsBounded`: effects stay within the rights of the credential as it was resolved, none is made with a token revoked before the handler asked for it, tokens hold no more than their issuer, pages hold the caller's rows. `WindowBoundsChanges`: a window lets no more than its limit through. `KeyActsOnce`: a form submitted again, or twice at once, acts once. `ListsAreSound`: lists that are paged while they grow are contiguous; searches and reviews show what was asked last. `CommandChangesWhatWasShown`: a command that takes effect changes the row as its user saw it. |
| `local_runtime` | 963k, fair | Twelve hooks with up to two calls at a time over all seven capabilities, an event tried twice. `ResultHasNoCallInFlight`: none of the calls made before the handler was found complete is under way when its result counts. `EffectsHappenOnce` (the retry repeats no effect the plugin was told of, a provider is asked once, no key-value write is lost), `CallsAreAccountedFor` (every answer is audited, a credential stays with its origin among those the provider is configured with), `AttemptSettles`. |
| `execution` | 336k, fair | A webhook chain, events and a policy on Dynamic Workers, and an archive. `WorkerIsTheRequests`: no warm worker runs another artifact or keeps revoked grants. `ForwardedIsTransformed`. `BudgetIsKept`: exceeded at most by the runs under way at once, no run metered twice or unrecorded, no increment lost. `NoExecutionIsLost`: a row is hot or in a complete archive. `RunEndsHonestly`: every run is answered, as it is recorded, and a success left behind no call made before its response. |
| `setup` | 2.2M | Two processes on one journal with deaths, a stale lock, a lost answer, an operator's change in between, adoption with and without approval, a foreign Worker or database of the derived name. `OnlyRecordedIsDeleted`: nothing is deleted but what the journal records as created, under the id it recorded; `JournalIsTrue`: a completed journal is true of the account, nothing is made that the journal does not announce, and a failed run left nothing it had recorded. |
| `slack_connection` | 1.1M | Three scenarios: connections and refreshes (three calls, two flows, two tenants, a tick, crashes and rejections anywhere); a key rotation under them (two calls); three operators rotating tokens. `RefreshTokenIsUsedOnce`; `CredentialIsKept`: what is stored is the last that was put or refreshed, and can be read; `FlowIsBoundOrSwept`; `TokensRotateAtomically`: the rotation implements `TokenRotation`. |

Runs whose property is violated, each a disagreement between the code and what the repository says of it:

| Run | Statement | What the code does |
|---|---|---|
| `capability_rate_limit` | a test of the capabilities: calls over the per-capability limit are rejected | the limiter reads the bucket, awaits, and writes it: calls in flight together all pass |
| `archive_search` | `docs/operations/execution-retention.md`: a search merges hot rows and archives | a duration that is no whole number of milliseconds is recorded and archived, and makes every search that meets its archive throw |
| `setup_cleanup` | `docs/operations/setup-run-journal.md`: after `setup_cleanup_incomplete`, retry the same run | the retry keeps the entry's `failureCode`, which the validation of the journal refuses: cleanup is never resumed |

Further statements of the repository that are false of the code. Each is a definition of its module and becomes an
invariant of the run by one line in its `.cfg`; TLC then refutes it with a trace of the given length. What the passing
properties and the theorems claim is weaker accordingly.

| Statement | Run, trace | What the code does |
|---|---|---|
| `StaleCountersDoNotQuarantine`: "The D1 recovery transition resets counters and re-enables the installation atomically, preventing stale counters from immediately re-triggering quarantine" (`docs/operations/runaway-quarantine.md:46`, and the comment at `migrations/0013_runaway_quarantine.sql:26`) | `runaway_guard`, 10 states | a guard that recorded its outcome before the recovery quarantines after it: the UPDATE (`runaway-guard.ts:63`) asks that the installation is enabled and not quarantined, not that the counters still stand |
| `CompletedLeavesNoCallInFlight`: "A completed handler must not leave capability effects in flight" (`loader/src/index.ts:629`) | `local_runtime`, 8 states | a promise chain the handler did not await calls after the check (631) and before the worker stops; the parent serves the call without looking at `settled` (446) |
| `EveryHopIsGranted`: "Every hop must remain public and in the exact-origin grant" (`docs/security/threat-model.md:57`) | `local_runtime`, 11 states | the grant is compared with the first URL; the provider follows a redirect to any of its own origins (`capabilities/src/index.ts:837`) |
| `SuccessLeavesNoCallInFlight`: "Unawaited capability RPCs are drained before the wrapper can emit a successful response" (`.changeset/calm-workers-call.md:20`) | `execution`, 10 states | a chain that calls after the last turn of the drain loop (`loader/src/cloudflare.ts:1049`) is not waited for |
| `OthersAreKept`: the journal "prevents cleanup from deleting resources that existed before the current run" (`docs/operations/setup-run-journal.md:4`), and `created` means the adapter proved that the run created the resource (line 23) | `setup` (without SYMMETRY), 40 states | a database found under the derived name is recorded as created (`cli/src/cloudflare-d1-setup-adapter.ts:76`), and deleted when a later operation fails |

**Bounds, and why they are enough.** Three invocations are one that prepares (connects, asks, records the first failure)
and two that race over the result; every property relates at most two invocations and the state they share. Where there
are two (`console`, `setup`, `execution`) the preparing one is part of the initial state of a scenario, or runs before
them. Lifetimes (`Retention`, `StateTtl`, `TokenTtl`, `AttemptTimeout`) of one tick with `MaxClock = 1` make each expiry,
and the tick before it, happen at every point of a handler. `MaxRevision` lets an unaudited write precede, interleave
with and follow audited ones. Two plugins and three versions give a rollback a right and a wrong target; two tenants
give every request an owner and a stranger. Thresholds of 2 need two guard calls to cooperate and leave a third to race.
`MaxAppendAttempts = 2` (3 in the code) lets an append lose every race against two others; the third writer's retries
then end with a conflict or a success. `MaxWrites = 6` bounds only the writes key rotation adds.

- `console`: pages of one row (`DefaultLimit`; a request may ask for two) over lists of three make a first page, a middle one
  and the last, with insertions between them; a limit of two in a window of two ticks, with three requests, is reached,
  refused and renewed; `max` requests per scenario (one for the refusals, two to five for interactions) are sent over two
  slots. One scenario revokes the token of a change under way. One runs every route with everything that may be wrong with
  a request, and thirteen each leave something out of the deployment.
- `local_runtime`: two attempts, each with at most two calls (before, between or after the steps of its end), limit and window of one, and a tick while a limited capability is in use. Two entries and two bytes of
  key-value state are reached by two writes.
- `execution`: two dispatches of at most two steps, a budget of one; the archive has three rows, batches of two, two jobs
  and one search, over four days.
- `setup`: the plan with one bucket of two, two migrations, three starts, one fault, one change by the operator. Two
  buckets are handled by one adapter in the same way.

**Symmetry** is declared only in runs without liveness, over invocations, flows, processes and (where no installation
has an owner yet) tenants, none of which a definition singles out. `slack_connection` has an action property,
`TokensRotateAtomically`, whose formula is symmetric too.

**Deadlock** is not checked (`CHECK_DEADLOCK FALSE`): the invocations are finitely many and a behaviour ends when all
have answered.

**Fairness.** `RunawayGuard`: a started execution ends and its host awaits the guard, so `Guarding(x)` is weakly fair.
`AuditLog`: the Worker drives an accepted append, so `Try(a)` is weakly fair. `LocalRuntime`: a timer that was set fires,
`TimerFires(a)`; nothing is assumed of the handler, the worker or the services. `Execution`: the caller's own timers fire
and its own steps are taken, and the writes of the recorder answer or fail; the worker, its capability calls and the
evidence may hang for ever. No fairness is assumed of arrivals, failures, recoveries, other writers or the clock.

## 4. The proofs

Checked by TLAPS for every value of the constants that satisfies the named assumptions: any number of handlers,
processes, rows, tenants and retries, any clock bound. All safety properties of the passing runs are theorems except
some of the console's. Every proof has the same course: an invariant `...Inv` that says what an invocation may rely on
between two of its calls, one lemma per action that the step keeps it, `Init` implies it, and it implies the property.
Where a property mixes safety and liveness its safety half is the theorem.

**`InstallationAdmin_proofs`.**
- `TypeCorrect` (`TypeOK`). Not inductive by itself: a handler about to write must still hold a request and a row.
  `TypeInv == TypeOK /\ PhaseOK` is.
- `RevisionsNameStates` (`RevisionNamesState`). Needs `RowIsNewest`: the current row is recorded and no recorded state has
  a larger revision, so a bumped revision is new.
- `AuditTrue` (`AuditIsHistory`). The trigger compares the revision alone; with the above that identifies the whole row
  the handler read, so the fields the event does not mention are unchanged too.
- `CallersServedHonestly` (`CallersAreServedHonestly`). `CallersInv` adds what a handler in flight has established
  (`FlightIsSound`: the tenant owns the installation, the target is of its plugin, a rollback that lost its
  acknowledgement and found no record wrote no event), what each answer claims (`IsTrue`), and that a remembered key has
  the event of its result (`KeyIsSound`) and lives as long as the retention of that event (`EventIsSound`). The latter is
  why a key applies once per period. The proof showed `ConflictIsHonest` to hold without an exception that the property
  used to make for the clock; it was dropped.

**`Execution_proofs`, the runaway guard.** `GuardInv` for `GuardTypes` and `GuardIsSound` (`QuarantineIsSound`). Between its calls a guard
invocation owns what it has yet to do: `PendingRecord` (a reason it recorded is still there unless a recovery came in
between) and `PendingPublication` (the incident of its transition is its own, and not published yet), which is why an
incident is notified once. `RecoveryAloneReleases` is the action half of `QuarantineLifecycle`.

**`ApprovalFlow_proofs`.** `FlowInv` for `FlowTypes`, `DecisionsAreSound`, `AnswersAreBacked`. `ApprovalOrigin` and `EventOrigin`
tie each approval and audit event to the request that made it; `CallMatchesPhase` says that the approval a handler is
about to decide exists and is its tenant's; `KeyOrigin` and `KeysApart` say that two approvals of one key are a retention
period apart, which a record that expires and is overwritten would otherwise let slip.

**`AuditLog_proofs`.**
- `ChainIsLinear` (`LinearHistory`), `AuditTypes`, through `ChainInv`. `FreshHead` (a head that counts no event is the
  genesis head) is needed for the first event of a scope.
- `TrailImplemented` (`TrailSpec`): an INSERT maps to `Record` of a fresh id at the end of its scope's log, every other step
  to a stutter.
- `AppendAnswersAreHonest`: the safety half of `AppendsEndHonestly`. The number of attempts never exceeds the head
  (`AppendIsSound`), because every refusal of the trigger stands for another writer's event.
- `TamperingIsDetected` (`TamperIsDetected`): what is listed is the chain, row `k` at place `k` (`ListIsChain`), and the
  verifier stops at the first difference, for a chain of any length. The digest is injective by construction (section 5).

**`SlackConnection_proofs`.** `ConnectionInv` for `ConnectionTypes`, `RefreshTokensAreUsedOnce`, `CredentialsAreKept`,
`FlowsAreBoundOrSwept`, and step by step for `RotationIsImplemented` (`TokensRotateAtomically`). The core is `SwapIsSound`: as
long as the ciphertext a call read is still stored, so is the value it expects, since every write encrypts under a fresh
IV (a value could return, a ciphertext cannot). `ExchangeIsExclusive` and `StoredOrigin` order the generations of a
connection: what was sent to Slack is older than what is stored as ready. `StoreIsCurrent` ties the deployment of keys to
the records, so nothing becomes unreadable when the old key goes.

**`Execution_proofs`, the ledger and the host.** One invariant per part, each kept by every step: `ArchiveInv` and `SearchInv` (a row that was due is in a
manifest the search read or has yet to read, or was a hot row when it read them) for `ExecutionsAreKept`; `RunsInv` (a
warm worker is what its id says; the calls the drain loop has looked at are settled and stay so, and when it ends these are
all there are) for `WorkersAreTheRequests` and `RunsEndHonestly`, the
safety half of `RunEndsHonestly`; `CounterInv` for `BudgetIsRespected`: runs past the check and not yet counted, together
with the counter, stay within the budget and the most that were under way at once, and the run that read the counter
heads the lock queue (`LockIsHeld`); `HostInv` for `ForwardsAreTransformed`. `ExecutionTypes` is the type invariant.

**`LocalRuntime_proofs`.** `IInv` for `RuntimeTypes`, `ResultsAreFinal`, `EffectsOnce`, `CallsAccounted`. `BrokerInv` is about one
call, `AttemptIsSound` about a worker and its parent: a call that was posted and not delivered is one the worker waits
for, so the check finds it, and a call that was delivered by then stays so whatever is called later (`Quiet`). `FacetInv`: the
transaction that will commit read the facet as it is. `RetryInv` relates the
two attempts of a call: before the second is started, a delivered success of the first is in the journal.

**`Setup_proofs`.** `SetupTypes`, `OnlyRecordedDeleted`, `JournalTrue`, from the conjunction of
- `Processes`: the journal in a process's memory is an ancestor of the file (`Ancestor`: same run, what is announced stays
  announced, what was created stays created, cleanup is never undone), and its draft follows it. With
  `validateRevisionChange` this makes a write by an outdated process impossible (`WritesAreNext`) although the lock may be
  stale;
- `SoundJournal`: an entry refers to a resource of its own operation and of the derived name if it was created; operations
  begin in order (`InOrder`), so no migration was recorded before the database it is for;
- `World`: what was deleted is in the file as created, what was made is announced;
- `AllBuilt`: as long as the operator changes nothing, what the file, every draft that may still be written, and every
  answer that may still be recorded say to be complete is there. A process that cleans up works on entries the file has
  in cleanup, makes a database only if none has its name, and deploys only over its own Worker (`BuiltStays`);
- `Alone`: without overlap the one process is up to date with the file, and what is cleaned up stays gone (`GoneStays`). This
  half needs the absence of overlap; `OnlyRecordedDeleted` and the rest of `JournalTrue` do not.

A step of a process is proved once: `ProcessStep` sorts the actions by what they do to the process (`Kind`), and each part of
the invariant is shown for the kinds.

**`AdminConsole_proofs`.** The interface brings no rights: it only decides which request is sent next, so a step of it is one
of a few moves on the slots (`StepKinds`, `ClientStep`), and each proof is about the steps of `AdminApi`.
- `RequestShape`: what a request holds by its phase. A request past "identifying" has a caller and a time, one past
  "reserving" the start of its window, and its route has the handler that is about to run.
- `WindowsBoundChanges`, through `WindowInv`. A reservation is counted before its change is made, so what stands against the
  limit is not the changes but `Held`: the changes of a bucket and the requests that hold a reservation and may still
  change something. As many of these as started in the bucket's current window are no more than its count; those of
  earlier windows are no more than the limit and start a window apart.
- `AccessStaysBounded`, through `AuthInv`. `TokenInv`: a credential belongs to one token for good, and a revocation is the only
  thing that happens to it; hence the router and the handler, which resolve a credential one after the other, find the
  same app, or the later one finds nobody. `CallerInv` is what a resolution found, said of the token as it is now: it had
  not expired, and a credential that was revoked when the handler asked for it is revoked still (`SpentStill`), so the
  resolution finds nobody. `Granted`: what was issued stays within the issuer (`StaysWithin`). For the
  pages, `PageInv` (`PagesStayTheCallers`): `inOrder` places every row of a selection once, because `precedes` is a strict
  order on rows with ids of their own (`InOrder`), so a page holds selected rows only.
- `KeysActOnce`, through `KeyInv`: a change with a key leaves a record that lasts `KeyLifetime`, the record is only ever
  replaced by a later one of its key after it ended, and no change of the key is made while it lasts (`Recorded`).
- `CommandsChangeWhatWasShown`, an action property. `RowsInv`: tables stay sound, and a writer that changes the state or the
  priority of an installation moves its revision (`RowsGrow`); so what was once seen of a row is true of it as long as the
  revision is the same (`Seen`), however late a refresh lands. `NumberInv`: a request and its effect carry a number nobody else has.
  `ConsoleInv` follows a row through the interface: an answer under way, a list that is shown, a page that is appended and
  a command that waits hold rows seen in the database of the credential they were asked with. The command's guard on the revision does
  the rest.

**Assumptions on constants.** TLC evaluates each on the runs. Bounds are natural numbers, and thresholds, limits, windows and
retention periods are not zero, as the code's configuration checks demand. NULL (`None`) is no value of the types it is
added to (`NoneIsNoValue`, `NoneIsNoRecord`, `NoneIsNoCode`, `NoneIsNoOutcome`, `CallsAreNamed`, and in `ConnectionConstants`,
`PolicyAssumption`, `SetupBounds`). Sets that the code counts are finite: `RunIds` (`LedgerConstants`), attempts
(`RuntimeConstants`). The others state what the inputs are:
- `ConstantsAssumption` (`InstallationAdmin`): the foreign keys of the tables. `ApprovalConstants`: the roles of `rbac.ts`.
- `ScenariosAreSound` (`Execution`): earlier rows have ids of their own, installations have an id and a flag.
- `ScenarioAssumption` (`AdminConsole`): every bound database exists and its tables have primary keys (`SoundTable`); stored
  tokens have ids, credentials of their own and scopes of `rbac.ts`; a session that is open from the start is one of a
  bootstrap identity in the database of its app. `PageAssumption` (`AdminStores`): ids are ordered, a page holds a row. `ScopesAssumption`, `FamilyAssumption`, `NoneAssumption`: NULL is none of the values it is told from.
- `PutsHaveASize` (`LocalRuntime`): a well-formed value has a size in bytes. `HttpConfiguration`: what the provider's
  constructor checks of its origins, methods and credentials.
- `ConnectionConstants` (`SlackConnection`): a scenario that rotates provider tokens has no OAuth callback; the two use
  secrets of different names.
- `PlanAssumption` (`Setup`): the plan is a part of the production plan, in its order. `InvocationsAssumption`: one run is
  always started with the same adapter configuration, as `docs/operations/setup-run-journal.md` requires of the operator; the
  journal does not record the configuration, so the code relies on it. `PreexistingAssumption`: what is in the account
  beforehand is the operator's, and no Worker there carries this run's marker.

**For the proofs the model states some things another way**, with the same behaviours: an archive batch is a set
(`ReadExpired`), the order of installations is defined by its result (`ByPriority`), the bytes of a facet are a cardinality
(`bytesOf`), cleanup of a setup goes down the operations of the plan (`IsLast`). Some definitions became more exact: the D1
adapter deletes by the id in the journal (`CreatedDatabase`), not by name, the ownership marker is asked of the Worker
that is then reported (`requireOwnershipMarker`), the rows of a page stand in places their order defines (`inOrder`), a generated token id is an unused one (`generateId`), not a count of the
tokens, and an issue is refused whose expiry is no time (`parseServiceTokenIssue`).

**Only model-checked:**
- Liveness under fairness, which is out of the prover's reach: the thresholds of `QuarantineLifecycle`, the ends of
  `AppendsEndHonestly`, `RunEndsHonestly` and `AttemptSettles`.
- Of the console (`AdminConsole` and what it extends): `TypeOK`, which types the whole state of the interface where the
  proofs need only the part `ConsoleInv` follows, and `ListsAreSound`, which compares a list with the whole of the sorted
  table it is a part of and needs the order of the pages, not only what is in them.
- The properties of the violated runs, which are false.

## 5. Limits of the models

- Encryption, hashing and randomness are perfect: no collision, no guessable state. The validation of the secret store's
  internal protocol and its deleting swap are left out.
- `TamperIsDetected` does not cover the removal of rows from the end of a chain: the verifier looks at the rows it is given
  and has no way to see it. Nor does it cover a forger who recomputes all later hashes.
- The failure codes of the local runtime are not told apart, and the budget of CPU time (`budget-guard.ts:90`), which is
  compared and added up in the same steps as the one of executions, is left out. So is the report of a lost usage summary
  (`execution-usage-recorder.ts:78`): it is optional and may itself fail, so a loss may be silent, and nothing rests on it.
- A handler that ended without answer and one that answered an error are the same where nobody can tell them apart.
- Clocks are monotone; two clocks are distinguished only where the code compares them (`ClockSkew`) and where a
  reservation carries its own time (`late`).

Some properties exempt a part of their hazard, which the models reach all the same:

- `QuarantineIsSound` says nothing of the counters in a notification whose guard was made stale by a recovery (`fresh`).
  That guard is the subject of `StaleCountersDoNotQuarantine` (section 3).
- `WindowBoundsChanges` says nothing of a bucket that a reservation with an older clock has reached (`late`): the code
  starts the window anew there.
- `ListsAreSound` says nothing of a list to which a page was appended that had been asked for before the last refresh
  (`overtaken`): the console appends it to the new list.
- `NoExecutionIsLost` lets a search miss a row that a job moves while the search is under way, between its two queries
  (`execution-archive.ts:137`).
- `ResultHasNoCallInFlight` and `RunEndsHonestly` speak of the calls made before the handler was found complete, or its
  response made. Later ones are the subject of `CompletedLeavesNoCallInFlight` and `SuccessLeavesNoCallInFlight`.
- `AccessIsBounded` measures an identity when the handler has it resolved. A token revoked after that moment still makes the
  one change that was under way; and since a revocation writes the time its caller read before two calls, that time may
  be earlier than such a change.
- `OnlyRecordedIsDeleted` compares what is deleted with the journal, `OthersAreKept` (false, section 3) with who made it. A bucket is recorded by its name alone, so one made again under it is not told apart.

Behaviour the models have and no property forbids, because the code and its documents leave it so, or the documents
disagree with it only in emphasis:

- An installation that is still marked quarantined but was re-enabled by a writer unaware of the quarantine stays enabled
  at the next threshold (`quarantineIfEnabled` requires `quarantined = 0`); a recovery enables an installation an operator
  had disabled on purpose.
- Two decisions over the internal API overwrite each other (`ApiUpdate` checks the row it read and updates by id alone);
  a decision over the admin route starts no resume hook.
- A command whose INSERT committed and whose acknowledgement was lost answers a conflict with the revision it made
  itself; only rollbacks have a record to look up.
- An expired Slack access token is refused before a refresh is considered, so such a credential waits for an explicit
  refresh or a reconnect.
- Two processes of one setup are ordered by the lock in their writes of the journal, not in their calls: one may make a
  resource again that the other has cleaned up. A D1 database whose creation was answered by nobody is left behind when
  the run is cleaned up (`setup-executor.ts:157`).
- Parallel runs may together pass the daily budget by as many as are under way.

## 6. Plan

1. **Proofs.** Of the console: that a page is the sorted rows it was asked for in their order, with it `ListsAreSound`.
2. **More of the system.** Publication and artifacts once their promise is settled; the audit export's cursor; the
   scheduled retention over scopes; `createApprovalContinuationRunner` beside `ApprovalFlow`.
3. **Larger instances.** Two tenants in `Execution`, three processes in `Setup`.
