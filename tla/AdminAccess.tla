----------------------------- MODULE AdminAccess -----------------------------
(***************************************************************************)
(* Who may do what over the Admin API, in packages/control-plane/src:      *)
(* roles and operations (rbac.ts), the static bootstrap identities         *)
(* (api.ts), service tokens kept in D1 (service-tokens.ts), the database   *)
(* of an app (app-database-router.ts) and the rate limit of privileged     *)
(* changes (admin-mutation-rate-limit.ts and the Durable Object of worker- *)
(* entry.ts).                                                              *)
(***************************************************************************)
EXTENDS Integers, Sequences, FiniteSets, TLC

CONSTANTS None,
          Bootstrap,    \* the identities of ADMIN_IDENTITIES_JSON, by credential
          AppRoutes,    \* APP_DATABASE_ROUTES_JSON as pairs of an app and a binding
          Limit,        \* reservations of one bucket in a window
          Window,       \* length of that window
          MaxLifetime,  \* of a service token (90 days)
          MaxTokens     \* bound: service tokens issued

(***************************************************************************)
(* None is no answer of the code.                                          *)
(***************************************************************************)
ASSUME NoneAssumption ==
  None \notin {"valid", "invalid_service_token", "service_token_role_escalation", "service_token_scope_forbidden",
               "unsupported_media_type", "request_too_large"}

(***************************************************************************)
(* The limit and the window are positive (parseAdminMutationRateLimit-     *)
(* Configuration); None is not a record of the limiter.                    *)
(***************************************************************************)
ASSUME LimitAssumption ==
  /\ Limit \in Nat \ {0} /\ Window \in Nat \ {0} /\ MaxLifetime \in Nat
  /\ None \notin [start : Nat, count : Nat]

VARIABLES clock,    \* the time every Worker's clock reads
          tokens,   \* rows of service_tokens
          buckets   \* the record each rate limit object keeps

access == <<clock, tokens, buckets>>

-----------------------------------------------------------------------------
(* Roles.                                                                   *)

Roles == {"owner", "admin", "operator", "viewer", "tenant-admin"}

Reads == {"session:read", "dashboard:read", "installation:read", "execution:read", "usage:read"}

TenantChanges == {"installation:request", "installation:manage", "rollback:execute",
                  "approval:decide", "provider-connection:manage"}

TokenChanges == {"service-token:issue", "service-token:revoke"}

RBAC_OPERATIONS == Reads \cup TenantChanges \cup TokenChanges \cup {"rbac:manage"}

ASSUME ScopesAssumption == \A scopes \in SUBSET RBAC_OPERATIONS : scopes # None

permissions ==
    [role \in Roles |->
        CASE role = "owner" -> RBAC_OPERATIONS
          [] role = "admin" -> Reads \cup TenantChanges \cup TokenChanges
          [] role = "tenant-admin" -> Reads \cup TenantChanges
          [] role = "operator" -> Reads \cup {"installation:request"}
          [] role = "viewer" -> Reads]

(***************************************************************************)
(* Identities of the first phase carry "manager".                          *)
(***************************************************************************)
normalizeRbacRole(role) ==
    IF role = "manager" THEN "admin" ELSE IF role \in Roles THEN role ELSE None

canRolePerform(role, operation) ==
    LET normal == normalizeRbacRole(role) IN normal # None /\ operation \in permissions[normal]

-----------------------------------------------------------------------------
(* Identities. A field the claim leaves out is None.                        *)

Identity(subject, role, app, tenant, allowed) ==
    [subject |-> subject, role |-> role, app |-> app, tenant |-> tenant, allowed |-> allowed]

isTenantScopedAdminIdentity(who) ==
    /\ normalizeRbacRole(who.role) # None
    /\ who.app # None /\ who.tenant # None
    /\ who.allowed # None =>
         who.allowed # {} /\ \A o \in who.allowed : o \in RBAC_OPERATIONS /\ canRolePerform(who.role, o)

(***************************************************************************)
(* Mutated: a token's scopes are ignored.                                  *)
(***************************************************************************)
requireRbac_RoleOnly(who, operation) == canRolePerform(who.role, operation)

requireRbac(who, operation) ==
    canRolePerform(who.role, operation) /\ (who.allowed = None \/ operation \in who.allowed)

(***************************************************************************)
(* A router is built only from routes that name every app and every        *)
(* database once; an app without a route has no database.                  *)
(***************************************************************************)
createStaticAppDatabaseRouter(routes) ==
    \A a, b \in routes : a # b => a.app # b.app /\ a.database # b.database

databaseOf(app) ==
    IF \E r \in AppRoutes : r.app = app THEN (CHOOSE r \in AppRoutes : r.app = app).database ELSE None

-----------------------------------------------------------------------------
(* Service tokens.                                                          *)

forbiddenMachineScopes == TokenChanges \cup {"rbac:manage"}

(***************************************************************************)
(* What a request to issue a token may not ask for. The issuer's role must *)
(* hold every operation the token's role holds.                            *)
(***************************************************************************)
assertValidIssue_AnyScope(who, asked) ==
    IF asked.expiresAt <= clock \/ asked.expiresAt - clock > MaxLifetime \/ asked.scopes = {}
    THEN "invalid_service_token"
    ELSE IF \/ ~canRolePerform(who.role, "service-token:issue")
            \/ \E o \in RBAC_OPERATIONS : canRolePerform(asked.role, o) /\ ~canRolePerform(who.role, o)
    THEN "service_token_role_escalation"
    ELSE None

assertValidIssue(who, asked) ==
    IF asked.expiresAt <= clock \/ asked.expiresAt - clock > MaxLifetime \/ asked.scopes = {}
    THEN "invalid_service_token"
    ELSE IF \/ ~canRolePerform(who.role, "service-token:issue")
            \/ \E o \in RBAC_OPERATIONS : canRolePerform(asked.role, o) /\ ~canRolePerform(who.role, o)
    THEN "service_token_role_escalation"
    ELSE IF \E s \in asked.scopes : s \in forbiddenMachineScopes \/ ~canRolePerform(asked.role, s)
    THEN "service_token_scope_forbidden"
    ELSE None

(***************************************************************************)
(* A credential carries the prefix of the managed namespace or not.        *)
(***************************************************************************)
ServiceCredential(n) == [managed |-> TRUE, n |-> n]

isServiceTokenCredential(credential) == credential.managed

TokenFields == {"id", "credential", "role", "app", "tenant", "scopes", "by", "createdAt", "expiresAt",
                "revokedAt", "revokedBy"}

(***************************************************************************)
(* A generated id and secret are no other token's.                         *)
(***************************************************************************)
unusedTokenIds == {n \in 1..MaxTokens : \A row \in tokens : row.id # n}

generateId == CHOOSE n \in unusedTokenIds : TRUE

(***************************************************************************)
(* The row stored for a new token; "by" names who issued it.               *)
(***************************************************************************)
tokenRecord(who, asked) ==
    [id |-> generateId, credential |-> ServiceCredential(generateId),
     role |-> asked.role, app |-> who.app, tenant |-> who.tenant, scopes |-> asked.scopes,
     by |-> who.subject, createdAt |-> clock, expiresAt |-> asked.expiresAt,
     revokedAt |-> None, revokedBy |-> None]

serviceTokenFromRow(row) ==
    /\ row.role \in Roles /\ row.scopes # {}
    /\ \A s \in row.scopes : s \notin forbiddenMachineScopes /\ canRolePerform(row.role, s)
    /\ (row.revokedAt = None) = (row.revokedBy = None)

findByTokenHash(credential) == {row \in tokens : row.credential = credential}

LiveToken(row) == row.revokedAt = None /\ row.expiresAt > clock

isRevoked(credential) == \E row \in findByTokenHash(credential) : row.revokedAt # None

(***************************************************************************)
(* The revocation of a token: the first time and actor stay. The time is   *)
(* the one the caller read before the store was asked.                     *)
(***************************************************************************)
revokeToken(id, who, at) ==
    tokens' = {IF row.id = id /\ row.app = who.app /\ row.tenant = who.tenant /\ row.revokedAt = None
               THEN [row EXCEPT !.revokedAt = at, !.revokedBy = who.subject] ELSE row : row \in tokens}

tokenExists(id, who) == \E row \in tokens : row.id = id /\ row.app = who.app /\ row.tenant = who.tenant

-----------------------------------------------------------------------------
(* Resolving a credential. It gives an identity, nothing, or throws, as D1  *)
(* may at any time and as a row does that is not a token's.                 *)

Found(who) == [kind |-> "identity", who |-> who]
NotFound == [kind |-> "none", who |-> None]
Thrown == [kind |-> "thrown", who |-> None]

createServiceTokenIdentityResolver(credential) ==
    LET rows == findByTokenHash(credential) IN
    IF rows = {} THEN NotFound
    ELSE LET row == CHOOSE r \in rows : TRUE IN
         IF ~serviceTokenFromRow(row) THEN Thrown
         ELSE IF ~LiveToken(row) THEN NotFound
         ELSE Found(Identity("service-token:" \o ToString(row.id), row.role, row.app, row.tenant, row.scopes))

createStaticTokenIdentityResolver(credential) ==
    IF credential \in DOMAIN Bootstrap THEN Found(Bootstrap[credential]) ELSE NotFound

(***************************************************************************)
(* A credential of the managed namespace never falls back to the bootstrap *)
(* identities.                                                             *)
(***************************************************************************)
resolveToken(credential) ==
    IF isServiceTokenCredential(credential)
    THEN {Thrown, createServiceTokenIdentityResolver(credential)}
    ELSE {createStaticTokenIdentityResolver(credential)}

-----------------------------------------------------------------------------
(* The rate limit of privileged changes: one Durable Object per bucket,     *)
(* each call of it atomic. The time is read by the calling Worker, before   *)
(* the call.                                                                *)

rateLimitBucketId(who, family) == <<who.app, who.tenant, who.subject, family>>

windowOf(bucket) == IF bucket \in DOMAIN buckets THEN buckets[bucket] ELSE None

(***************************************************************************)
(* Mutated: the count may reach one more than the limit.                   *)
(***************************************************************************)
evaluateFixedWindowReservation_OneMore(current, now) ==
    IF current = None \/ current.start > now \/ now >= current.start + Window
    THEN [record |-> [start |-> now, count |-> 1], count |-> 1]
    ELSE IF current.count > Limit THEN [record |-> current, count |-> Limit + 1]
    ELSE [record |-> [current EXCEPT !.count = @ + 1], count |-> current.count]

evaluateFixedWindowReservation(current, now) ==
    IF current = None \/ current.start > now \/ now >= current.start + Window
    THEN [record |-> [start |-> now, count |-> 1], count |-> 1]
    ELSE IF current.count >= Limit THEN [record |-> current, count |-> Limit + 1]
    ELSE [record |-> [current EXCEPT !.count = @ + 1], count |-> current.count + 1]

reserve(bucket, now) ==
    LET record == evaluateFixedWindowReservation(windowOf(bucket), now).record IN
    buckets' = [b \in DOMAIN buckets \cup {bucket} |-> IF b = bucket THEN record ELSE buckets[b]]

reservationCount(bucket, now) == evaluateFixedWindowReservation(windowOf(bucket), now).count

retryAfter(bucket, now) ==
    LET record == evaluateFixedWindowReservation(windowOf(bucket), now).record
        left == record.start + Window - now
    IN IF left < 1 THEN 1 ELSE left
==============================================================================
