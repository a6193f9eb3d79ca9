----------------------------- MODULE AdminStores -----------------------------
(***************************************************************************)
(* The D1 stores behind the Admin API, in packages/control-plane/src: the  *)
(* keyset pages of the dashboard (admin-dashboard.ts) with their cursors,  *)
(* the details (admin-executions.ts, admin-provider-connections.ts), and   *)
(* the changes. The changes that InstallationAdmin and ApprovalFlow take   *)
(* apart are one step here; the install of a plugin (admin-install-        *)
(* flow.ts) is taken apart.                                                *)
(***************************************************************************)
EXTENDS AdminAccess, SequencesExt

CONSTANTS AppOf,        \* the app each tenant belongs to
          Versions,     \* plugin versions: the app, the plugin and its capabilities
          Ids,          \* bound: ids of rows
          DefaultLimit, MaxLimit,  \* rows of a page (20 and 50)
          KeyLifetime,  \* of an idempotency record and of an approval (24 hours)
          Day           \* length of a day

ASSUME LifetimeAssumption == KeyLifetime \in Nat \ {0}

(***************************************************************************)
(* Ids are ordered, and a page holds a row.                                *)
(***************************************************************************)
ASSUME PageAssumption == Ids \subseteq Nat /\ DefaultLimit \in Nat \ {0} /\ MaxLimit \in Nat \ {0}

VARIABLES rows,   \* per database: rows of the dashboard's five tables
          keys    \* per database: the idempotency records

stores == <<rows, keys>>

Sections == {"installations", "pluginVersions", "approvals", "executions", "auditEvents"}

ExecutionStatuses == {"success", "error", "timeout", "egress_denied", "budget_exceeded"}

(***************************************************************************)
(* A row of any of the tables; "of" is the installation an audit event is  *)
(* about.                                                                  *)
(***************************************************************************)
RowFields == {"section", "id", "tenant", "app", "version", "plugin", "state", "priority", "revision", "at", "of"}

Row(section, id, tenant, version, state) ==
    [section |-> section, id |-> id, tenant |-> tenant, app |-> AppOf[tenant], version |-> version,
     plugin |-> Versions[version].plugin, state |-> state, priority |-> 0, revision |-> 0,
     at |-> clock, of |-> id]

(***************************************************************************)
(* A table: an id names one row of a section, and a version belongs to its *)
(* plugin's app.                                                           *)
(***************************************************************************)
SoundRow(r) ==
    /\ DOMAIN r = RowFields
    /\ r.id \in Nat /\ r.at \in Nat /\ r.revision \in Nat
    /\ r.section = "pluginVersions" => r.app = Versions[r.version].app

SoundTable(table) ==
    /\ IsFiniteSet(table)
    /\ \A r \in table : SoundRow(r)
    /\ \A a, b \in table : a.section = b.section /\ a.id = b.id => a = b

freshIds(database, section) == Ids \ {r.id : r \in {x \in rows[database] : x.section = section}}

rowsOf(database, section) == {r \in rows[database] : r.section = section}

ownRows(database, section, who) ==
    {r \in rowsOf(database, section) : r.tenant = who.tenant /\ AppOf[r.tenant] = who.app}

-----------------------------------------------------------------------------
(* Pages. Ids order three of the sections, the newest comes first in two.   *)

NewestFirst == {"executions", "auditEvents"}

executionPosition(row) == <<row.at, row.id>>

positionOf(row) == IF row.section \in NewestFirst THEN executionPosition(row) ELSE <<0, row.id>>

precedes(a, b) ==
    IF a.section \in NewestFirst THEN a.at > b.at \/ (a.at = b.at /\ a.id > b.id) ELSE a.id < b.id

beyond(position, row) ==
    \/ position = None
    \/ IF row.section \in NewestFirst
       THEN row.at < position[1] \/ (row.at = position[1] /\ row.id < position[2])
       ELSE row.id > position[2]

readInstallations(database, who) ==
    {r \in ownRows(database, "installations", who) : Versions[r.version].app = who.app}

(***************************************************************************)
(* A version belongs to an app; the tenant of the claim must be one of the *)
(* app's.                                                                  *)
(***************************************************************************)
readPluginVersions(database, who) ==
    {r \in rowsOf(database, "pluginVersions") :
        Versions[r.version].app = who.app /\ AppOf[who.tenant] = who.app}

readApprovals(database, who) == ownRows(database, "approvals", who)

readExecutions(database, who, filters) ==
    {r \in ownRows(database, "executions", who) :
        (filters.plugin # None => r.plugin = filters.plugin)
        /\ (filters.status # None => r.state = filters.status)}

readAuditEvents(database, who) ==
    {r \in ownRows(database, "auditEvents", who) :
        /\ \E i \in rowsOf(database, "installations") : i.id = r.of /\ i.tenant = r.tenant
        /\ Versions[r.version].app = who.app}

NoFilters == [plugin |-> None, status |-> None]

selected(database, who, section, filters) ==
    CASE section = "installations" -> readInstallations(database, who)
      [] section = "pluginVersions" -> readPluginVersions(database, who)
      [] section = "approvals" -> readApprovals(database, who)
      [] section = "executions" -> readExecutions(database, who, filters)
      [] section = "auditEvents" -> readAuditEvents(database, who)

(***************************************************************************)
(* Mutated: one row too many is skipped, the last one of the page before.  *)
(***************************************************************************)
keysetPage_Skips(sorted, limit) ==
    LET page == SubSeq(sorted, 1, IF Len(sorted) < limit THEN Len(sorted) ELSE limit) IN
    [items |-> page, next |-> IF Len(sorted) > limit THEN positionOf(sorted[limit + 1]) ELSE None]

(***************************************************************************)
(* One row more than the page holds is read: it tells whether there is a   *)
(* next page.                                                              *)
(***************************************************************************)
keysetPage(sorted, limit) ==
    LET page == SubSeq(sorted, 1, IF Len(sorted) < limit THEN Len(sorted) ELSE limit) IN
    [items |-> page, next |-> IF Len(sorted) > limit THEN positionOf(Last(page)) ELSE None]

(***************************************************************************)
(* Each row stands behind those that precede it.                           *)
(***************************************************************************)
inOrder(found) ==
    [i \in 1..Cardinality(found) |->
        CHOOSE r \in found : Cardinality({x \in found : precedes(x, r)}) = i - 1]

readSection(database, who, section, limit, position, filters) ==
    LET found == {r \in selected(database, who, section, filters) : beyond(position, r)} IN
    keysetPage(inOrder(found), limit)

(***************************************************************************)
(* A page that holds a row the store does not recognize is an error.       *)
(***************************************************************************)
corruptPage(page) == \E i \in DOMAIN page.items : page.items[i].state = "corrupt"

sameDay(at, now) == at \div Day = now \div Day

readUsageSummary(database, who, now) ==
    Cardinality({r \in readExecutions(database, who, NoFilters) : sameDay(r.at, now)})

readOperationalHealth(database, who, now) ==
    LET today == {r \in readExecutions(database, who, NoFilters) : sameDay(r.at, now)}
        count(status) == Cardinality({r \in today : r.state = status})
    IN [total |-> Cardinality(today), failed |-> Cardinality(today) - count("success"),
        timeout |-> count("timeout"), denied |-> count("egress_denied"),
        exceeded |-> count("budget_exceeded")]

-----------------------------------------------------------------------------
(* Cursors are signed payloads.                                             *)

createAdminCursorCodec_encode(who, section, position, query) ==
    [app |-> who.app, tenant |-> who.tenant, section |-> section, position |-> position,
     query |-> query, signed |-> TRUE]

cursorIsFor(payload, who, section, query) ==
    /\ payload.app = who.app /\ payload.tenant = who.tenant
    /\ payload.section = section /\ payload.query = query

isCursorPayload(cursor) == cursor.signed /\ cursor.section \in Sections

-----------------------------------------------------------------------------
(* Changes. Each gives an outcome, the rows it writes (an audit event with  *)
(* them) and the record of its key.                                         *)

auditEvent(database, row, action) ==
    [row EXCEPT !.section = "auditEvents", !.state = action, !.at = clock, !.of = row.id,
                !.id = CHOOSE n \in freshIds(database, "auditEvents") : TRUE]

write(database, new) ==
    rows' = [rows EXCEPT ![database] =
               {r \in @ : \A n \in new : n.section # r.section \/ n.id # r.id} \cup new]

Refused(outcome) == [outcome |-> outcome, row |-> None, new |-> {}]

Written(database, row, action) ==
    [outcome |-> "done", row |-> row, new |-> {row, auditEvent(database, row, action)}]

(***************************************************************************)
(* Mutated: the revision the caller expects is not compared.               *)
(***************************************************************************)
updateInstallation_AnyRevision(database, who, c) ==
    LET found == {r \in readInstallations(database, who) : r.id = c.id} IN
    IF found = {} THEN Refused("not_found")
    ELSE LET before == CHOOSE r \in found : TRUE
             after == [before EXCEPT !.state = IF c.state = None THEN @ ELSE c.state,
                                     !.priority = IF c.priority = None THEN @ ELSE c.priority]
         IN IF after = before THEN [outcome |-> "done", row |-> before, new |-> {}]
            ELSE Written(database, [after EXCEPT !.revision = @ + 1], "command")

updateInstallation(database, who, c) ==
    LET found == {r \in readInstallations(database, who) : r.id = c.id} IN
    IF found = {} THEN Refused("not_found")
    ELSE LET before == CHOOSE r \in found : TRUE
             after == [before EXCEPT !.state = IF c.state = None THEN @ ELSE c.state,
                                     !.priority = IF c.priority = None THEN @ ELSE c.priority]
         IN IF c.expected # before.revision THEN Refused("conflict")
            ELSE IF after = before THEN [outcome |-> "done", row |-> before, new |-> {}]
            ELSE Written(database, [after EXCEPT !.revision = @ + 1], "command")

(***************************************************************************)
(* The record of a key, while it lasts.                                    *)
(***************************************************************************)
recordOf(database, kind, who, key, now) ==
    {k \in keys[database] : /\ k.kind = kind /\ k.app = who.app /\ k.tenant = who.tenant
                            /\ k.key = key /\ k.expires > now}

resolveReplay(record, c) ==
    IF record.hash # c THEN Refused("key_reused")
    ELSE [outcome |-> "done", row |-> record.row, new |-> {}]

remember(database, kind, who, key, c, row, now) ==
    keys' = [keys EXCEPT ![database] =
               {k \in @ : \/ k.kind # kind \/ k.app # who.app \/ k.tenant # who.tenant
                          \/ k.key # key \/ k.expires > now}
               \cup {[kind |-> kind, app |-> who.app, tenant |-> who.tenant, key |-> key,
                     hash |-> c, row |-> row, expires |-> now + KeyLifetime]}]

rollback(database, who, c) ==
    LET found == {r \in readInstallations(database, who) :
                    r.id = c.id /\ Versions[c.version].plugin = r.plugin} IN
    IF found = {} THEN Refused("not_found")
    ELSE LET current == CHOOSE r \in found : TRUE IN
         IF c.expected # current.revision THEN Refused("conflict")
         ELSE IF current.version = c.version THEN Refused("same_version")
         ELSE Written(database, [current EXCEPT !.version = c.version, !.revision = @ + 1], "rollback")

(***************************************************************************)
(* What both the install and the request of one ask of a version.          *)
(***************************************************************************)
resolveAdminInstallProposal(who, c) ==
    IF Versions[c.version].app # who.app \/ AppOf[who.tenant] # who.app THEN "not_found"
    ELSE IF c.confirmed # Versions[c.version].capabilities THEN "capability_confirmation_mismatch"
    ELSE IF ~c.config THEN "invalid_config"
    ELSE None

readVersion(who, version) == Versions[version].app = who.app

proposedRow(section, id, who, c, state) ==
    [Row(section, id, who.tenant, c.version, state) EXCEPT !.priority = c.priority]

requestInstallation(id, who, c) ==
    LET refusal == resolveAdminInstallProposal(who, c) IN
    IF refusal # None THEN Refused(refusal)
    ELSE LET approval == proposedRow("approvals", id, who, c, "pending") IN
         [outcome |-> "done", row |-> approval, new |-> {approval}]

canDecideApproval(role) == canRolePerform(role, "approval:decide")

decide(database, id, who, c) ==
    LET found == {r \in readApprovals(database, who) : r.id = c.id} IN
    IF found = {} THEN Refused("approval_not_found")
    ELSE LET approval == CHOOSE r \in found : TRUE
             installation == [approval EXCEPT !.section = "installations", !.id = id, !.at = clock,
                                              !.state = "enabled", !.of = id]
         IN IF ~canDecideApproval(who.role) THEN Refused("approval_role_forbidden")
            ELSE IF approval.state # "pending" THEN Refused("approval_already_decided")
            ELSE IF approval.at + KeyLifetime <= clock THEN Refused("approval_expired")
            ELSE [outcome |-> "done", row |-> [approval EXCEPT !.state = c.decision],
                  new |-> {[approval EXCEPT !.state = c.decision]} \cup
                          IF c.decision = "approved"
                          THEN Written(database, installation, "install.approved").new ELSE {}]

readInstallation(database, who, id) == {r \in readInstallations(database, who) : r.id = id}

readExecution(database, who, id) ==
    {r \in ownRows(database, "executions", who) : r.id = id /\ Versions[r.version].app = who.app}
==============================================================================
