---------------------------- MODULE RunawayGuard ----------------------------
(***************************************************************************)
(* The runaway guard of one installation (runaway-guard.ts and migration   *)
(* 0013): after each execution the host records the outcome, and when a    *)
(* threshold of consecutive failures or timeouts is reached it quarantines *)
(* the installation.  The trigger of migration 0013 disables the           *)
(* installation in the same statement.  Executions finish concurrently;    *)
(* between the two D1 calls of one guard any other guard, an operator's    *)
(* recovery or another writer of the enabled flag may run.                 *)
(***************************************************************************)
EXTENDS Naturals

CONSTANTS Executions,          \* executions, each followed by one guard call
          FailureThreshold, TimeoutThreshold,
          OtherWriters,        \* whether admin command, API and budget guard write enabled
          MaxRevision,         \* bound on the revisions the other writers reach
          Absent

(* An outcome, the guard's row, the phases of a guard call, and what a     *)
(* call that made the transition remembers of it.                          *)
Outcomes == {"success", "error", "timeout"}
Reasons == {"consecutive_failures", "consecutive_timeouts"}
Guard == [failures : Nat, timeouts : Nat, quarantined : BOOLEAN, reason : Reasons \cup {Absent}]
Phases == {"idle", "running", "quarantine", "publish", "ok", "quarantined", "rejected"}
Cause == [incident : Nat, fresh : BOOLEAN]

ASSUME PolicyAssumption ==
  /\ FailureThreshold \in Nat \ {0} /\ TimeoutThreshold \in Nat \ {0}
  /\ OtherWriters \in BOOLEAN /\ MaxRevision \in Nat
  /\ Absent \notin Reasons /\ Absent \notin Guard /\ Absent \notin Cause

VARIABLES
  enabled, revision,  \* the installation's row
  guard,              \* its row of installation_runaway_states, or Absent
  pc, state,          \* each guard call: its next step, the counters it recorded
  notified,           \* the notifications published
  incidents,          \* history: number of quarantine transitions
  recoveries,         \* history: number of recoveries
  reenabled,          \* history: another writer enabled it during the quarantine
  epoch,              \* history: how many recoveries preceded each recorded outcome
  cause               \* history: the transition each guard call made, or Absent

guardVars == <<enabled, revision, guard, pc, state, notified, incidents, recoveries, reenabled, epoch, cause>>

Notification == [by : Executions, cause : Cause, reason : Reasons, failures : Nat, timeouts : Nat]

GuardTypeOK ==
  /\ enabled \in BOOLEAN /\ revision \in Nat
  /\ guard \in Guard \cup {Absent}
  /\ pc \in [Executions -> Phases]
  /\ state \in [Executions -> Guard \cup {Absent}]
  /\ notified \subseteq Notification
  /\ incidents \in Nat /\ recoveries \in Nat /\ reenabled \in BOOLEAN
  /\ epoch \in [Executions -> Nat]
  /\ cause \in [Executions -> Cause \cup {Absent}]

GuardInit ==
  /\ enabled = TRUE /\ revision = 0
  /\ guard = Absent
  /\ pc = [x \in Executions |-> "idle"]
  /\ state = [x \in Executions |-> Absent]
  /\ notified = {}
  /\ incidents = 0 /\ recoveries = 0 /\ reenabled = FALSE
  /\ epoch = [x \in Executions |-> 0]
  /\ cause = [x \in Executions |-> Absent]

Quarantined == guard # Absent /\ guard.quarantined

-----------------------------------------------------------------------------
(* resolveInstallationsForHook selects enabled installations only.         *)
StartExecution(x) ==
  /\ pc[x] = "idle" /\ enabled
  /\ pc' = [pc EXCEPT ![x] = "running"]
  /\ UNCHANGED <<enabled, revision, guard, state, notified, incidents, recoveries, reenabled, epoch, cause>>

(* Mutated: a success takes one failure back.                              *)
outcomeStatement_Decrement(g, outcome) ==
  LET old == IF g = Absent THEN [failures |-> 0, timeouts |-> 0, quarantined |-> FALSE, reason |-> Absent]
             ELSE g
  IN [old EXCEPT !.failures = IF outcome = "success" THEN @ - 1 ELSE @ + 1]

(* The UPSERT touches the counters only.                                   *)
outcomeStatement(g, outcome) ==
  LET old == IF g = Absent THEN [failures |-> 0, timeouts |-> 0, quarantined |-> FALSE, reason |-> Absent]
             ELSE g
  IN [old EXCEPT !.failures = IF outcome = "success" THEN 0 ELSE @ + 1,
                 !.timeouts = IF outcome = "timeout" THEN @ + 1 ELSE 0]

quarantineReason(s) ==
  IF s.timeouts >= TimeoutThreshold THEN "consecutive_timeouts"
  ELSE IF s.failures >= FailureThreshold THEN "consecutive_failures"
  ELSE Absent

(* A reason already stored wins over the thresholds.                       *)
reasonOf(s) == IF s.reason # Absent THEN s.reason ELSE quarantineReason(s)

recordOutcome(x, outcome) ==
  LET new == outcomeStatement(guard, outcome) IN
  /\ pc[x] = "running"
  /\ guard' = new
  /\ state' = [state EXCEPT ![x] = new]
  /\ epoch' = [epoch EXCEPT ![x] = recoveries]
  /\ \/ pc' = [pc EXCEPT ![x] = IF reasonOf(new) = Absent THEN "ok" ELSE "quarantine"]
     \/ pc' = [pc EXCEPT ![x] = "rejected"]   \* committed, but the D1 call rejected
  /\ UNCHANGED <<enabled, revision, notified, incidents, recoveries, reenabled, cause>>

(* Trigger installation_runaway_quarantine.                                *)
quarantineTrigger ==
  /\ enabled' = FALSE
  /\ revision' = IF enabled THEN revision + 1 ELSE revision

(* Mutated: publishes without asking whether its UPDATE changed a row.     *)
quarantineIfEnabled_Always(x) ==
  /\ pc[x] = "quarantine"
  /\ guard' = [guard EXCEPT !.quarantined = TRUE, !.reason = reasonOf(state[x])]
  /\ quarantineTrigger
  /\ incidents' = IF Quarantined THEN incidents ELSE incidents + 1
  /\ cause' = [cause EXCEPT ![x] = [incident |-> incidents', fresh |-> epoch[x] = recoveries]]
  /\ pc' = [pc EXCEPT ![x] = "publish"]
  /\ UNCHANGED <<state, notified, recoveries, reenabled, epoch>>

(* Mutated: quarantines only what is still enabled.                        *)
quarantineIfEnabled_EnabledOnly(x) ==
  /\ pc[x] = "quarantine"
  /\ guard' = IF enabled THEN [guard EXCEPT !.quarantined = TRUE, !.reason = reasonOf(state[x])]
              ELSE guard
  /\ quarantineTrigger
  /\ pc' = [pc EXCEPT ![x] = "quarantined"]
  /\ UNCHANGED <<state, notified, incidents, recoveries, reenabled, epoch, cause>>

quarantineIfEnabled(x) ==
  /\ pc[x] = "quarantine"
  /\ \/ /\ ~Quarantined
        /\ guard' = [guard EXCEPT !.quarantined = TRUE, !.reason = reasonOf(state[x])]
        /\ quarantineTrigger
        /\ incidents' = incidents + 1 /\ reenabled' = FALSE
        /\ cause' = [cause EXCEPT ![x] = [incident |-> incidents', fresh |-> epoch[x] = recoveries]]
        /\ \/ pc' = [pc EXCEPT ![x] = "publish"]
           \/ pc' = [pc EXCEPT ![x] = "rejected"]
     \/ /\ Quarantined
        /\ pc' = [pc EXCEPT ![x] = "quarantined"]
        /\ UNCHANGED <<guard, enabled, revision, incidents, reenabled, cause>>
  /\ UNCHANGED <<state, notified, recoveries, epoch>>

notificationOf(x) ==
  [by |-> x, cause |-> cause[x], reason |-> reasonOf(state[x]),
   failures |-> state[x].failures, timeouts |-> state[x].timeouts]

publish(x) ==
  /\ pc[x] = "publish"
  /\ notified' = notified \cup {notificationOf(x)}
  /\ pc' = [pc EXCEPT ![x] = "quarantined"]
  /\ UNCHANGED <<enabled, revision, guard, state, incidents, recoveries, reenabled, epoch, cause>>

(* D1 or the notification sink fails, or the isolate dies: the guard call  *)
(* rejects and nobody resumes it.                                          *)
reject(x) ==
  /\ pc[x] \in {"running", "quarantine", "publish"}
  /\ pc' = [pc EXCEPT ![x] = "rejected"]
  /\ UNCHANGED <<enabled, revision, guard, state, notified, incidents, recoveries, reenabled, epoch, cause>>

(* Trigger installation_runaway_recovery.                                  *)
recoveryTrigger ==
  /\ enabled' = TRUE
  /\ revision' = IF enabled THEN revision ELSE revision + 1

(* recoverRunawayInstallation; without a persisted quarantine it throws    *)
(* and changes nothing.                                                    *)
recover ==
  /\ Quarantined
  /\ guard' = [failures |-> 0, timeouts |-> 0, quarantined |-> FALSE, reason |-> Absent]
  /\ recoveryTrigger
  /\ recoveries' = recoveries + 1
  /\ reenabled' = FALSE
  /\ UNCHANGED <<pc, state, notified, incidents, epoch, cause>>

(* The other writers of the enabled flag: updateInstallation and           *)
(* setInstallationEnabled (the API, and the budget guard's disable and     *)
(* re-enable).  None of them looks at the quarantine.                      *)
setEnabled(value) ==
  /\ OtherWriters /\ revision < MaxRevision
  /\ enabled' = value /\ revision' = revision + 1
  /\ reenabled' = (Quarantined /\ value)
  /\ UNCHANGED <<guard, pc, state, notified, incidents, recoveries, epoch, cause>>

Guarding(x) ==
  \/ \E outcome \in Outcomes : recordOutcome(x, outcome)
  \/ quarantineIfEnabled(x)
  \/ publish(x)

GuardNext ==
  \/ \E x \in Executions : StartExecution(x) \/ Guarding(x) \/ reject(x)
  \/ recover
  \/ \E value \in BOOLEAN : setEnabled(value)

GuardSpec == GuardInit /\ [][GuardNext]_guardVars

(* An execution that started ends, and its host awaits the guard: every    *)
(* step of a guard is eventually taken.  Nobody has to recover, and no     *)
(* call has to fail.                                                       *)
FairGuardSpec == GuardSpec /\ \A x \in Executions : WF_guardVars(Guarding(x))

-----------------------------------------------------------------------------
(* However many executions finish together, one quarantine transition      *)
(* publishes at most one notification.                                     *)
OneNotificationPerIncident ==
  /\ \A m, n \in notified : m.cause.incident = n.cause.incident => m = n
  /\ \A n \in notified : n.cause.incident \in 1..incidents

(* A notification reports counters at a threshold, the timeout threshold   *)
(* first, unless the installation was recovered between the guard's two D1 *)
(* calls.                                                                  *)
NotifiedAtThreshold ==
  \A n \in notified : n.cause.fresh =>
    IF n.reason = "consecutive_timeouts" THEN n.timeouts >= TimeoutThreshold
    ELSE n.failures >= FailureThreshold /\ n.timeouts < TimeoutThreshold

(* Only an explicit recovery ends a quarantine: no outcome that was still  *)
(* in flight, successful or not, and no other writer does.                 *)
OnlyRecoveryReleases ==
  [][Quarantined /\ ~Quarantined' => recoveries' = recoveries + 1]_guardVars

(* A quarantined installation is disabled, unless a writer that knows      *)
(* nothing of the quarantine enabled it again since the transition.        *)
QuarantineDisables == Quarantined => (enabled <=> reenabled)

(* A guard call that saw a threshold leaves the installation quarantined,  *)
(* also when another writer disabled it first, unless the call itself      *)
(* fails or a recovery came in between.                                    *)
ThresholdQuarantines ==
  \A x \in Executions :
    pc[x] = "quarantine" ~> (Quarantined \/ pc[x] = "rejected" \/ epoch[x] # recoveries)

(* Counters recorded before a recovery make no transition after it: the    *)
(* claim of docs/operations/runaway-quarantine.md:46 that recovery         *)
(* prevents stale counters from immediately re-triggering quarantine.  The *)
(* second D1 call of a guard (runaway-guard.ts:118) does not look whether  *)
(* its counters still stand.                                               *)
StaleCountersDoNotQuarantine == \A x \in Executions : cause[x] # Absent => cause[x].fresh

(* No threshold is missed between two executions: counters stand at a      *)
(* threshold without a quarantine only while some guard call is about to   *)
(* make the transition, or after one failed before it could.               *)
NoMissedThreshold ==
  /\ guard # Absent /\ ~Quarantined
  /\ guard.failures >= FailureThreshold \/ guard.timeouts >= TimeoutThreshold
  => \E x \in Executions : pc[x] \in {"quarantine", "rejected"}

(***************************************************************************)
(* The state the guard keeps, its notifications and the installation       *)
(* agree (runaway-guard.ts:95-136).                                        *)
(***************************************************************************)
QuarantineIsSound ==
  OneNotificationPerIncident /\ NotifiedAtThreshold /\ NoMissedThreshold /\ QuarantineDisables

(***************************************************************************)
(* A threshold leads to a quarantine unless a recovery comes before it,    *)
(* and nothing but a recovery ends one (runaway-guard.ts:63, 77).          *)
(***************************************************************************)
QuarantineLifecycle == ThresholdQuarantines /\ OnlyRecoveryReleases
=============================================================================
