-------------------------------- MODULE Setup --------------------------------
(***************************************************************************)
(* A production setup run of the CLI                                       *)
(* (packages/cli/src/setup-executor.ts): executeProductionSetup walks the  *)
(* plan, checkpoints every phase in a journal file, and after a failure    *)
(* deletes what the run made, in the reverse order.  Processes die at any  *)
(* point and are started again by the operator, two may be started on one  *)
(* journal, and the journal's lock file outlives the process that made it. *)
(***************************************************************************)
EXTENDS SetupAdapters

CONSTANTS Invocations,   \* how the command may be started: run, runtime, approved adoptions, routes
          MaxStarts,     \* bound: processes started
          MaxChanges,    \* bound: changes the operator makes by hand
          Preexisting    \* the sets of resources that may be in the account before the run

Runs == {i.run : i \in Invocations}

(***************************************************************************)
(* What may be in the account beforehand is the operator's, and of what    *)
(* setup has an adapter for, under the derived name or another one (a name *)
(* is derived from the run ID, so it is taken when the ID was used before  *)
(* and its journal is gone); a Worker with this run's marker is not there  *)
(* yet.                                                                    *)
(***************************************************************************)
ASSUME PreexistingAssumption ==
    \A before \in Preexisting : \A r \in before :
        /\ r \in [op : Ops, derived : BOOLEAN, maker : {"operator"}, asAsked : BOOLEAN]
        /\ Plan[r.op].kind \in {"d1", "r2", "worker"}
        /\ Plan[r.op].kind = "worker" /\ r.derived => ~r.asAsked

(***************************************************************************)
(* "Resume with the same plan, runtime, run ID, journal, and adapter       *)
(* configuration" (docs/operations/setup-run-journal.md).                  *)
(***************************************************************************)
ASSUME InvocationsAssumption ==
    \A i, k \in Invocations : i.run = k.run => i.config = k.config

ASSUME SetupBounds ==
    /\ MaxStarts \in Nat /\ MaxChanges \in Nat
    /\ None \notin {"created", "adopted", "applied", "rejected", "operator", "setup", "conflict", "cleaning",
                    "make", "setup_operation_failed", "setup_cleanup_failed"}
    /\ None \notin Journals(Runs) \cup Refs

VARIABLES file,      \* the journal file
          lock,      \* whether the lock file exists
          starts,
          changes,
          overlapped \* whether two processes of the command were ever alive at once

vars == <<account, applied, proc, faults, deleted, file, lock, starts, changes, overlapped>>

cloud == <<account, applied, faults, deleted>>
disk == <<file, lock>>
bounds == <<changes, overlapped>>

Off == [pc |-> "off", invocation |-> None, config |-> None, journal |-> None, draft |-> None, then |-> None,
        at |-> 0, work |-> Idle, result |-> None, failedCleanup |-> {}, error |-> None]

Init ==
    /\ account \in Preexisting /\ applied = 0 /\ deleted = {} /\ faults = 0
    /\ proc = [p \in Procs |-> Off]
    /\ file = None /\ lock = FALSE
    /\ starts = 0 /\ changes = 0 /\ overlapped = FALSE

Alive(p) == proc[p].pc # "off"

Becomes(p, new) == proc' = [proc EXCEPT ![p] = new]

(***************************************************************************)
(* The process ends.  A journal it refuses is what its error says.         *)
(***************************************************************************)
Ends(p) == Becomes(p, Off)

Refuses(p) == Becomes(p, [Off EXCEPT !.error = "setup journal is invalid", !.invocation = proc[p].invocation])

-----------------------------------------------------------------------------
(* Saving the journal.  updateJournal parses the next revision before it    *)
(* writes it; saveJournalFile takes the lock file, compares revisions,      *)
(* replaces the file atomically and removes the lock.  A save goes on to    *)
(* "then" at the plan position "at".                                        *)

(***************************************************************************)
(* Mutated: what is written is not validated first.                        *)
(***************************************************************************)
updateJournal_Unparsed(p, next, then, at, work) ==
    Becomes(p, [proc[p] EXCEPT !.pc = "lock", !.draft = [next EXCEPT !.revision = @ + 1], !.then = then,
                               !.at = at, !.result = None, !.work = work])

updateJournal(p, next, then, at, work) ==
    LET draft == [next EXCEPT !.revision = @ + 1] IN
    IF ~parseSetupRunJournal(draft) THEN Refuses(p)
    ELSE Becomes(p, [proc[p] EXCEPT !.pc = "lock", !.draft = draft, !.then = then, !.at = at,
                                    !.result = None, !.work = work])

LockJournal(p) ==
    /\ proc[p].pc = "lock"
    /\ IF lock THEN Ends(p) /\ UNCHANGED lock
       ELSE lock' = TRUE /\ proc' = [proc EXCEPT ![p].pc = "write"]
    /\ UNCHANGED <<cloud, file, starts, bounds>>

validateRevisionChange(p) ==
    IF file = None THEN proc[p].draft.revision = 1 ELSE file.revision + 1 = proc[p].draft.revision

WriteJournal(p) ==
    /\ proc[p].pc = "write"
    /\ IF validateRevisionChange(p)
       THEN file' = proc[p].draft /\ proc' = [proc EXCEPT ![p].pc = "unlock"]
       ELSE UNCHANGED file /\ proc' = [proc EXCEPT ![p].pc = "unlock", ![p].then = "conflict"]
    /\ UNCHANGED <<cloud, lock, starts, bounds>>

UnlockJournal(p) ==
    /\ proc[p].pc = "unlock"
    /\ lock' = FALSE
    /\ IF proc[p].then = "conflict" THEN Ends(p)
       ELSE Becomes(p, [proc[p] EXCEPT !.pc = proc[p].then, !.journal = proc[p].draft,
                                       !.draft = None, !.then = None])
    /\ UNCHANGED <<cloud, file, starts, bounds>>

-----------------------------------------------------------------------------
(* The run.                                                                 *)

(***************************************************************************)
(* The operator starts the command.  Composition first checks how every    *)
(* adapter is configured and that every operation has an owner.            *)
(***************************************************************************)
StartSetup(p, invocation) ==
    /\ ~Alive(p) /\ starts < MaxStarts
    /\ starts' = starts + 1
    /\ overlapped' = (overlapped \/ \E q \in Procs : Alive(q))
    /\ IF validateConfiguration(invocation.config) /\ validateAndIndexRoutes(Ids(Plan), invocation.routes)
       THEN Becomes(p, [Off EXCEPT !.pc = "load", !.invocation = invocation.run, !.config = invocation.config])
       ELSE Ends(p)
    /\ UNCHANGED <<cloud, disk, changes>>

LoadJournal(p) ==
    /\ proc[p].pc = "load"
    /\ LET i == proc[p].invocation IN
       IF file = None
       THEN IF normalizeApprovedAdoptions(i.approved)
            THEN Becomes(p, [proc[p] EXCEPT !.pc = "lock", !.draft = createSetupRunJournal(i),
                                            !.then = "walk"])
            ELSE Refuses(p)
       ELSE IF ~validateJournalForPlan(file, i) THEN Refuses(p)
       ELSE Becomes(p, [proc[p] EXCEPT !.pc = IF file.state = "completed" THEN "done"
                                              ELSE IF HasFailed(file) THEN "cleanup" ELSE "walk",
                                       !.journal = file, !.at = Len(Plan)])
    /\ UNCHANGED <<cloud, disk, starts, bounds>>

Looks(i, resume) == [op |-> i, resume |-> resume, call |-> "look", seen |-> 0]

(***************************************************************************)
(* The loop over the operations: a completed one is skipped, a pending one *)
(* is checkpointed before its provider is asked for anything.              *)
(***************************************************************************)
WalkPlan(p) ==
    /\ proc[p].pc = "walk"
    /\ LET j == proc[p].journal
           left == {i \in Ops : j.entries[i].phase # "completed"}
       IN \/ left = {} /\ updateJournal(p, [j EXCEPT !.state = "completed"], "done", 0, Idle)
          \/ \E i \in Ops :
                /\ IsFirst(i, left)
                /\ \/ /\ j.entries[i].phase = "in-progress"
                      /\ Becomes(p, [proc[p] EXCEPT !.pc = "reconcile", !.at = i, !.work = Looks(i, TRUE)])
                   \/ /\ j.entries[i].phase = "pending"
                      /\ updateJournal(p, [j EXCEPT !.entries[i].phase = "in-progress"],
                                       "reconcile", i, Looks(i, FALSE))
    /\ UNCHANGED <<cloud, disk, starts, bounds>>

(***************************************************************************)
(* The adapter settled.  Success is checkpointed with what was made; a     *)
(* failure, or an answer the operation may not give, fails the run, and    *)
(* the entry remembers no resource.                                        *)
(***************************************************************************)
ReconcileSettled(p) ==
    /\ proc[p].pc = "settled" /\ proc[p].then # "cleaning"
    /\ LET i == proc[p].at
           j == proc[p].journal
           result == proc[p].result
       IN IF validateReconcileResult(i, result, j.invocation.approved)
          THEN updateJournal(p, [j EXCEPT !.entries[i] =
                   [phase |-> "completed", disposition |-> result.disposition,
                    ref |-> result.ref, failureCode |-> None]], "walk", 0, Idle)
          ELSE updateJournal(p, [j EXCEPT !.entries[i].phase = "failed",
                                          !.entries[i].failureCode = "setup_operation_failed"],
                             "cleanup", Len(Plan), Idle)
    /\ UNCHANGED <<cloud, disk, starts, bounds>>

-----------------------------------------------------------------------------
(* Cleanup of a failed run.                                                 *)

CleanupStep(p) ==
    /\ proc[p].pc = "cleanup"
    /\ LET j == proc[p].journal
           left == {i \in Ops : i <= proc[p].at /\ Creates(i) /\ IsCleanedUp(j.entries[i])}
       IN \/ /\ left = {}
             /\ updateJournal(p, [j EXCEPT !.state = IF proc[p].failedCleanup = {} THEN "failed"
                                                     ELSE "cleanup-incomplete"], "failed", 0, Idle)
          \/ \E i \in Ops :
                /\ IsLast(i, left)
                /\ IF j.entries[i].phase # "cleaning"
                   THEN updateJournal(p, [j EXCEPT !.entries[i].phase = "cleaning"], "cleanup", i, Idle)
                   ELSE Becomes(p, [proc[p] EXCEPT !.pc = "clean", !.then = "cleaning", !.at = i,
                                                   !.work = Looks(i, FALSE)])
    /\ UNCHANGED <<cloud, disk, starts, bounds>>

(***************************************************************************)
(* Mutated: a resource whose deletion failed counts as cleaned up.         *)
(***************************************************************************)
CleanupSettled_Trusting(p) ==
    /\ proc[p].pc = "settled" /\ proc[p].then = "cleaning"
    /\ updateJournal(p, [proc[p].journal EXCEPT !.entries[proc[p].at].phase = "cleaned"],
                     "cleanup", proc[p].at - 1, Idle)
    /\ UNCHANGED <<cloud, disk, starts, bounds>>

CleanupSettled(p) ==
    /\ proc[p].pc = "settled" /\ proc[p].then = "cleaning"
    /\ LET i == proc[p].at
           j == proc[p].journal
           ok == proc[p].result.disposition # "rejected"
           next == [j EXCEPT !.entries[i].phase = IF ok THEN "cleaned" ELSE "cleanup-failed",
                             !.entries[i].failureCode = IF ok THEN None ELSE "setup_cleanup_failed",
                             !.revision = @ + 1]
       IN IF ~parseSetupRunJournal(next) THEN Refuses(p)
          ELSE Becomes(p, [proc[p] EXCEPT !.pc = "lock", !.draft = next, !.then = "cleanup", !.at = i - 1,
                                          !.result = None, !.work = Idle,
                                          !.failedCleanup = IF ok THEN @ ELSE @ \cup {i}])
    /\ UNCHANGED <<cloud, disk, starts, bounds>>

(***************************************************************************)
(* The command prints its outcome and exits.                               *)
(***************************************************************************)
Exit(p) ==
    /\ proc[p].pc \in {"done", "failed"}
    /\ Ends(p)
    /\ UNCHANGED <<cloud, disk, starts, bounds>>

-----------------------------------------------------------------------------
(* What happens around the run.                                             *)

(***************************************************************************)
(* The process is killed: only the account and the files are left.         *)
(***************************************************************************)
Crash(p) ==
    /\ Alive(p)
    /\ Ends(p)
    /\ UNCHANGED <<cloud, disk, starts, bounds>>

(***************************************************************************)
(* The operator removes a stale lock, once no process is left (runbook).   *)
(***************************************************************************)
RemoveStaleLock ==
    /\ lock /\ \A p \in Procs : ~Alive(p)
    /\ lock' = FALSE
    /\ UNCHANGED <<cloud, proc, file, starts, bounds>>

(***************************************************************************)
(* Between runs the operator deletes what the run made, makes it again by  *)
(* hand, or deploys the Worker again without the run's marker; or a        *)
(* migration of somebody else's is applied.                                *)
(***************************************************************************)
OperatorChanges ==
    /\ changes < MaxChanges /\ \A p \in Procs : ~Alive(p)
    /\ changes' = changes + 1
    /\ \/ \E r \in account : r.derived /\ account' = account \ {r} /\ UNCHANGED applied
       \/ \E r \in account :
              /\ r.derived /\ r.maker = "setup"
              /\ \E new \in {resource(r.op, TRUE, "operator", FALSE),
                             resource(r.op, TRUE, "operator", TRUE), [r EXCEPT !.asAsked = FALSE]} :
                     /\ Plan[r.op].kind = "worker" => ~new.asAsked
                     /\ new.maker = "setup" => Plan[r.op].kind = "worker"
                     /\ account' = (account \ {r}) \cup {new}
              /\ applied' = IF Plan[r.op].kind = "d1" THEN 0 ELSE applied
       \/ applied' = Drifted /\ UNCHANGED account
    /\ UNCHANGED <<proc, faults, deleted, disk, starts, overlapped>>

Step(p) ==
    \/ LockJournal(p) \/ WriteJournal(p) \/ UnlockJournal(p)
    \/ LoadJournal(p) \/ WalkPlan(p) \/ ReconcileSettled(p)
    \/ CleanupStep(p) \/ CleanupSettled(p) \/ Exit(p)
    \/ Work(p) /\ UNCHANGED <<disk, starts, bounds>>

Next ==
    \/ \E p \in Procs : Step(p) \/ Crash(p) \/ \E i \in Invocations : StartSetup(p, i)
    \/ RemoveStaleLock \/ OperatorChanges

Spec == Init /\ [][Next]_vars

-----------------------------------------------------------------------------
(* Properties.                                                              *)

(***************************************************************************)
(* Types: the journal on disk always parses, so that a later process can   *)
(* read it.                                                                *)
(***************************************************************************)
TypeOK ==
    /\ \A r \in account \cup deleted : r.op \in Ops /\ r.derived \in BOOLEAN /\ r.maker \in {"setup", "operator"}
    /\ applied \in 0 .. Drifted
    /\ file # None => parseSetupRunJournal(file)
    /\ faults \in 0 .. MaxFaults /\ starts \in 0 .. MaxStarts /\ changes \in 0 .. MaxChanges
    /\ lock \in BOOLEAN
    /\ \A p \in Procs : proc[p].work.op \in Ops \cup {0}

(***************************************************************************)
(* Cleanup deletes only what the journal records as created under the      *)
(* derived name: nothing that was adopted, no Worker, and no database that *)
(* has another id than the recorded one, such as one the operator has made *)
(* again since.  This is what the journal guarantees, and it is not that   *)
(* the run made what it deletes: see the next property.                    *)
(***************************************************************************)
OnlyRecordedIsDeleted ==
    \A r \in deleted :
        /\ r.derived /\ Plan[r.op].kind # "worker"
        /\ file.entries[r.op].disposition = "created" /\ file.entries[r.op].ref = resourceRef(r)

(***************************************************************************)
(* "The journal is the ownership boundary for future live Cloudflare       *)
(* setup: it prevents cleanup from deleting resources that existed before  *)
(* the current run" (docs/operations/setup-run-journal.md:3-5): false of   *)
(* the code, which takes a database or a bucket of the derived name for    *)
(* created by the run (cloudflare-d1-setup-adapter.ts:76).                 *)
(***************************************************************************)
OthersAreKept == \A r \in deleted : r.maker = "setup"

(***************************************************************************)
(* A journal that says "completed" tells the truth: unless the operator    *)
(* changed the account by hand, every resource it refers to is there, the  *)
(* migrations are all applied, and what was adopted had been approved.     *)
(* This is so whatever processes died, raced or lost answers on the way.   *)
(***************************************************************************)
CompletedIsBuilt ==
    file # None /\ file.state = "completed" =>
        \A i \in Ops :
            /\ file.entries[i].disposition = "adopted" => Plan[i].id \in file.invocation.approved
            /\ changes = 0 => /\ Creates(i) => \E r \in account : resourceRef(r) = file.entries[i].ref
                              /\ Plan[i].action = "apply" => applied = Migrations

(***************************************************************************)
(* Nothing is made before the journal announces it, so a run that dies is  *)
(* resumed from a journal that knows every operation it may have carried   *)
(* out.  And a run that ended "failed" has left nothing of what it had     *)
(* recorded as made - unless two processes of it overlapped: the lock      *)
(* orders their writes, not their calls, and one that loaded an operation  *)
(* in progress makes its resource again after the other has cleaned up.    *)
(***************************************************************************)
JournalKnowsAccount ==
    /\ \A r \in account : r.maker = "setup" => file # None /\ file.entries[r.op].phase # "pending"
    /\ file # None /\ file.state = "failed" /\ changes = 0 /\ ~overlapped =>
           \A i \in Ops : file.entries[i].disposition = "created" =>
               \A r \in account : resourceRef(r) # file.entries[i].ref

(***************************************************************************)
(* "If cleanup returns setup_cleanup_incomplete, preserve the journal and  *)
(* resolve provider access or availability before retrying the same run":  *)
(* a process started as the journal's own run is never refused it as       *)
(* invalid.                                                                *)
(***************************************************************************)
CleanupCanBeRetried ==
    \A p \in Procs :
        proc[p].error = "setup journal is invalid" /\ file # None /\ normalizeApprovedAdoptions(proc[p].invocation.approved)
            => proc[p].invocation # file.invocation

(***************************************************************************)
(* The journal tells the truth of the account: what it calls completed is  *)
(* there, and whatever a run has made is in it (setup-                     *)
(* executor.ts:171-178).                                                   *)
(***************************************************************************)
JournalIsTrue == CompletedIsBuilt /\ JournalKnowsAccount
=============================================================================
