------------------------------ MODULE SetupPlan ------------------------------
(***************************************************************************)
(* What the production setup of the CLI works from                         *)
(* (packages/cli/src/setup-plan.ts, setup-provider-router.ts and the data  *)
(* of setup-executor.ts): the fixed plan of operations, the preflight that *)
(* gives every operation one owner, and the journal a run is resumed from. *)
(* The journal is data that is validated every time it is written and      *)
(* every time it is read, so its validation is part of what the program    *)
(* can do next; the identifiers, digests and patterns in it are not.       *)
(***************************************************************************)
EXTENDS Naturals, Sequences, FiniteSets, SequencesExt

CONSTANTS Plan,      \* the operations of this run, in the order they are applied
          None       \* an absent optional field

(***************************************************************************)
(* One entry of the plan.  "ready" is false of an operation whose provider *)
(* integration is still required.                                          *)
(***************************************************************************)
operation(id, kind, action, ready, dependsOn) ==
    [id |-> id, kind |-> kind, action |-> action, ready |-> ready, dependsOn |-> dependsOn]

(***************************************************************************)
(* The plan the program makes, for whichever runtime is selected.          *)
(***************************************************************************)
ProductionOperations ==
    << operation("create:control-plane-d1", "d1", "create", TRUE, {}),
       operation("declare:app-database-boundary", "d1", "declare", TRUE, {"create:control-plane-d1"}),
       operation("create:artifact-r2", "r2", "create", TRUE, {}),
       operation("create:execution-archive-r2", "r2", "create", TRUE, {}),
       operation("declare:provider-secret-store-do-binding", "durable-object", "declare", TRUE, {}),
       operation("declare:oauth-state-store-do-binding", "durable-object", "declare", TRUE, {}),
       operation("create:approval-workflow", "workflow", "create", FALSE, {}),
       operation("declare:usage-analytics-engine-binding", "analytics-engine", "declare", TRUE, {}),
       operation("create:runtime-worker", "worker", "create", FALSE, {}),
       operation("apply:control-plane-migrations", "migration", "apply", TRUE,
                 {"create:control-plane-d1"}),
       operation("create:control-plane-worker", "worker", "create", TRUE,
                 {"create:control-plane-d1", "create:artifact-r2", "create:execution-archive-r2",
                  "declare:provider-secret-store-do-binding",
                  "declare:oauth-state-store-do-binding", "create:approval-workflow",
                  "declare:usage-analytics-engine-binding", "create:runtime-worker",
                  "apply:control-plane-migrations"}) >>

Ids(plan) == {plan[i].id : i \in DOMAIN plan}

(***************************************************************************)
(* The run is a part of the production plan, in its order.                 *)
(***************************************************************************)
ASSUME PlanAssumption ==
    /\ Plan \in Seq(ToSet(ProductionOperations)) /\ Len(Plan) > 0
    /\ \A i, k \in DOMAIN Plan, m, n \in DOMAIN ProductionOperations :
          i < k /\ Plan[i] = ProductionOperations[m] /\ Plan[k] = ProductionOperations[n] => m < n

Ops == DOMAIN Plan

Creates(i) == Plan[i].action = "create"

(***************************************************************************)
(* The operation that is visited next: the plan is applied from its first  *)
(* on, and cleanup visits what the plan creates from its last on.          *)
(***************************************************************************)
IsFirst(i, left) == i \in left /\ \A k \in left : i <= k
IsLast(i, left) == i \in left /\ \A k \in left : k <= i

-----------------------------------------------------------------------------
(* Preflight: every operation of the plan has exactly one owner among the   *)
(* routes, and no route owns anything else.  A route is the set of the      *)
(* operations an adapter is given.                                          *)

validateAndIndexRoutes(required, routes) ==
    /\ required # {} /\ routes # <<>>
    /\ \A r \in DOMAIN routes : routes[r] # {}
    /\ \A r, s \in DOMAIN routes : r # s => routes[r] \cap routes[s] = {}
    /\ UNION Range(routes) = required

(***************************************************************************)
(* The adoptions an operator approved name operations that create.         *)
(***************************************************************************)
normalizeApprovedAdoptions(approved) == \A id \in approved : \E i \in Ops : Plan[i].id = id /\ Creates(i)

-----------------------------------------------------------------------------
(* The journal.                                                             *)

Phases == {"pending", "in-progress", "completed", "failed", "cleaning", "cleaned", "cleanup-failed"}

(***************************************************************************)
(* The reference an entry keeps of the resource that was made or adopted   *)
(* for it, and the journal of one of these runs.                           *)
(***************************************************************************)
Refs == [op : Ops, derived : BOOLEAN, id : {"setup", "operator", None}]

Entries ==
    [phase : Phases, disposition : {None, "created", "adopted", "applied"}, ref : Refs \cup {None},
     failureCode : {None, "setup_operation_failed", "setup_cleanup_failed"}]

Journals(runs) ==
    [revision : Nat, invocation : runs, state : {"running", "completed", "failed", "cleanup-incomplete"},
     entries : [Ops -> Entries]]

Pending == [phase |-> "pending", disposition |-> None, ref |-> None, failureCode |-> None]

createSetupRunJournal(invocation) ==
    [revision |-> 1, invocation |-> invocation, state |-> "running", entries |-> [i \in Ops |-> Pending]]

(***************************************************************************)
(* Which fields an entry may hold in its phase.                            *)
(***************************************************************************)
validateEntryState(e) ==
    CASE e.phase \in {"pending", "in-progress"} ->
             e.disposition = None /\ e.ref = None /\ e.failureCode = None
      [] e.phase = "failed" ->
             e.failureCode = "setup_operation_failed" /\ e.disposition = None /\ e.ref = None
      [] OTHER ->
             /\ e.disposition # None
             /\ e.disposition = "applied" => e.ref = None /\ e.phase = "completed"
             /\ e.disposition # "applied" => e.ref # None
             /\ e.phase \in {"cleaning", "cleaned", "cleanup-failed"} => e.disposition = "created"
             /\ e.failureCode = IF e.phase = "cleanup-failed" THEN "setup_cleanup_failed" ELSE None

parseSetupRunJournal(j) ==
    /\ \A i \in Ops : validateEntryState(j.entries[i])
    /\ j.state = "completed" => \A i \in Ops : j.entries[i].phase = "completed"
    /\ j.state = "cleanup-incomplete" => \E i \in Ops : j.entries[i].phase = "cleanup-failed"

(***************************************************************************)
(* A journal is resumed only by the invocation that started it: the same   *)
(* run, runtime, plan and approved adoptions.                              *)
(***************************************************************************)
validateJournalForPlan(j, invocation) ==
    normalizeApprovedAdoptions(invocation.approved) /\ j.invocation = invocation

(***************************************************************************)
(* Whether a loaded run has already failed: then only its cleanup resumes. *)
(***************************************************************************)
HasFailed(j) ==
    \/ j.state \in {"failed", "cleanup-incomplete"}
    \/ \E i \in Ops : j.entries[i].phase \in {"failed", "cleaning", "cleaned", "cleanup-failed"}

(***************************************************************************)
(* What an adapter may answer: a resource that was made or adopted, if the *)
(* operation creates one and its adoption was approved; else "applied".    *)
(***************************************************************************)
validateReconcileResult(i, result, approved) ==
    IF Creates(i)
    THEN /\ result.disposition \in {"created", "adopted"}
         /\ result.disposition = "adopted" => Plan[i].id \in approved
    ELSE result.disposition = "applied"

(***************************************************************************)
(* What cleanup acts upon: a resource this run made and still has.         *)
(***************************************************************************)
IsCleanedUp(e) == e.disposition = "created" /\ e.phase \in {"completed", "cleaning", "cleanup-failed"}
==============================================================================
