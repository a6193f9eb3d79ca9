---------------------------- MODULE SetupAdapters ----------------------------
(***************************************************************************)
(* The adapters that apply one operation of the setup plan to a Cloudflare *)
(* account: the D1, R2, migration and Worker adapters of                   *)
(* packages/cli/src, the Wrangler processes two of them run, and the API   *)
(* transport they all call through.  Each call is a step of its own,       *)
(* because the process can die, and the account change, between any two.   *)
(*                                                                         *)
(* The provider offers no idempotency key for what it creates: a resource  *)
(* is found again by a name derived from the run and the operation, and a  *)
(* Worker also by the marker it was deployed with.                         *)
(***************************************************************************)
EXTENDS SetupPlan

CONSTANTS Procs,         \* processes of the command on one journal
          Migrations,    \* how many migrations the catalog pins
          MaxFaults      \* bound: calls that do not come back with an answer

ASSUME AdapterBounds == Migrations \in Nat /\ MaxFaults \in Nat

VARIABLES account,   \* the resources of the account
          applied,   \* how many migrations the run's database records, or Drifted
          proc,      \* what each process is doing
          faults,
          deleted    \* every resource a cleanup ever deleted

(***************************************************************************)
(* A migration history that is no prefix of the catalog.                   *)
(***************************************************************************)
Drifted == Migrations + 1

Idle == [op |-> 0, resume |-> FALSE, call |-> None, seen |-> 0]

(***************************************************************************)
(* A resource: the operation it is for, whether its name is the derived    *)
(* one, who made it, and whether it is as the run asked for it: a Worker   *)
(* with the run's marker, a bucket with the configured jurisdiction and    *)
(* storage class.                                                          *)
(***************************************************************************)
resource(i, derived, maker, asAsked) ==
    [op |-> i, derived |-> derived, maker |-> maker, asAsked |-> asAsked]

Mine(i) == resource(i, TRUE, "setup", TRUE)
Adoptable(i, asAsked) == resource(i, FALSE, "operator", asAsked)

Targets(i) == {r \in account : r.op = i /\ r.derived}
Chosen(i) == {r \in account : r.op = i /\ ~r.derived}

(***************************************************************************)
(* What an operation is configured to do.  The configuration is checked    *)
(* before anything is called: a target is well formed, and two buckets are *)
(* not adopted under one name.                                             *)
(***************************************************************************)
Configuration(mode, target) == [mode |-> mode, target |-> target]

D1Configuration(c) == c.mode \in {"create", "adopt"} /\ c.target # None
WorkerConfiguration(c) == c.mode \in {"create", "adopt"} /\ c.target # None
isBucketConfiguration(c) == c.mode \in {"create", "adopt"} /\ c.target # None

R2Configuration(artifacts, archive) ==
    /\ isBucketConfiguration(artifacts) /\ isBucketConfiguration(archive)
    /\ ~(artifacts.mode = "adopt" /\ archive.mode = "adopt" /\ artifacts.target = archive.target)

Creating(kind) == {i \in Ops : Creates(i) /\ Plan[i].kind = kind}

validateConfiguration(config) ==
    /\ \A i \in Creating("d1") : D1Configuration(config[i])
    /\ \A i, k \in Creating("r2") : i < k => R2Configuration(config[i], config[k])
    /\ \A i \in Creating("worker") : WorkerConfiguration(config[i])

Adopts(p, i) == proc[p].config[i].mode = "adopt"

(***************************************************************************)
(* The reference an entry keeps of a resource.  A database and a Worker    *)
(* are known by their provider id, which is another one when somebody else *)
(* makes them again; a bucket has nothing but its name.                    *)
(***************************************************************************)
D1Ref(r) == [op |-> r.op, derived |-> r.derived, id |-> r.maker]
R2Ref(r) == [op |-> r.op, derived |-> r.derived, id |-> None]
WorkerRef(r) == [op |-> r.op, derived |-> r.derived, id |-> r.maker]

resourceRef(r) ==
    CASE Plan[r.op].kind = "d1" -> D1Ref(r)
      [] Plan[r.op].kind = "r2" -> R2Ref(r)
      [] Plan[r.op].kind = "worker" -> WorkerRef(r)

-----------------------------------------------------------------------------
(* The transport (cloudflare-api-transport.ts).  A read is retried before   *)
(* it fails; a mutation is sent once, and when it fails nobody knows        *)
(* whether it was carried out.                                              *)

Answered == faults' = faults
Faulted == faults < MaxFaults /\ faults' = faults + 1

(***************************************************************************)
(* How a mutation that would leave the account as "after" can end.         *)
(***************************************************************************)
request(outcome, after) ==
    CASE outcome = "answered" -> Answered /\ account' = after
      [] outcome = "lost"     -> Faulted /\ account' = after
      [] outcome = "dropped"  -> Faulted /\ UNCHANGED account
      [] outcome = "refused"  -> Faulted /\ UNCHANGED account

At(p, pc, call) == proc[p].pc = pc /\ proc[p].work.call = call

Calls(p, call) == proc' = [proc EXCEPT ![p].work.call = call]

(***************************************************************************)
(* An adapter's promise settles with a disposition and a reference, or     *)
(* rejects; the executor goes on from there.                               *)
(***************************************************************************)
Settles(p, result) == proc' = [proc EXCEPT ![p].pc = "settled", ![p].result = result, ![p].work.call = None]

Rejected == [disposition |-> "rejected", ref |-> None]
Done == [disposition |-> "applied", ref |-> None]
CreatedAs(r) == [disposition |-> "created", ref |-> resourceRef(r)]

AdoptedAs(r) == [disposition |-> "adopted", ref |-> resourceRef(r)]

Owner(p) == proc[p].work.op

(***************************************************************************)
(* The router hands an operation to the adapter that owns it: process p is *)
(* at a call of the adapter of a kind.                                     *)
(***************************************************************************)
Reconciles(p, kind, call) == At(p, "reconcile", call) /\ Plan[Owner(p)].kind = kind
Cleans(p, kind, call) == At(p, "clean", call) /\ Plan[Owner(p)].kind = kind

(***************************************************************************)
(* A read the adapter understands goes on as given; one that fails, also   *)
(* because its answer has not the documented form, rejects.                *)
(***************************************************************************)
Reads(p, goOn) ==
    \/ Answered /\ goOn
    \/ Faulted /\ Settles(p, Rejected)

Looked == <<account, applied, deleted>>


-----------------------------------------------------------------------------
(* The D1 adapter.                                                          *)

(***************************************************************************)
(* A declaration needs no call: its binding is part of the deployment.     *)
(***************************************************************************)
DeclareDatabase(p) ==
    /\ Reconciles(p, "d1", "look") /\ ~Creates(Owner(p))
    /\ Settles(p, Done)
    /\ UNCHANGED <<Looked, faults>>

AdoptDatabase(p) ==
    /\ Reconciles(p, "d1", "look") /\ Creates(Owner(p)) /\ Adopts(p, Owner(p))
    /\ Reads(p, \/ Chosen(Owner(p)) = {} /\ Settles(p, Rejected)
                \/ \E r \in Chosen(Owner(p)) : Settles(p, AdoptedAs(r)))
    /\ UNCHANGED Looked

(***************************************************************************)
(* A database found under the derived name counts as made by this run, on  *)
(* a first attempt as on a resumed one.                                    *)
(***************************************************************************)
FindDatabase(p) ==
    /\ Reconciles(p, "d1", "look") /\ Creates(Owner(p)) /\ ~Adopts(p, Owner(p))
    /\ Reads(p, \/ Targets(Owner(p)) = {} /\ Calls(p, "make")
                \/ \E r \in Targets(Owner(p)) : Settles(p, CreatedAs(r)))
    /\ UNCHANGED Looked

(***************************************************************************)
(* The account refuses a name it already has.  When the call does not come *)
(* back with the database the operation has failed, whether it was made or *)
(* not.                                                                    *)
(***************************************************************************)
CreateDatabase(p) ==
    /\ Reconciles(p, "d1", "make")
    /\ \/ /\ Targets(Owner(p)) # {}
          /\ Answered /\ UNCHANGED <<account, applied>> /\ Settles(p, Rejected)
       \/ /\ Targets(Owner(p)) = {}
          /\ \E outcome \in {"answered", "lost", "dropped"} :
                 /\ request(outcome, account \cup {Mine(Owner(p))})
                 /\ applied' = IF outcome = "dropped" THEN applied ELSE 0
                 /\ Settles(p, IF outcome = "answered" THEN CreatedAs(Mine(Owner(p))) ELSE Rejected)
    /\ UNCHANGED deleted

-----------------------------------------------------------------------------
(* The R2 adapter.                                                          *)

(***************************************************************************)
(* A bucket that is not as configured is not taken for the run's own.      *)
(***************************************************************************)
validateObservedBucket(r) == r.asAsked

AdoptBucket(p) ==
    /\ Reconciles(p, "r2", "look") /\ Adopts(p, Owner(p))
    /\ Reads(p, \/ Chosen(Owner(p)) = {} /\ Settles(p, Rejected)
                \/ \E r \in Chosen(Owner(p)) :
                       Settles(p, IF validateObservedBucket(r) THEN AdoptedAs(r) ELSE Rejected))
    /\ UNCHANGED Looked

(***************************************************************************)
(* A bucket of the derived name, as configured, counts as made by this     *)
(* run.                                                                    *)
(***************************************************************************)
ClaimsBucket(p) ==
    \E r \in Targets(Owner(p)) :
        Settles(p, IF validateObservedBucket(r) THEN CreatedAs(r) ELSE Rejected)

FindBucket(p) ==
    /\ Reconciles(p, "r2", "look") /\ ~Adopts(p, Owner(p))
    /\ Reads(p, (Targets(Owner(p)) = {} /\ Calls(p, "make")) \/ ClaimsBucket(p))
    /\ UNCHANGED Looked

(***************************************************************************)
(* When the outcome of the creating call is not known the bucket is looked *)
(* for once more; a refusal is final.                                      *)
(***************************************************************************)
CreateBucket(p) ==
    /\ Reconciles(p, "r2", "make")
    /\ \/ /\ Targets(Owner(p)) # {}
          /\ Answered /\ UNCHANGED account /\ Settles(p, Rejected)
       \/ /\ Targets(Owner(p)) = {}
          /\ \E outcome \in {"answered", "lost", "dropped", "refused"} :
                 /\ request(outcome, account \cup {Mine(Owner(p))})
                 /\ CASE outcome = "answered" -> Settles(p, CreatedAs(Mine(Owner(p))))
                      [] outcome = "refused"  -> Settles(p, Rejected)
                      [] OTHER                -> Calls(p, "reread")
    /\ UNCHANGED <<applied, deleted>>

RereadBucket(p) ==
    /\ Reconciles(p, "r2", "reread")
    /\ Reads(p, (Targets(Owner(p)) = {} /\ Settles(p, Rejected)) \/ ClaimsBucket(p))
    /\ UNCHANGED Looked

-----------------------------------------------------------------------------
(* The Worker adapter.                                                      *)

AdoptWorker(p) ==
    /\ Reconciles(p, "worker", "look") /\ Adopts(p, Owner(p))
    /\ Reads(p, \/ Chosen(Owner(p)) = {} /\ Settles(p, Rejected)
                \/ \E r \in Chosen(Owner(p)) : Settles(p, AdoptedAs(r)))
    /\ UNCHANGED Looked

(***************************************************************************)
(* A Worker under the run's name is an obstacle to a first attempt; a      *)
(* resumed one may be looking at its own, and asks for the marker.         *)
(***************************************************************************)
FindWorker(p) ==
    /\ Reconciles(p, "worker", "look") /\ ~Adopts(p, Owner(p))
    /\ Reads(p, IF Targets(Owner(p)) = {} THEN Calls(p, "make")
                ELSE IF proc[p].work.resume THEN Calls(p, "marker") ELSE Settles(p, Rejected))
    /\ UNCHANGED Looked

(***************************************************************************)
(* Wrangler deploys over a Worker of that name.  It may be killed by its   *)
(* timeout before or after it did; the adapter looks again in any case.    *)
(***************************************************************************)
deploy(p) ==
    /\ Reconciles(p, "worker", "make")
    /\ \E outcome \in {"answered", "lost", "dropped"} :
           request(outcome, (account \ Targets(Owner(p))) \cup {Mine(Owner(p))})
    /\ Calls(p, "reread")
    /\ UNCHANGED <<applied, deleted>>

RereadWorker(p) ==
    /\ Reconciles(p, "worker", "reread")
    /\ Reads(p, IF Targets(Owner(p)) = {} THEN Settles(p, Rejected) ELSE Calls(p, "marker"))
    /\ UNCHANGED Looked

requireOwnershipMarker(p) ==
    /\ Reconciles(p, "worker", "marker")
    /\ Reads(p, \/ \E r \in Targets(Owner(p)) : r.asAsked /\ Settles(p, CreatedAs(r))
                \/ (\A r \in Targets(Owner(p)) : ~r.asAsked) /\ Settles(p, Rejected))
    /\ UNCHANGED Looked

-----------------------------------------------------------------------------
(* Migrations: the history in the database must be a prefix of the catalog, *)
(* is read again before Wrangler is run, and must be the whole catalog      *)
(* afterwards.  A run of Wrangler that fails or is killed has applied some  *)
(* of them.                                                                 *)

HasDatabase == \E i \in Ops : Plan[i].kind = "d1" /\ Creates(i) /\ Targets(i) \cup Chosen(i) # {}

(***************************************************************************)
(* There is a history to list, and it is a prefix of the catalog.          *)
(***************************************************************************)
listApplied == HasDatabase /\ applied # Drifted

ReadHistory(p) ==
    /\ Reconciles(p, "migration", "look")
    /\ Reads(p, \/ listApplied /\ applied = Migrations /\ Settles(p, Done)
                \/ /\ listApplied /\ applied # Migrations
                   /\ proc' = [proc EXCEPT ![p].work.call = "recheck", ![p].work.seen = applied]
                \/ ~listApplied /\ Settles(p, Rejected))
    /\ UNCHANGED Looked

RecheckHistory(p) ==
    /\ Reconciles(p, "migration", "recheck")
    /\ Reads(p, IF listApplied /\ applied = proc[p].work.seen THEN Calls(p, "migrate") ELSE Settles(p, Rejected))
    /\ UNCHANGED Looked

runWrangler(p) ==
    /\ Reconciles(p, "migration", "migrate")
    /\ \/ Answered /\ listApplied /\ applied' = Migrations /\ Calls(p, "verify")
       \/ Answered /\ ~listApplied /\ UNCHANGED applied /\ Settles(p, Rejected)
       \/ /\ Faulted /\ listApplied
          /\ applied' \in applied .. Migrations
          /\ Settles(p, Rejected)
    /\ UNCHANGED <<account, deleted>>

VerifyHistory(p) ==
    /\ Reconciles(p, "migration", "verify")
    /\ Reads(p, Settles(p, IF listApplied /\ applied = Migrations THEN Done ELSE Rejected))
    /\ UNCHANGED Looked

-----------------------------------------------------------------------------
(* Cleanup of a created database or bucket: it is looked up by what the     *)
(* entry refers to, and one that is not there has been cleaned up, also     *)
(* when it was this run's own deletion whose answer was lost. A run that    *)
(* has made its Worker, the last operation of the plan, does not fail any   *)
(* more, so the Worker adapter is never asked to clean up.                  *)

ref(p) == proc[p].journal.entries[Owner(p)].ref

(***************************************************************************)
(* Mutated: the database of the run's name, whatever its id.               *)
(***************************************************************************)
CreatedDatabase_ByName(p) == Targets(Owner(p))

(***************************************************************************)
(* A database is looked up and deleted by its id.                          *)
(***************************************************************************)
CreatedDatabase(p) == {r \in Targets(Owner(p)) : resourceRef(r) = ref(p)}

FindCreatedDatabase(p) ==
    /\ Cleans(p, "d1", "look")
    /\ Reads(p, IF CreatedDatabase(p) # {} THEN Calls(p, "delete") ELSE Settles(p, Done))
    /\ UNCHANGED Looked

FindCreatedBucket(p) ==
    /\ Cleans(p, "r2", "look")
    /\ Reads(p, \/ Targets(Owner(p)) = {} /\ Settles(p, Done)
                \/ \E r \in Targets(Owner(p)) :
                       IF validateObservedBucket(r) THEN Calls(p, "delete") ELSE Settles(p, Rejected))
    /\ UNCHANGED Looked

(***************************************************************************)
(* Deleting a resource that is gone by then is as good as deleting it.     *)
(***************************************************************************)
Deletes(p, gone) ==
    \E outcome \in {"answered", "lost", "dropped", "refused"} :
        /\ request(outcome, account \ gone)
        /\ deleted' = deleted \cup (account \ account')
        /\ Settles(p, IF outcome = "answered" THEN Done ELSE Rejected)

DeleteDatabase(p) == Cleans(p, "d1", "delete") /\ Deletes(p, CreatedDatabase(p)) /\ UNCHANGED applied
DeleteBucket(p) == Cleans(p, "r2", "delete") /\ Deletes(p, Targets(Owner(p))) /\ UNCHANGED applied

Work(p) ==
    \/ DeclareDatabase(p) \/ AdoptDatabase(p) \/ FindDatabase(p) \/ CreateDatabase(p)
    \/ AdoptBucket(p) \/ FindBucket(p) \/ CreateBucket(p) \/ RereadBucket(p)
    \/ AdoptWorker(p) \/ FindWorker(p) \/ deploy(p) \/ RereadWorker(p) \/ requireOwnershipMarker(p)
    \/ ReadHistory(p) \/ RecheckHistory(p) \/ runWrangler(p) \/ VerifyHistory(p)
    \/ FindCreatedDatabase(p) \/ DeleteDatabase(p) \/ FindCreatedBucket(p) \/ DeleteBucket(p)
==============================================================================
