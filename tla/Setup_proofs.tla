----------------------------- MODULE Setup_proofs -----------------------------
(***************************************************************************)
(* Proofs about Setup, for every plan that is a part of the production     *)
(* plan, every set of invocations, any number of processes on one journal  *)
(* and every bound: the types, that only what the run made is deleted, and *)
(* that the journal tells the truth of the account.                        *)
(*                                                                         *)
(* The lock file plays no part: what orders the writes of the journal is   *)
(* the comparison of revisions.  A process works from a journal that is an *)
(* ancestor of the file, and it writes only if nobody has written since.   *)
(* What it does to the account meanwhile, from a journal that may be an    *)
(* old one, does no harm to what the file says, because a file never       *)
(* forgets: what was announced stays announced, and what was created stays *)
(* created, until it is cleaned up.                                        *)
(***************************************************************************)
EXTENDS Setup, TLAPS

-----------------------------------------------------------------------------
(* Types.                                                                   *)

Results == [disposition : {"created", "adopted", "applied", "rejected"}, ref : Refs \cup {None}]

CallNames == {"look", "make", "reread", "marker", "recheck", "migrate", "verify", "delete"}

Works == [op : Ops \cup {0}, resume : BOOLEAN, call : CallNames \cup {None}, seen : 0 .. Drifted]

Resources == [op : Ops, derived : BOOLEAN, maker : {"setup", "operator"}, asAsked : BOOLEAN]

Configs == {i.config : i \in Invocations}

Steps == {"walk", "reconcile", "cleanup", "done", "failed"}

Process ==
    [pc : Steps \cup {"off", "load", "lock", "write", "unlock", "settled", "clean"},
     invocation : Runs \cup {None}, config : Configs \cup {None},
     journal : Journals(Runs) \cup {None}, draft : Journals(Runs) \cup {None},
     then : Steps \cup {None, "conflict", "cleaning"},
     at : 0 .. Len(Plan), work : Works, result : Results \cup {None},
     failedCleanup : SUBSET Ops, error : {None, "setup journal is invalid"}]

Types ==
    /\ account \subseteq Resources /\ deleted \subseteq Resources
    /\ applied \in 0 .. Drifted
    /\ proc \in [Procs -> Process]
    /\ file \in Journals(Runs) \cup {None} /\ lock \in BOOLEAN
    /\ faults \in 0 .. MaxFaults /\ starts \in 0 .. MaxStarts /\ changes \in 0 .. MaxChanges
    /\ overlapped \in BOOLEAN

-----------------------------------------------------------------------------
(* The journal.                                                             *)

CleanupPhases == {"cleaning", "cleaned", "cleanup-failed"}

(***************************************************************************)
(* What an entry of a run remembers of operation i: a resource of the      *)
(* derived name if it was created; if it was adopted, one of another name, *)
(* as the run approved and every invocation of it is configured.           *)
(***************************************************************************)
SoundEntry(e, i, run) ==
    /\ e.disposition \in {"created", "adopted"} => Creates(i) /\ e.ref \in Refs /\ e.ref.op = i
    /\ e.disposition = "created" =>
           /\ e.ref.derived
           /\ Plan[i].kind = "worker" => e.ref.id = "setup"
           /\ Plan[i].kind = "r2" => e.ref.id = None
    /\ e.disposition = "adopted" =>
           /\ ~e.ref.derived /\ Plan[i].id \in run.approved
           /\ \A v \in Invocations : v.run = run => v.config[i].mode = "adopt"
    /\ e.phase = "completed" /\ Creates(i) => e.disposition \in {"created", "adopted"}

(***************************************************************************)
(* Operations are begun in order, each when those before it have ended.    *)
(***************************************************************************)
InOrder(j) ==
    \A i, k \in Ops : k < i /\ j.entries[i].phase # "pending" =>
        j.entries[k].phase \notin {"pending", "in-progress"}

FailedIsClean(j) ==
    j.state = "failed" => \A i \in Ops : j.entries[i].disposition = "created" => j.entries[i].phase = "cleaned"

SoundJournal(j) ==
    /\ j \in Journals(Runs) /\ j.revision >= 1 /\ parseSetupRunJournal(j)
    /\ \A i \in Ops : SoundEntry(j.entries[i], i, j.invocation)
    /\ InOrder(j) /\ FailedIsClean(j)

(***************************************************************************)
(* What is never forgotten from one journal to a later one.                *)
(***************************************************************************)
Grows(j, d) ==
    \A i \in Ops :
        /\ j.entries[i].phase # "pending" => d.entries[i].phase # "pending"
        /\ j.entries[i].disposition = "created" =>
               d.entries[i].disposition = "created" /\ d.entries[i].ref = j.entries[i].ref
        /\ j.entries[i].phase \in CleanupPhases => d.entries[i].phase \in CleanupPhases

Follows(j, d) == d.revision = j.revision + 1 /\ d.invocation = j.invocation /\ Grows(j, d)

Ancestor(j, f) ==
    /\ j.invocation = f.invocation /\ Grows(j, f)
    /\ j.revision <= f.revision /\ (j.revision = f.revision => j = f)

-----------------------------------------------------------------------------
(* A process q while the journal file holds f.                              *)

(***************************************************************************)
(* Cleanup visits the plan from its end: what is behind it is cleaned up,  *)
(* or known not to be.                                                     *)
(***************************************************************************)
CleanedFrom(j, q) ==
    \A i \in Ops : i > q.at /\ j.entries[i].disposition = "created" =>
        j.entries[i].phase = "cleaned" \/ i \in q.failedCleanup

Reconciling(j, q) ==
    /\ q.at \in Ops /\ q.work.op = q.at
    /\ j.entries[q.at].phase = "in-progress" /\ j.state # "failed"
    /\ q.work.call = "make" /\ Plan[q.at].kind = "d1" =>
           Creates(q.at) /\ q.config[q.at].mode # "adopt"

Cleaning(j, q) ==
    /\ q.at \in Ops /\ q.work.op = q.at
    /\ j.entries[q.at].phase = "cleaning" /\ CleanedFrom(j, q)

(***************************************************************************)
(* What process q needs of its journal j to go on at a step.               *)
(***************************************************************************)
Ready(step, j, q) ==
    /\ step = "walk" => j.state # "failed"
    /\ step = "reconcile" => Reconciling(j, q)
    /\ step = "cleanup" => CleanedFrom(j, q)

(***************************************************************************)
(* What an adapter answers for operation i.                                *)
(***************************************************************************)
SoundResult(result, i, config) ==
    /\ result \in Results
    /\ result.disposition \in {"created", "adopted"} => Creates(i) /\ result.ref \in Refs /\ result.ref.op = i
    /\ result.disposition = "created" =>
           /\ result.ref.derived
           /\ Plan[i].kind = "worker" => result.ref.id = "setup"
           /\ Plan[i].kind = "r2" => result.ref.id = None
    /\ result.disposition = "adopted" => ~result.ref.derived /\ config[i].mode = "adopt"

Configured(q) == \E v \in Invocations : q.invocation = v.run /\ q.config = v.config

Holds(q, f) ==
    q.journal # None =>
        /\ SoundJournal(q.journal) /\ q.journal.invocation = q.invocation
        /\ f # None /\ Ancestor(q.journal, f)

(***************************************************************************)
(* A draft is the first journal of the run, or follows the one the process *)
(* has; once it is written it is an ancestor of the file.                  *)
(***************************************************************************)
Drafts(q) ==
    q.pc \in {"lock", "write"} =>
        /\ SoundJournal(q.draft) /\ q.draft.invocation = q.invocation
        /\ q.journal = None => q.draft.revision = 1 /\ \A i \in Ops : q.draft.entries[i] = Pending
        /\ q.journal # None => Follows(q.journal, q.draft)
        /\ q.then \in Steps /\ Ready(q.then, q.draft, q)

Written(q, f) ==
    q.pc = "unlock" /\ q.then # "conflict" =>
        /\ SoundJournal(q.draft) /\ q.draft.invocation = q.invocation
        /\ f # None /\ Ancestor(q.draft, f)
        /\ q.then \in Steps /\ Ready(q.then, q.draft, q)

Working(q) ==
    /\ q.pc = "load" => q.journal = None /\ q.then = None
    /\ q.pc \in Steps => q.journal # None /\ q.then = None /\ Ready(q.pc, q.journal, q)
    /\ q.pc = "clean" => q.journal # None /\ q.then = "cleaning" /\ Cleaning(q.journal, q)
    /\ q.pc = "settled" =>
           /\ q.journal # None /\ q.then \in {None, "cleaning"} /\ q.result \in Results
           /\ q.then = "cleaning" => Cleaning(q.journal, q)
           /\ q.then = None => Reconciling(q.journal, q) /\ SoundResult(q.result, q.at, q.config)

SoundProcess(q, f) ==
    q.pc # "off" => Configured(q) /\ Holds(q, f) /\ Drafts(q) /\ Written(q, f) /\ Working(q)

Processes == \A p \in Procs : SoundProcess(proc[p], file)

SoundFile == file # None => SoundJournal(file)

-----------------------------------------------------------------------------
(* The account.                                                             *)

SoundAccount(a, f) ==
    \A r \in a :
        /\ Plan[r.op].kind \in {"d1", "r2", "worker"}
        /\ Plan[r.op].kind = "worker" /\ r.derived /\ r.asAsked => r.maker = "setup"
        /\ r.maker = "setup" => r.derived /\ f # None /\ f.entries[r.op].phase # "pending"

SoundDeleted(gone, f) ==
    \A r \in gone :
        /\ r.derived /\ Plan[r.op].kind # "worker" /\ f # None
        /\ f.entries[r.op].disposition = "created" /\ f.entries[r.op].ref = resourceRef(r)

World == SoundAccount(account, file) /\ SoundDeleted(deleted, file)

(***************************************************************************)
(* What journal j says to be complete is so: the resources it refers to    *)
(* are there, and the migrations are applied, unless the database itself   *)
(* has been cleaned up.                                                    *)
(***************************************************************************)
Built(j, a, n) ==
    /\ \A i \in Ops : Creates(i) /\ j.entries[i].phase = "completed" =>
           \E r \in a : resourceRef(r) = j.entries[i].ref
    /\ \A i \in Ops :
           /\ Plan[i].action = "apply" /\ j.entries[i].phase = "completed"
           /\ \A k \in Creating("d1") : j.entries[k].phase = "completed"
           => n = Migrations

(***************************************************************************)
(* The entry that an answer of the adapter will become.                    *)
(***************************************************************************)
Answer(result) == [phase |-> "completed", disposition |-> result.disposition,
                   ref |-> result.ref, failureCode |-> None]

Recorded(q) == [q.journal EXCEPT !.entries[q.at] = Answer(q.result)]

BuiltBy(q, f, a, n) ==
    q.journal = f =>
        /\ q.pc \in {"lock", "write"} => Built(q.draft, a, n)
        /\ /\ q.pc = "settled" /\ q.then = None
           /\ validateReconcileResult(q.at, q.result, q.journal.invocation.approved)
           => Built(Recorded(q), a, n)

(***************************************************************************)
(* As long as nobody changes the account by hand, what the file says is    *)
(* built, and so is what the process that may write next will write.       *)
(***************************************************************************)
AllBuilt ==
    changes = 0 =>
        /\ file # None => Built(file, account, applied)
        /\ \A p \in Procs : BuiltBy(proc[p], file, account, applied)

-----------------------------------------------------------------------------
(* One process at a time.                                                   *)

Absent(ref_, a) == \A r \in a : resourceRef(r) # ref_

Gone(j, a) == \A i \in Ops : j.entries[i].phase = "cleaned" => Absent(j.entries[i].ref, a)

UpToDate(q, f) ==
    /\ q.pc \notin {"off", "load", "unlock"} => q.journal = f
    /\ q.pc = "unlock" => q.then # "conflict" /\ q.draft = f

GoneBy(q, a) ==
    /\ q.pc \in {"lock", "write"} => Gone(q.draft, a)
    /\ q.pc = "settled" /\ q.then = "cleaning" /\ q.result.disposition # "rejected" =>
           Absent(q.journal.entries[q.at].ref, a)

Alone ==
    ~overlapped =>
        /\ \A p, o \in Procs : Alive(p) /\ Alive(o) => p = o
        /\ \A p \in Procs : UpToDate(proc[p], file)
        /\ changes = 0 =>
               /\ file # None => Gone(file, account)
               /\ \A p \in Procs : GoneBy(proc[p], account)

IInv == Types /\ SoundFile /\ Processes /\ World /\ AllBuilt /\ Alone

-----------------------------------------------------------------------------
(* The plan and the journal.                                                *)

(* What every part of the production plan has: buckets and Workers are     *)
(* created, migrations come after the database they are for.               *)
LEMMA PlanFacts ==
    /\ Len(Plan) \in Nat /\ Ops = 1 .. Len(Plan)
    /\ \A i \in Ops :
          /\ Plan[i].kind \in {"r2", "worker"} => Creates(i)
          /\ Plan[i].action = "apply" => Plan[i].kind = "migration" /\ ~Creates(i)
          /\ \A k \in Creating("d1") : Plan[i].action = "apply" => k < i
<1> DEFINE PO == ProductionOperations
<1>1. Len(Plan) \in Nat /\ Ops = 1 .. Len(Plan)
  BY PlanAssumption DEF Ops
<1>2. \A i \in Ops : \E m \in DOMAIN PO : Plan[i] = PO[m]
  BY PlanAssumption DEF Ops, ToSet
<1>3. DOMAIN PO = 1 .. 11
  BY DEF ProductionOperations
<1>4. \A m \in 1 .. 11 :
         /\ PO[m].kind \in {"r2", "worker"} => PO[m].action = "create"
         /\ PO[m].action = "apply" => PO[m].kind = "migration" /\ m = 10
         /\ PO[m].action = "create" /\ PO[m].kind = "d1" => m = 1
  BY DEF ProductionOperations, operation
<1>5. ASSUME NEW i \in Ops, NEW k \in Creating("d1"), Plan[i].action = "apply" PROVE k < i
  <2>1. PICK m \in DOMAIN PO : Plan[i] = PO[m]
    BY <1>2
  <2>2. k \in Ops /\ Plan[k].action = "create" /\ Plan[k].kind = "d1"
    BY DEF Creating, Creates
  <2>3. PICK n \in DOMAIN PO : Plan[k] = PO[n]
    BY <1>2, <2>2
  <2>4. m = 10 /\ n = 1
    BY <1>3, <1>4, <1>5, <2>1, <2>2, <2>3
  <2>5. ~(i < k)
    BY PlanAssumption, <2>1, <2>2, <2>3, <2>4 DEF Ops
  <2>6. i # k
    BY <1>3, <1>4, <1>5, <2>1, <2>2
  <2> QED
    BY <1>1, <2>2, <2>5, <2>6
<1>6. ASSUME NEW i \in Ops
      PROVE  /\ Plan[i].kind \in {"r2", "worker"} => Creates(i)
             /\ Plan[i].action = "apply" => Plan[i].kind = "migration" /\ ~Creates(i)
  <2> HIDE DEF PO
  <2>1. PICK m \in 1 .. 11 : Plan[i] = PO[m]
    BY <1>2, <1>3
  <2> QED
    BY <1>4, <2>1 DEF Creates
<1> QED
  BY <1>1, <1>5, <1>6

LEMMA NoneFacts ==
    /\ None \notin {"created", "adopted", "applied", "rejected", "operator", "setup", "conflict", "cleaning",
                    "make", "setup_operation_failed", "setup_cleanup_failed"}
    /\ None \notin Journals(Runs) /\ None \notin Refs
  BY SetupBounds

(* What the phase of a parsed entry says of its disposition.               *)
LEMMA ParsedEntry ==
    ASSUME NEW e \in Entries, validateEntryState(e)
    PROVE  /\ e.phase \in {"pending", "in-progress", "failed"} => e.disposition = None /\ e.ref = None
           /\ e.phase \in CleanupPhases => e.disposition = "created"
           /\ e.phase = "completed" => e.disposition # None
           /\ e.disposition = "created" => e.phase \in {"completed"} \cup CleanupPhases
<1>1. e.phase \in Phases
  BY DEF Entries
<1> QED
  BY <1>1, NoneFacts DEF validateEntryState, Phases, CleanupPhases

LEMMA JournalFields ==
    ASSUME NEW j \in Journals(Runs)
    PROVE  /\ j.revision \in Nat /\ j.invocation \in Runs
           /\ j.state \in {"running", "completed", "failed", "cleanup-incomplete"}
           /\ j.entries \in [Ops -> Entries]
           /\ \A i \in Ops : j.entries[i] \in Entries
           /\ j = [revision |-> j.revision, invocation |-> j.invocation, state |-> j.state,
                   entries |-> j.entries]
  BY DEF Journals

LEMMA SoundJournalEntry ==
    ASSUME NEW j, SoundJournal(j), NEW i \in Ops
    PROVE  /\ j \in Journals(Runs) /\ j.entries[i] \in Entries
           /\ j.entries[i].phase \in {"pending", "in-progress", "failed"} => j.entries[i].disposition = None
           /\ j.entries[i].phase \in CleanupPhases => j.entries[i].disposition = "created"
           /\ j.entries[i].disposition = "created" => j.entries[i].phase \in {"completed"} \cup CleanupPhases
           /\ SoundEntry(j.entries[i], i, j.invocation)
<1>1. j \in Journals(Runs) /\ j.entries[i] \in Entries /\ validateEntryState(j.entries[i])
  BY JournalFields DEF SoundJournal, parseSetupRunJournal
<1> QED
  BY <1>1, ParsedEntry DEF SoundJournal

(* A later journal of a later one is a later one; so an ancestor of the    *)
(* file is an ancestor of what the next write leaves there.                *)
LEMMA GrowsFurther ==
    ASSUME NEW j, NEW d, NEW f, Grows(j, d), Grows(d, f)
    PROVE  Grows(j, f)
  BY DEF Grows

LEMMA AncestorOfNext ==
    ASSUME NEW j \in Journals(Runs), NEW f \in Journals(Runs), NEW d \in Journals(Runs),
           Ancestor(j, f), Follows(f, d)
    PROVE  Ancestor(j, d) /\ j # d
<1>1. Grows(j, d)
  BY GrowsFurther DEF Ancestor, Follows
<1>2. j.revision \in Nat /\ f.revision \in Nat /\ d.revision = f.revision + 1 /\ j.revision <= f.revision
  BY JournalFields DEF Ancestor, Follows
<1>3. j.revision < d.revision
  BY <1>2
<1> QED
  BY <1>1, <1>2, <1>3 DEF Ancestor, Follows

LEMMA AncestorOfItself ==
    ASSUME NEW j \in Journals(Runs)
    PROVE  Ancestor(j, j) /\ Grows(j, j)
  BY JournalFields DEF Ancestor, Grows

(* A journal in which one entry is replaced, or none and the state alone.  *)
LEMMA NextJournal ==
    ASSUME NEW j, SoundJournal(j), NEW i \in Ops, NEW e \in Entries, NEW d \in Journals(Runs),
           d.revision = j.revision + 1, d.invocation = j.invocation,
           d.entries = [j.entries EXCEPT ![i] = e], parseSetupRunJournal(d),
           SoundEntry(e, i, j.invocation), FailedIsClean(d),
           e.phase # "pending" \/ e = j.entries[i],
           e = j.entries[i] \/ \A k \in Ops : k < i => j.entries[k].phase \notin {"pending", "in-progress"},
           e.phase = "in-progress" => j.entries[i].phase \in {"pending", "in-progress"},
           j.entries[i].disposition = "created" => e.disposition = "created" /\ e.ref = j.entries[i].ref,
           j.entries[i].phase \in CleanupPhases => e.phase \in CleanupPhases
    PROVE  SoundJournal(d) /\ Follows(j, d)
<1>1. j \in Journals(Runs) /\ j.revision \in Nat /\ j.revision >= 1 /\ j.entries \in [Ops -> Entries]
  BY JournalFields DEF SoundJournal
<1>2. d.entries[i] = e /\ \A k \in Ops : k # i => d.entries[k] = j.entries[k]
  BY <1>1
<1>3. \A k \in Ops : SoundEntry(d.entries[k], k, d.invocation)
  BY <1>2 DEF SoundJournal
<1>4. InOrder(d)
  <2> SUFFICES ASSUME NEW m \in Ops, NEW k \in Ops, k < m, d.entries[m].phase # "pending"
               PROVE  d.entries[k].phase \notin {"pending", "in-progress"}
    BY DEF InOrder
  <2>0. InOrder(j)
    BY DEF SoundJournal
  <2>1. Ops \subseteq Nat
    BY PlanFacts
  <2>2. CASE m # i /\ k # i
    BY <1>2, <2>0, <2>2 DEF InOrder
  <2>3. CASE m = i
    <3>1. k # i
      BY <2>1, <2>3
    <3>2. j.entries[k].phase \notin {"pending", "in-progress"}
      BY <1>2, <2>0, <2>3 DEF InOrder
    <3> QED
      BY <1>2, <3>1, <3>2
  <2>4. CASE k = i /\ m # i
    <3>1. j.entries[i].phase \notin {"pending", "in-progress"}
      BY <1>2, <2>0, <2>4 DEF InOrder
    <3> QED
      BY <1>2, <2>4, <3>1
  <2> QED
    BY <2>2, <2>3, <2>4
<1>5. Grows(j, d)
  BY <1>2 DEF Grows
<1> QED
  BY <1>1, <1>3, <1>4, <1>5 DEF SoundJournal, Follows

-----------------------------------------------------------------------------
(* What a step of an adapter does.                                          *)

(* A reference is of its operation and its kind of name.                   *)
LEMMA RefOf ==
    ASSUME NEW r \in Resources, Plan[r.op].kind \in {"d1", "r2", "worker"}
    PROVE  /\ resourceRef(r) \in Refs
           /\ resourceRef(r).op = r.op /\ resourceRef(r).derived = r.derived
           /\ Plan[r.op].kind = "r2" => resourceRef(r).id = None
           /\ Plan[r.op].kind # "r2" => resourceRef(r).id = r.maker
<1>1. r.op \in Ops /\ r.derived \in BOOLEAN /\ r.maker \in {"setup", "operator"}
  BY DEF Resources
<1>2. PICK id \in {"setup", "operator", None} :
         /\ resourceRef(r) = [op |-> r.op, derived |-> r.derived, id |-> id]
         /\ Plan[r.op].kind = "r2" => id = None
         /\ Plan[r.op].kind # "r2" => id = r.maker
  <2>1. CASE Plan[r.op].kind = "r2"
    BY <1>1, <2>1 DEF resourceRef, R2Ref
  <2>2. CASE Plan[r.op].kind = "d1"
    BY <1>1, <2>2 DEF resourceRef, D1Ref
  <2>3. CASE Plan[r.op].kind = "worker"
    BY <1>1, <2>3 DEF resourceRef, WorkerRef
  <2> QED
    BY <2>1, <2>2, <2>3
<1> QED
  BY <1>1, <1>2 DEF Refs

(* References tell resources of different operations apart, and a derived  *)
(* name from a chosen one.                                                 *)
LEMMA SameRef ==
    ASSUME NEW x \in Refs, NEW y \in Refs, x.op = y.op, x.derived = y.derived, x.id = y.id
    PROVE  x = y
  BY DEF Refs

LEMMA MineIsAResource ==
    ASSUME NEW i \in Ops
    PROVE  /\ Mine(i) \in Resources /\ Mine(i).op = i /\ Mine(i).derived /\ Mine(i).maker = "setup"
           /\ Mine(i).asAsked
  BY DEF Mine, resource, Resources

(* The answers an adapter may give, each sound.                            *)
LEMMA AnswersAreSound ==
    /\ Rejected \in Results /\ Done \in Results
    /\ Rejected.disposition = "rejected" /\ Done.disposition = "applied"
    /\ \A i, config : SoundResult(Rejected, i, config) /\ SoundResult(Done, i, config)
  BY DEF Rejected, Done, Results, SoundResult

LEMMA CreatedIsSound ==
    ASSUME NEW r \in Resources, Plan[r.op].kind \in {"d1", "r2", "worker"}, r.derived, Creates(r.op),
           Plan[r.op].kind = "worker" => r.maker = "setup", NEW config
    PROVE  /\ SoundResult(CreatedAs(r), r.op, config)
           /\ CreatedAs(r).disposition = "created" /\ CreatedAs(r).ref = resourceRef(r)
<1>1. /\ resourceRef(r) \in Refs /\ resourceRef(r).op = r.op /\ resourceRef(r).derived = r.derived
      /\ Plan[r.op].kind = "r2" => resourceRef(r).id = None
      /\ Plan[r.op].kind = "worker" => resourceRef(r).id = "setup"
  BY RefOf
<1> HIDE DEF Refs
<1> QED
  BY <1>1 DEF CreatedAs, SoundResult, Results

LEMMA AdoptedIsSound ==
    ASSUME NEW r \in Resources, Plan[r.op].kind \in {"d1", "r2", "worker"}, ~r.derived, Creates(r.op),
           NEW config, config[r.op].mode = "adopt"
    PROVE  /\ SoundResult(AdoptedAs(r), r.op, config)
           /\ AdoptedAs(r).disposition = "adopted" /\ AdoptedAs(r).ref = resourceRef(r)
<1>1. resourceRef(r) \in Refs /\ resourceRef(r).op = r.op /\ resourceRef(r).derived = r.derived
  BY RefOf
<1> QED
  BY <1>1 DEF AdoptedAs, SoundResult, Results

(* The process at work: only where it is in its call, and its result,      *)
(* change.                                                                 *)
SameRun(q, n) ==
    /\ n \in Process
    /\ n.invocation = q.invocation /\ n.config = q.config /\ n.journal = q.journal /\ n.draft = q.draft
    /\ n.then = q.then /\ n.at = q.at /\ n.failedCleanup = q.failedCleanup /\ n.work.op = q.work.op

(* What the result says of the account a and the migrations n applied.     *)
TrueResult(result, i, a, n) ==
    /\ result.disposition \in {"created", "adopted"} => \E r \in a : resourceRef(r) = result.ref
    /\ result.disposition = "applied" /\ Plan[i].action = "apply" => n = Migrations

(* How a step of process q, at operation i, leaves the account.            *)
Untouched == account' = account /\ applied' = applied /\ deleted' = deleted

MakesDatabase(i) ==
    /\ Plan[i].kind = "d1" /\ Targets(i) = {}
    /\ account' = account \cup {Mine(i)} /\ applied' = 0 /\ deleted' = deleted

MakesBucket(i) ==
    /\ Plan[i].kind = "r2"
    /\ account' = account \cup {Mine(i)} /\ applied' = applied /\ deleted' = deleted

Deploys(i) ==
    /\ Plan[i].kind = "worker"
    /\ account' = (account \ Targets(i)) \cup {Mine(i)} /\ applied' = applied /\ deleted' = deleted

Migrates ==
    /\ account' = account /\ deleted' = deleted /\ applied <= Migrations /\ applied' \in applied .. Migrations

Removes(i, ref_) ==
    \E gone \in SUBSET account :
        /\ \A r \in gone : r.op = i /\ r.derived /\ resourceRef(r) = ref_
        /\ Plan[i].kind \in {"d1", "r2"}
        /\ account' = account \ gone /\ deleted' = deleted \cup gone /\ applied' = applied

ReconcileStep(q, n) ==
    /\ n.pc \in {"reconcile", "settled"} /\ SameRun(q, n)
    /\ \/ Untouched \/ MakesBucket(q.at) \/ Deploys(q.at) \/ Migrates
       \/ q.work.call = "make" /\ MakesDatabase(q.at)
    /\ Reconciling(q.journal, n)
    /\ n.pc = "settled" => SoundResult(n.result, q.at, q.config) /\ TrueResult(n.result, q.at, account', applied')

CleanStep(q, n) ==
    /\ n.pc \in {"clean", "settled"} /\ SameRun(q, n)
    /\ Untouched \/ Removes(q.at, q.journal.entries[q.at].ref)
    /\ n.pc = "settled" =>
           /\ n.result \in Results
           /\ n.result.disposition # "rejected" => Absent(q.journal.entries[q.at].ref, account')

LEMMA SettlesTo ==
    ASSUME Types, NEW p \in Procs, NEW result \in Results, Settles(p, result)
    PROVE  \E n : /\ proc' = [proc EXCEPT ![p] = n] /\ SameRun(proc[p], n)
                  /\ n.pc = "settled" /\ n.result = result /\ n.work.call = None
<1> DEFINE n == [proc[p] EXCEPT !.pc = "settled", !.result = result, !.work = [@ EXCEPT !.call = None]]
<1>1. proc \in [Procs -> Process] /\ proc[p] \in Process /\ proc[p].work \in Works
  BY DEF Types, Process
<1>2. [proc[p].work EXCEPT !.call = None] \in Works
  BY <1>1 DEF Works
<1>3. n \in Process
  <2> HIDE DEF Works, Results
  <2> QED
    BY <1>1, <1>2 DEF Process
<1>4. /\ n.pc = "settled" /\ n.result = result /\ n.work = [proc[p].work EXCEPT !.call = None]
      /\ n.invocation = proc[p].invocation /\ n.config = proc[p].config /\ n.journal = proc[p].journal
      /\ n.draft = proc[p].draft /\ n.then = proc[p].then /\ n.at = proc[p].at
      /\ n.failedCleanup = proc[p].failedCleanup
  BY <1>1 DEF Process
<1>5. n.work.op = proc[p].work.op /\ n.work.call = None
  BY <1>1, <1>4 DEF Works
<1>6. proc' = [proc EXCEPT ![p] = n]
  BY <1>1 DEF Settles
<1> HIDE DEF n
<1> QED
  BY <1>3, <1>4, <1>5, <1>6 DEF SameRun

LEMMA CallsTo ==
    ASSUME Types, NEW p \in Procs, NEW call \in CallNames, Calls(p, call)
    PROVE  \E n : /\ proc' = [proc EXCEPT ![p] = n] /\ SameRun(proc[p], n)
                  /\ n.pc = proc[p].pc /\ n.work.call = call
<1> DEFINE n == [proc[p] EXCEPT !.work = [@ EXCEPT !.call = call]]
<1>1. proc \in [Procs -> Process] /\ proc[p] \in Process /\ proc[p].work \in Works
  BY DEF Types, Process
<1>2. [proc[p].work EXCEPT !.call = call] \in Works
  BY <1>1 DEF Works
<1>3. n \in Process
  <2> HIDE DEF Works, Results
  <2> QED
    BY <1>1, <1>2 DEF Process
<1>4. /\ n.pc = proc[p].pc /\ n.work = [proc[p].work EXCEPT !.call = call]
      /\ n.invocation = proc[p].invocation /\ n.config = proc[p].config /\ n.journal = proc[p].journal
      /\ n.draft = proc[p].draft /\ n.then = proc[p].then /\ n.at = proc[p].at
      /\ n.failedCleanup = proc[p].failedCleanup
  BY <1>1 DEF Process
<1>5. n.work.op = proc[p].work.op /\ n.work.call = call
  BY <1>1, <1>4 DEF Works
<1>6. proc' = [proc EXCEPT ![p] = n]
  BY <1>1 DEF Calls
<1> HIDE DEF n
<1> QED
  BY <1>3, <1>4, <1>5, <1>6 DEF SameRun

(* An adapter that reconciles settles with what it may, or goes on to its  *)
(* next call.                                                              *)
Reconciler(p) ==
    /\ proc[p].pc = "reconcile" /\ proc[p].at \in Ops /\ Owner(p) = proc[p].at
    /\ Reconciling(proc[p].journal, proc[p])

Effect(q) ==
    \/ Untouched \/ MakesBucket(q.at) \/ Deploys(q.at) \/ Migrates
    \/ q.work.call = "make" /\ MakesDatabase(q.at)

Reconciled(p) == \E n : proc' = [proc EXCEPT ![p] = n] /\ ReconcileStep(proc[p], n)

LEMMA ReconcileSettles ==
    ASSUME Types, NEW p \in Procs, Reconciler(p), NEW result \in Results, Settles(p, result),
           SoundResult(result, proc[p].at, proc[p].config),
           TrueResult(result, proc[p].at, account', applied'), Effect(proc[p])
    PROVE  Reconciled(p)
<1>1. PICK n : /\ proc' = [proc EXCEPT ![p] = n] /\ SameRun(proc[p], n)
               /\ n.pc = "settled" /\ n.result = result /\ n.work.call = None
  BY SettlesTo
<1>2. Reconciling(proc[p].journal, n)
  BY <1>1, NoneFacts DEF Reconciler, Reconciling, SameRun
<1>3. ReconcileStep(proc[p], n)
  BY <1>1, <1>2 DEF ReconcileStep, Effect
<1> QED
  BY <1>1, <1>3 DEF Reconciled

LEMMA ReconcileRejects ==
    ASSUME Types, NEW p \in Procs, Reconciler(p), Settles(p, Rejected), Effect(proc[p])
    PROVE  Reconciled(p)
<1>1. TrueResult(Rejected, proc[p].at, account', applied')
  BY AnswersAreSound DEF TrueResult
<1> QED
  BY <1>1, AnswersAreSound, ReconcileSettles

LEMMA ReconcileDone ==
    ASSUME Types, NEW p \in Procs, Reconciler(p), Settles(p, Done), Effect(proc[p]),
           Plan[proc[p].at].action = "apply" => applied' = Migrations
    PROVE  Reconciled(p)
<1>1. TrueResult(Done, proc[p].at, account', applied')
  BY AnswersAreSound DEF TrueResult
<1> QED
  BY <1>1, AnswersAreSound, ReconcileSettles

LEMMA ReconcileCalls ==
    ASSUME Types, NEW p \in Procs, Reconciler(p), NEW call \in CallNames, Calls(p, call), Effect(proc[p]),
           call = "make" /\ Plan[proc[p].at].kind = "d1" =>
               Creates(proc[p].at) /\ proc[p].config[proc[p].at].mode # "adopt"
    PROVE  Reconciled(p)
<1>1. PICK n : /\ proc' = [proc EXCEPT ![p] = n] /\ SameRun(proc[p], n)
               /\ n.pc = proc[p].pc /\ n.work.call = call
  BY CallsTo
<1>2. Reconciling(proc[p].journal, n)
  BY <1>1 DEF Reconciler, Reconciling, SameRun
<1>3. ReconcileStep(proc[p], n)
  BY <1>1, <1>2 DEF ReconcileStep, Effect, Reconciler
<1> QED
  BY <1>1, <1>3 DEF Reconciled

(* What is found in the account is a resource, and it is still there.      *)
LEMMA FindsCreated ==
    ASSUME Types, NEW p \in Procs, Reconciler(p), NEW r \in Resources, r.op = proc[p].at, r.derived,
           Plan[r.op].kind \in {"d1", "r2", "worker"}, Creates(r.op),
           Plan[r.op].kind = "worker" => r.maker = "setup",
           r \in account', Settles(p, CreatedAs(r)), Effect(proc[p])
    PROVE  Reconciled(p)
<1>1. /\ SoundResult(CreatedAs(r), proc[p].at, proc[p].config)
      /\ CreatedAs(r).disposition = "created" /\ CreatedAs(r).ref = resourceRef(r)
  BY CreatedIsSound
<1>2. CreatedAs(r) \in Results
  BY <1>1 DEF SoundResult
<1>3. TrueResult(CreatedAs(r), proc[p].at, account', applied')
  BY <1>1 DEF TrueResult
<1> QED
  BY <1>1, <1>2, <1>3, ReconcileSettles

LEMMA FindsChosen ==
    ASSUME Types, NEW p \in Procs, Reconciler(p), NEW r \in Resources, r.op = proc[p].at, ~r.derived,
           Plan[r.op].kind \in {"d1", "r2", "worker"}, Creates(r.op),
           proc[p].config[proc[p].at].mode = "adopt",
           r \in account', Settles(p, AdoptedAs(r)), Effect(proc[p])
    PROVE  Reconciled(p)
<1>1. /\ SoundResult(AdoptedAs(r), proc[p].at, proc[p].config)
      /\ AdoptedAs(r).disposition = "adopted" /\ AdoptedAs(r).ref = resourceRef(r)
  BY AdoptedIsSound
<1>2. AdoptedAs(r) \in Results
  BY <1>1 DEF SoundResult
<1>3. TrueResult(AdoptedAs(r), proc[p].at, account', applied')
  BY <1>1 DEF TrueResult
<1> QED
  BY <1>1, <1>2, <1>3, ReconcileSettles

LEMMA AtReconcile ==
    ASSUME Types, Processes, NEW p \in Procs, proc[p].pc = "reconcile"
    PROVE  /\ Reconciler(p) /\ proc[p].journal # None /\ proc[p].then = None
           /\ proc[p].work.call = "make" /\ Plan[proc[p].at].kind = "d1" =>
                  Creates(proc[p].at) /\ proc[p].config[proc[p].at].mode # "adopt"
<1>1. SoundProcess(proc[p], file)
  BY DEF Processes
<1>2. Working(proc[p])
  BY <1>1 DEF SoundProcess
<1>3. proc[p].journal # None /\ proc[p].then = None /\ Reconciling(proc[p].journal, proc[p])
  BY <1>2 DEF Working, Steps, Ready
<1> QED
  BY <1>3 DEF Reconciler, Reconciling, Owner

(* What is in the account for an operation, and may be taken for it.       *)
LEMMA InAccount ==
    ASSUME Types, World, NEW r \in account
    PROVE  /\ r \in Resources /\ Plan[r.op].kind \in {"d1", "r2", "worker"}
           /\ Plan[r.op].kind = "worker" /\ r.derived /\ r.asAsked => r.maker = "setup"
  BY DEF Types, World, SoundAccount

LEMMA DatabaseSteps ==
    ASSUME Types, Processes, World, NEW p \in Procs,
           DeclareDatabase(p) \/ AdoptDatabase(p) \/ FindDatabase(p) \/ CreateDatabase(p)
    PROVE  Reconciled(p)
<1> DEFINE i == proc[p].at
<1>1. proc[p].pc = "reconcile"
  BY DEF DeclareDatabase, AdoptDatabase, FindDatabase, CreateDatabase, Reconciles, At
<1>2. /\ Reconciler(p) /\ Owner(p) = i /\ i \in Ops
      /\ proc[p].work.call = "make" /\ Plan[i].kind = "d1" =>
             Creates(i) /\ proc[p].config[i].mode # "adopt"
  BY <1>1, AtReconcile DEF Reconciler
<1>3. Plan[i].kind = "d1"
  BY <1>2 DEF DeclareDatabase, AdoptDatabase, FindDatabase, CreateDatabase, Reconciles
<1> HIDE DEF i
<1>4. Untouched => Effect(proc[p])
  BY DEF Effect
<1>5. CASE DeclareDatabase(p)
  <2>1. Untouched /\ Settles(p, Done)
    BY <1>5 DEF DeclareDatabase, Untouched, Looked
  <2>2. Plan[i].action # "apply"
    BY <1>2, <1>3, PlanFacts
  <2> QED
    BY <1>2, <1>4, <2>1, <2>2, ReconcileDone DEF i
<1>6. CASE AdoptDatabase(p)
  <2>1. Untouched /\ Creates(i) /\ proc[p].config[i].mode = "adopt"
    BY <1>2, <1>6 DEF AdoptDatabase, Untouched, Looked, Adopts
  <2>2. CASE Settles(p, Rejected)
    BY <1>2, <1>4, <2>1, <2>2, ReconcileRejects
  <2>3. CASE \E r \in Chosen(i) : Settles(p, AdoptedAs(r))
    <3>1. PICK r \in Chosen(i) : Settles(p, AdoptedAs(r))
      BY <2>3
    <3>2. r \in account /\ r \in account' /\ r.op = i /\ ~r.derived
      BY <2>1, <3>1 DEF Chosen, Untouched
    <3> QED
      BY <1>2, <1>3, <1>4, <2>1, <3>1, <3>2, InAccount, FindsChosen DEF i
  <2> QED
    BY <1>2, <1>6, <2>2, <2>3 DEF AdoptDatabase, Reads
<1>7. CASE FindDatabase(p)
  <2>1. Untouched /\ Creates(i) /\ proc[p].config[i].mode # "adopt"
    BY <1>2, <1>7 DEF FindDatabase, Untouched, Looked, Adopts
  <2>2. CASE Settles(p, Rejected)
    BY <1>2, <1>4, <2>1, <2>2, ReconcileRejects
  <2>3. CASE \E r \in Targets(i) : Settles(p, CreatedAs(r))
    <3>1. PICK r \in Targets(i) : Settles(p, CreatedAs(r))
      BY <2>3
    <3>2. r \in account /\ r \in account' /\ r.op = i /\ r.derived
      BY <2>1, <3>1 DEF Targets, Untouched
    <3> QED
      BY <1>2, <1>3, <1>4, <2>1, <3>1, <3>2, InAccount, FindsCreated DEF i
  <2>4. CASE Calls(p, "make")
    BY <1>2, <1>4, <2>1, <2>4, ReconcileCalls DEF i, CallNames
  <2> QED
    BY <1>2, <1>7, <2>2, <2>3, <2>4 DEF FindDatabase, Reads
<1>8. CASE CreateDatabase(p)
  <2>1. /\ proc[p].work.call = "make" /\ Creates(i)
        /\ deleted' = deleted
    BY <1>2, <1>3, <1>8 DEF CreateDatabase, Reconciles, At
  <2>2. CASE Targets(i) # {}
    <3>1. Untouched /\ Settles(p, Rejected)
      BY <1>2, <1>8, <2>1, <2>2 DEF CreateDatabase, Untouched
    <3> QED
      BY <1>2, <1>4, <3>1, ReconcileRejects
  <2>3. CASE Targets(i) = {}
    <3>1. PICK outcome \in {"answered", "lost", "dropped"} :
             /\ request(outcome, account \cup {Mine(i)})
             /\ applied' = IF outcome = "dropped" THEN applied ELSE 0
             /\ Settles(p, IF outcome = "answered" THEN CreatedAs(Mine(i)) ELSE Rejected)
      BY <1>2, <1>8, <2>3 DEF CreateDatabase
    <3>2. CASE outcome = "dropped"
      <4>1. Untouched /\ Settles(p, Rejected)
        BY <2>1, <3>1, <3>2 DEF request, Untouched
      <4> QED
        BY <1>2, <1>4, <4>1, ReconcileRejects
    <3>3. CASE outcome # "dropped"
      <4>1. MakesDatabase(i)
        BY <1>3, <2>1, <2>3, <3>1, <3>3 DEF request, MakesDatabase
      <4>2. Effect(proc[p])
        BY <2>1, <4>1 DEF Effect, i
      <4>3. CASE outcome = "answered"
        <5>1. Mine(i) \in account' /\ Settles(p, CreatedAs(Mine(i)))
          BY <3>1, <4>1, <4>3 DEF MakesDatabase
        <5> QED
          BY <1>2, <1>3, <2>1, <4>2, <5>1, MineIsAResource, FindsCreated DEF i
      <4>4. CASE outcome = "lost"
        BY <1>2, <3>1, <4>2, <4>4, ReconcileRejects
      <4> QED
        BY <3>1, <3>3, <4>3, <4>4
    <3> QED
      BY <3>2, <3>3
  <2> QED
    BY <2>2, <2>3
<1> QED
  BY <1>5, <1>6, <1>7, <1>8

LEMMA BucketClaimed ==
    ASSUME Types, World, NEW p \in Procs, Reconciler(p), Plan[proc[p].at].kind = "r2",
           Untouched, ClaimsBucket(p)
    PROVE  Reconciled(p)
<1>1. PICK r \in Targets(proc[p].at) : Settles(p, IF validateObservedBucket(r) THEN CreatedAs(r) ELSE Rejected)
  BY DEF ClaimsBucket, Reconciler
<1>2. Effect(proc[p]) /\ Creates(proc[p].at)
  BY PlanFacts DEF Effect, Reconciler
<1>3. CASE validateObservedBucket(r)
  <2>1. r \in account /\ r \in account' /\ r.op = proc[p].at /\ r.derived
    BY <1>1 DEF Targets, Untouched
  <2> QED
    BY <1>1, <1>2, <1>3, <2>1, InAccount, FindsCreated
<1>4. CASE ~validateObservedBucket(r)
  BY <1>1, <1>2, <1>4, ReconcileRejects
<1> QED
  BY <1>3, <1>4

LEMMA BucketSteps ==
    ASSUME Types, Processes, World, NEW p \in Procs,
           AdoptBucket(p) \/ FindBucket(p) \/ CreateBucket(p) \/ RereadBucket(p)
    PROVE  Reconciled(p)
<1> DEFINE i == proc[p].at
<1>1. proc[p].pc = "reconcile"
  BY DEF AdoptBucket, FindBucket, CreateBucket, RereadBucket, Reconciles, At
<1>2. Reconciler(p) /\ Owner(p) = i /\ i \in Ops
  BY <1>1, AtReconcile DEF Reconciler
<1>3. Plan[i].kind = "r2"
  BY <1>2 DEF AdoptBucket, FindBucket, CreateBucket, RereadBucket, Reconciles
<1>4. Creates(i)
  BY <1>2, <1>3, PlanFacts
<1> HIDE DEF i
<1>5. Untouched => Effect(proc[p])
  BY DEF Effect
<1>6. CASE AdoptBucket(p)
  <2>1. Untouched /\ proc[p].config[i].mode = "adopt"
    BY <1>2, <1>6 DEF AdoptBucket, Untouched, Looked, Adopts
  <2>2. CASE Settles(p, Rejected)
    BY <1>2, <1>5, <2>1, <2>2, ReconcileRejects
  <2>3. CASE \E r \in Chosen(i) : Settles(p, IF validateObservedBucket(r) THEN AdoptedAs(r) ELSE Rejected)
    <3>1. PICK r \in Chosen(i) : Settles(p, IF validateObservedBucket(r) THEN AdoptedAs(r) ELSE Rejected)
      BY <2>3
    <3>2. r \in account /\ r \in account' /\ r.op = i /\ ~r.derived
      BY <2>1, <3>1 DEF Chosen, Untouched
    <3>3. CASE validateObservedBucket(r)
      BY <1>2, <1>3, <1>4, <1>5, <2>1, <3>1, <3>2, <3>3, InAccount, FindsChosen DEF i
    <3>4. CASE ~validateObservedBucket(r)
      BY <1>2, <1>5, <2>1, <3>1, <3>4, ReconcileRejects
    <3> QED
      BY <3>3, <3>4
  <2> QED
    BY <1>2, <1>6, <2>2, <2>3 DEF AdoptBucket, Reads
<1>7. CASE FindBucket(p)
  <2>1. Untouched
    BY <1>7 DEF FindBucket, Untouched, Looked
  <2>2. CASE Settles(p, Rejected)
    BY <1>2, <1>5, <2>1, <2>2, ReconcileRejects
  <2>3. CASE ClaimsBucket(p)
    BY <1>2, <1>3, <2>1, <2>3, BucketClaimed DEF i
  <2>4. CASE Calls(p, "make")
    BY <1>2, <1>3, <1>5, <2>1, <2>4, ReconcileCalls DEF i, CallNames
  <2> QED
    BY <1>7, <2>2, <2>3, <2>4 DEF FindBucket, Reads
<1>8. CASE CreateBucket(p)
  <2>1. applied' = applied /\ deleted' = deleted
    BY <1>8 DEF CreateBucket
  <2>2. CASE Targets(i) # {}
    <3>1. Untouched /\ Settles(p, Rejected)
      BY <1>2, <1>8, <2>1, <2>2 DEF CreateBucket, Untouched
    <3> QED
      BY <1>2, <1>5, <3>1, ReconcileRejects
  <2>3. CASE Targets(i) = {}
    <3>1. PICK outcome \in {"answered", "lost", "dropped", "refused"} :
             /\ request(outcome, account \cup {Mine(i)})
             /\ CASE outcome = "answered" -> Settles(p, CreatedAs(Mine(i)))
                  [] outcome = "refused"  -> Settles(p, Rejected)
                  [] OTHER                -> Calls(p, "reread")
      BY <1>2, <1>8, <2>3 DEF CreateBucket
    <3>2. CASE outcome \in {"dropped", "refused"}
      <4>1. Untouched
        BY <2>1, <3>1, <3>2 DEF request, Untouched
      <4>2. outcome = "refused" => Settles(p, Rejected)
        BY <3>1
      <4>3. outcome = "dropped" => Calls(p, "reread")
        BY <3>1
      <4> QED
        BY <1>2, <1>5, <3>2, <4>1, <4>2, <4>3, ReconcileRejects, ReconcileCalls DEF CallNames
    <3>3. CASE outcome \in {"answered", "lost"}
      <4>1. MakesBucket(i)
        BY <1>3, <2>1, <3>1, <3>3 DEF request, MakesBucket
      <4>2. Effect(proc[p])
        BY <4>1 DEF Effect, i
      <4>3. CASE outcome = "answered"
        <5>1. Mine(i) \in account' /\ Settles(p, CreatedAs(Mine(i)))
          BY <3>1, <4>1, <4>3 DEF MakesBucket
        <5> QED
          BY <1>2, <1>3, <1>4, <4>2, <5>1, MineIsAResource, FindsCreated DEF i
      <4>4. CASE outcome = "lost"
        <5>1. Calls(p, "reread")
          BY <3>1, <4>4
        <5> QED
          BY <1>2, <4>2, <5>1, ReconcileCalls DEF CallNames
      <4> QED
        BY <3>3, <4>3, <4>4
    <3> QED
      BY <3>2, <3>3
  <2> QED
    BY <2>2, <2>3
<1>9. CASE RereadBucket(p)
  <2>1. Untouched
    BY <1>9 DEF RereadBucket, Untouched, Looked
  <2>2. CASE Settles(p, Rejected)
    BY <1>2, <1>5, <2>1, <2>2, ReconcileRejects
  <2>3. CASE ClaimsBucket(p)
    BY <1>2, <1>3, <2>1, <2>3, BucketClaimed DEF i
  <2> QED
    BY <1>9, <2>2, <2>3 DEF RereadBucket, Reads
<1> QED
  BY <1>6, <1>7, <1>8, <1>9

LEMMA WorkerSteps ==
    ASSUME Types, Processes, World, NEW p \in Procs,
           AdoptWorker(p) \/ FindWorker(p) \/ deploy(p) \/ RereadWorker(p) \/ requireOwnershipMarker(p)
    PROVE  Reconciled(p)
<1> DEFINE i == proc[p].at
<1>1. proc[p].pc = "reconcile"
  BY DEF AdoptWorker, FindWorker, deploy, RereadWorker, requireOwnershipMarker, Reconciles, At
<1>2. Reconciler(p) /\ Owner(p) = i /\ i \in Ops
  BY <1>1, AtReconcile DEF Reconciler
<1>3. Plan[i].kind = "worker"
  BY <1>2 DEF AdoptWorker, FindWorker, deploy, RereadWorker, requireOwnershipMarker, Reconciles
<1>4. Creates(i)
  BY <1>2, <1>3, PlanFacts
<1> HIDE DEF i
<1>5. Untouched => Effect(proc[p])
  BY DEF Effect
<1>6. ASSUME Untouched, Settles(p, Rejected) PROVE Reconciled(p)
  BY <1>2, <1>5, <1>6, ReconcileRejects
<1>7. ASSUME Effect(proc[p]), NEW call \in CallNames, Calls(p, call) PROVE Reconciled(p)
  BY <1>2, <1>3, <1>7, ReconcileCalls DEF i
<1>8. CASE AdoptWorker(p)
  <2>1. Untouched /\ proc[p].config[i].mode = "adopt"
    BY <1>2, <1>8 DEF AdoptWorker, Untouched, Looked, Adopts
  <2>2. CASE \E r \in Chosen(i) : Settles(p, AdoptedAs(r))
    <3>1. PICK r \in Chosen(i) : Settles(p, AdoptedAs(r))
      BY <2>2
    <3>2. r \in account /\ r \in account' /\ r.op = i /\ ~r.derived
      BY <2>1, <3>1 DEF Chosen, Untouched
    <3> QED
      BY <1>2, <1>3, <1>4, <1>5, <2>1, <3>1, <3>2, InAccount, FindsChosen DEF i
  <2> QED
    BY <1>2, <1>6, <1>8, <2>1, <2>2 DEF AdoptWorker, Reads
<1>9. CASE FindWorker(p)
  <2>1. Untouched
    BY <1>9 DEF FindWorker, Untouched, Looked
  <2>2. Settles(p, Rejected) \/ Calls(p, "make") \/ Calls(p, "marker")
    BY <1>9 DEF FindWorker, Reads
  <2> QED
    BY <1>5, <1>6, <1>7, <2>1, <2>2 DEF CallNames
<1>10. CASE deploy(p)
  <2>1. applied' = applied /\ deleted' = deleted /\ Calls(p, "reread")
    BY <1>10 DEF deploy
  <2>2. PICK outcome \in {"answered", "lost", "dropped"} :
           request(outcome, (account \ Targets(i)) \cup {Mine(i)})
    BY <1>2, <1>10 DEF deploy
  <2>3. outcome = "dropped" => Untouched
    BY <2>1, <2>2 DEF request, Untouched
  <2>4. outcome # "dropped" => Deploys(i)
    BY <1>3, <2>1, <2>2 DEF request, Deploys
  <2>5. Effect(proc[p])
    BY <2>3, <2>4 DEF Effect, i
  <2> QED
    BY <1>7, <2>1, <2>5 DEF CallNames
<1>11. CASE RereadWorker(p)
  <2>1. Untouched
    BY <1>11 DEF RereadWorker, Untouched, Looked
  <2>2. Settles(p, Rejected) \/ Calls(p, "marker")
    BY <1>11 DEF RereadWorker, Reads
  <2> QED
    BY <1>5, <1>6, <1>7, <2>1, <2>2 DEF CallNames
<1>12. CASE requireOwnershipMarker(p)
  <2>1. Untouched
    BY <1>12 DEF requireOwnershipMarker, Untouched, Looked
  <2>2. CASE \E r \in Targets(i) : r.asAsked /\ Settles(p, CreatedAs(r))
    <3>1. PICK r \in Targets(i) : r.asAsked /\ Settles(p, CreatedAs(r))
      BY <2>2
    <3>2. r \in account /\ r \in account' /\ r.op = i /\ r.derived
      BY <2>1, <3>1 DEF Targets, Untouched
    <3>3. r.maker = "setup"
      BY <1>3, <3>1, <3>2, InAccount
    <3> QED
      BY <1>2, <1>3, <1>4, <1>5, <2>1, <3>1, <3>2, <3>3, InAccount, FindsCreated DEF i
  <2> QED
    BY <1>2, <1>6, <1>12, <2>1, <2>2 DEF requireOwnershipMarker, Reads
<1> QED
  BY <1>8, <1>9, <1>10, <1>11, <1>12


(* While migrations are listed at all, the history is a prefix of the      *)
(* catalog; what Wrangler does to it is to lengthen it.                    *)
LEMMA MigrationSteps ==
    ASSUME Types, Processes, NEW p \in Procs,
           ReadHistory(p) \/ RecheckHistory(p) \/ runWrangler(p) \/ VerifyHistory(p)
    PROVE  Reconciled(p)
<1> DEFINE i == proc[p].at
<1>1. proc[p].pc = "reconcile"
  BY DEF ReadHistory, RecheckHistory, runWrangler, VerifyHistory, Reconciles, At
<1>2. Reconciler(p) /\ Owner(p) = i /\ i \in Ops
  BY <1>1, AtReconcile DEF Reconciler
<1>3. Plan[i].kind = "migration"
  BY <1>2 DEF ReadHistory, RecheckHistory, runWrangler, VerifyHistory, Reconciles
<1> HIDE DEF i
<1>4. Migrations \in Nat /\ Drifted = Migrations + 1 /\ applied \in 0 .. Drifted
  BY AdapterBounds DEF Types, Drifted
<1>5. Untouched => Effect(proc[p])
  BY DEF Effect
<1>6. ASSUME Effect(proc[p]), Settles(p, Rejected) PROVE Reconciled(p)
  BY <1>2, <1>6, ReconcileRejects
<1>7. ASSUME Effect(proc[p]), NEW call \in CallNames, Calls(p, call), call # "make" PROVE Reconciled(p)
  BY <1>2, <1>7, ReconcileCalls DEF i
<1>8. ASSUME Effect(proc[p]), Settles(p, Done), applied' = Migrations PROVE Reconciled(p)
  BY <1>2, <1>8, ReconcileDone DEF i
<1>9. CASE ReadHistory(p)
  <2>1. Untouched
    BY <1>9 DEF ReadHistory, Untouched, Looked
  <2>2. CASE applied = Migrations /\ Settles(p, Done)
    BY <1>5, <1>8, <2>1, <2>2 DEF Untouched
  <2>3. CASE proc' = [proc EXCEPT ![p].work.call = "recheck", ![p].work.seen = applied]
    <3> DEFINE n == [proc[p] EXCEPT !.work = [@ EXCEPT !.call = "recheck", !.seen = applied]]
    <3>1. proc \in [Procs -> Process] /\ proc[p] \in Process /\ proc[p].work \in Works
      BY DEF Types, Process
    <3>2. [proc[p].work EXCEPT !.call = "recheck", !.seen = applied] \in Works
      BY <1>4, <3>1 DEF Works, CallNames
    <3>3. n \in Process
      <4> HIDE DEF Works, Results
      <4> QED
        BY <3>1, <3>2 DEF Process
    <3>4. /\ n.pc = proc[p].pc /\ n.work = [proc[p].work EXCEPT !.call = "recheck", !.seen = applied]
          /\ n.invocation = proc[p].invocation /\ n.config = proc[p].config /\ n.journal = proc[p].journal
          /\ n.draft = proc[p].draft /\ n.then = proc[p].then /\ n.at = proc[p].at
          /\ n.failedCleanup = proc[p].failedCleanup
      BY <3>1 DEF Process
    <3>5. n.work.op = proc[p].work.op /\ n.work.call = "recheck"
      <4> HIDE DEF n
      <4> QED
        BY <3>1, <3>4 DEF Works
    <3>6. proc' = [proc EXCEPT ![p] = n]
      <4> DEFINE a == [proc EXCEPT ![p].work.call = "recheck"]
                 x == [proc[p] EXCEPT !.work = [proc[p].work EXCEPT !.call = "recheck"]]
      <4>1. a = [proc EXCEPT ![p] = x] /\ a[p] = x
        BY <3>1
      <4>2. n = [x EXCEPT !.work = [x.work EXCEPT !.seen = applied]]
        BY <3>1 DEF Process
      <4>3. proc' = [a EXCEPT ![p] = [a[p] EXCEPT !.work = [a[p].work EXCEPT !.seen = applied]]]
        BY <2>3
      <4>4. proc' = [a EXCEPT ![p] = n]
        <5> HIDE DEF a, x
        <5>1. [a[p] EXCEPT !.work = [a[p].work EXCEPT !.seen = applied]] = n
          BY <4>1, <4>2
        <5> HIDE DEF n
        <5> QED
          BY <4>3, <5>1
      <4> HIDE DEF x, n
      <4> QED
        BY <3>1, <4>1, <4>4
    <3> HIDE DEF n
    <3>7. SameRun(proc[p], n)
      BY <3>3, <3>4, <3>5 DEF SameRun
    <3>8. Reconciling(proc[p].journal, n)
      BY <1>2, <3>4, <3>5 DEF Reconciler, Reconciling
    <3>9. ReconcileStep(proc[p], n)
      BY <1>1, <2>1, <3>4, <3>7, <3>8 DEF ReconcileStep
    <3> QED
      BY <1>5, <2>1, <3>6, <3>9 DEF Reconciled
  <2> QED
    BY <1>5, <1>6, <1>9, <2>1, <2>2, <2>3 DEF ReadHistory, Reads
<1>10. CASE RecheckHistory(p)
  <2>1. Untouched
    BY <1>10 DEF RecheckHistory, Untouched, Looked
  <2>2. Settles(p, Rejected) \/ Calls(p, "migrate")
    BY <1>10 DEF RecheckHistory, Reads
  <2> QED
    BY <1>5, <1>6, <1>7, <2>1, <2>2 DEF CallNames
<1>11. CASE runWrangler(p)
  <2>1. account' = account /\ deleted' = deleted
    BY <1>11 DEF runWrangler
  <2>2. listApplied => applied \in 0 .. Migrations
    BY <1>4 DEF listApplied
  <2>3. CASE listApplied /\ applied' = Migrations /\ Calls(p, "verify")
    <3>1. Migrates
      BY <1>4, <2>1, <2>2, <2>3 DEF Migrates
    <3> QED
      BY <1>4, <1>7, <2>3, <3>1 DEF Effect, CallNames
  <2>4. CASE applied' = applied /\ Settles(p, Rejected)
    BY <1>5, <1>6, <2>1, <2>4 DEF Untouched
  <2>5. CASE listApplied /\ applied' \in applied .. Migrations /\ Settles(p, Rejected)
    <3>1. Migrates
      BY <1>4, <2>1, <2>2, <2>5 DEF Migrates
    <3> QED
      BY <1>6, <2>5, <3>1 DEF Effect
  <2> QED
    BY <1>11, <2>3, <2>4, <2>5 DEF runWrangler
<1>12. CASE VerifyHistory(p)
  <2>1. Untouched
    BY <1>12 DEF VerifyHistory, Untouched, Looked
  <2>2. Settles(p, Rejected) \/ (applied = Migrations /\ Settles(p, Done))
    BY <1>12 DEF VerifyHistory, Reads
  <2> QED
    BY <1>5, <1>6, <1>8, <2>1, <2>2 DEF Untouched
<1> QED
  BY <1>9, <1>10, <1>11, <1>12

(* Cleanup works on an entry that was created; what it looks for is the    *)
(* resources of the derived name which that entry refers to.               *)
Cleaner(p) ==
    /\ proc[p].pc = "clean" /\ proc[p].at \in Ops /\ Owner(p) = proc[p].at
    /\ ref(p) = proc[p].journal.entries[proc[p].at].ref
    /\ ref(p) \in Refs /\ ref(p).op = proc[p].at /\ ref(p).derived
    /\ Plan[proc[p].at].kind = "r2" => ref(p).id = None

Cleaned(p) == \E n : proc' = [proc EXCEPT ![p] = n] /\ CleanStep(proc[p], n)

LEMMA AtClean ==
    ASSUME Types, Processes, NEW p \in Procs, proc[p].pc = "clean"
    PROVE  /\ Cleaner(p) /\ proc[p].journal # None /\ proc[p].then = "cleaning"
           /\ Cleaning(proc[p].journal, proc[p])
           /\ proc[p].journal.entries[proc[p].at].disposition = "created"
<1>1. SoundProcess(proc[p], file)
  BY DEF Processes
<1>2. Working(proc[p]) /\ Holds(proc[p], file)
  BY <1>1 DEF SoundProcess
<1>3. proc[p].journal # None /\ proc[p].then = "cleaning" /\ Cleaning(proc[p].journal, proc[p])
  BY <1>2 DEF Working, Steps
<1>4. SoundJournal(proc[p].journal)
  BY <1>2, <1>3 DEF Holds
<1>5. /\ proc[p].at \in Ops /\ Owner(p) = proc[p].at
      /\ proc[p].journal.entries[proc[p].at].phase \in CleanupPhases
  BY <1>3 DEF Cleaning, Owner, CleanupPhases
<1>6. /\ proc[p].journal.entries[proc[p].at].disposition = "created"
      /\ SoundEntry(proc[p].journal.entries[proc[p].at], proc[p].at, proc[p].journal.invocation)
  BY <1>4, <1>5, SoundJournalEntry
<1> QED
  BY <1>3, <1>5, <1>6 DEF Cleaner, ref, SoundEntry

LEMMA IsTarget ==
    ASSUME Types, World, NEW p \in Procs, Cleaner(p), NEW r \in account, resourceRef(r) = ref(p)
    PROVE  r \in Targets(Owner(p))
<1>1. resourceRef(r).op = r.op /\ resourceRef(r).derived = r.derived
  BY InAccount, RefOf
<1>2. ref(p).op = Owner(p) /\ ref(p).derived
  BY DEF Cleaner
<1> QED
  BY <1>1, <1>2 DEF Targets

LEMMA CleanSettles ==
    ASSUME Types, NEW p \in Procs, Cleaner(p), NEW result \in Results, Settles(p, result),
           Untouched \/ Removes(proc[p].at, ref(p)),
           result.disposition # "rejected" => Absent(ref(p), account')
    PROVE  Cleaned(p)
<1>1. PICK n : /\ proc' = [proc EXCEPT ![p] = n] /\ SameRun(proc[p], n)
               /\ n.pc = "settled" /\ n.result = result
  BY SettlesTo
<1>2. CleanStep(proc[p], n)
  BY <1>1 DEF CleanStep, Cleaner
<1> QED
  BY <1>1, <1>2 DEF Cleaned

LEMMA CleanSteps ==
    ASSUME Types, Processes, World, NEW p \in Procs,
           FindCreatedDatabase(p) \/ DeleteDatabase(p) \/ FindCreatedBucket(p) \/ DeleteBucket(p)
    PROVE  Cleaned(p)
<1> DEFINE i == proc[p].at
<1>1. proc[p].pc = "clean"
  BY DEF FindCreatedDatabase, DeleteDatabase, FindCreatedBucket, DeleteBucket, Cleans, At
<1>2. Cleaner(p) /\ Owner(p) = i /\ i \in Ops
  BY <1>1, AtClean DEF Cleaner
<1> HIDE DEF i
<1>3. ASSUME Untouched, Settles(p, Rejected) PROVE Cleaned(p)
  BY <1>2, <1>3, AnswersAreSound, CleanSettles
<1>4. ASSUME Untouched, Settles(p, Done), Absent(ref(p), account') PROVE Cleaned(p)
  BY <1>2, <1>4, AnswersAreSound, CleanSettles
<1>5. ASSUME Untouched, Calls(p, "delete") PROVE Cleaned(p)
  <2>1. PICK n : /\ proc' = [proc EXCEPT ![p] = n] /\ SameRun(proc[p], n) /\ n.pc = proc[p].pc
    BY <1>5, CallsTo DEF CallNames
  <2>2. CleanStep(proc[p], n)
    BY <1>1, <1>5, <2>1 DEF CleanStep
  <2> QED
    BY <2>1, <2>2 DEF Cleaned
<1>6. ASSUME NEW gone \in SUBSET account, Deletes(p, gone), applied' = applied, Plan[i].kind \in {"d1", "r2"},
             \A r \in gone : r.op = i /\ r.derived /\ resourceRef(r) = ref(p),
             \A r \in account : resourceRef(r) = ref(p) => r \in gone
      PROVE  Cleaned(p)
  <2>1. PICK outcome \in {"answered", "lost", "dropped", "refused"} :
           /\ request(outcome, account \ gone)
           /\ deleted' = deleted \cup (account \ account')
           /\ Settles(p, IF outcome = "answered" THEN Done ELSE Rejected)
    BY <1>6 DEF Deletes
  <2>2. CASE outcome \in {"dropped", "refused"}
    <3>1. account' = account
      BY <2>1, <2>2 DEF request
    <3>2. Untouched /\ Settles(p, Rejected)
      BY <1>6, <2>1, <2>2, <3>1 DEF Untouched
    <3> QED
      BY <1>3, <3>2
  <2>3. CASE outcome \in {"answered", "lost"}
    <3>1. account' = account \ gone /\ deleted' = deleted \cup gone
      BY <1>6, <2>1, <2>3 DEF request
    <3>2. Removes(i, ref(p)) /\ Absent(ref(p), account')
      BY <1>6, <3>1 DEF Removes, Absent
    <3>3. Settles(p, Rejected) \/ Settles(p, Done)
      BY <2>1
    <3> QED
      BY <1>2, <3>2, <3>3, AnswersAreSound, CleanSettles DEF i
  <2> QED
    BY <2>2, <2>3
<1>7. CASE FindCreatedDatabase(p)
  <2>1. Untouched
    BY <1>7 DEF FindCreatedDatabase, Untouched, Looked
  <2>2. CASE CreatedDatabase(p) = {} /\ Settles(p, Done)
    <3>1. Absent(ref(p), account')
      BY <1>2, <2>1, <2>2, IsTarget DEF Absent, CreatedDatabase, Untouched
    <3> QED
      BY <1>4, <2>1, <2>2, <3>1
  <2> QED
    BY <1>3, <1>5, <1>7, <2>1, <2>2 DEF FindCreatedDatabase, Reads
<1>8. CASE FindCreatedBucket(p)
  <2>1. Untouched
    BY <1>8 DEF FindCreatedBucket, Untouched, Looked
  <2>2. CASE Targets(Owner(p)) = {} /\ Settles(p, Done)
    <3>1. Absent(ref(p), account')
      BY <1>2, <2>1, <2>2, IsTarget DEF Absent, Untouched
    <3> QED
      BY <1>4, <2>1, <2>2, <3>1
  <2>3. (Targets(Owner(p)) = {} /\ Settles(p, Done)) \/ Calls(p, "delete") \/ Settles(p, Rejected)
    BY <1>8 DEF FindCreatedBucket, Reads
  <2> QED
    BY <1>3, <1>5, <2>1, <2>2, <2>3
<1>9. CASE DeleteDatabase(p)
  <2>1. Deletes(p, CreatedDatabase(p)) /\ applied' = applied /\ Plan[i].kind = "d1"
    BY <1>2, <1>9 DEF DeleteDatabase, Cleans
  <2>2. CreatedDatabase(p) \in SUBSET account
    BY DEF CreatedDatabase, Targets
  <2>3. \A r \in CreatedDatabase(p) : r.op = i /\ r.derived /\ resourceRef(r) = ref(p)
    BY <1>2 DEF CreatedDatabase, Targets
  <2>4. \A r \in account : resourceRef(r) = ref(p) => r \in CreatedDatabase(p)
    BY <1>2, IsTarget DEF CreatedDatabase
  <2> QED
    BY <1>6, <2>1, <2>2, <2>3, <2>4
<1>10. CASE DeleteBucket(p)
  <2>1. Deletes(p, Targets(i)) /\ applied' = applied /\ Plan[i].kind = "r2"
    BY <1>2, <1>10 DEF DeleteBucket, Cleans
  <2>2. Targets(i) \in SUBSET account
    BY DEF Targets
  <2>3. ASSUME NEW r \in Targets(i) PROVE r.op = i /\ r.derived /\ resourceRef(r) = ref(p)
    <3>1. r \in account /\ r.op = i /\ r.derived
      BY <2>3 DEF Targets
    <3>2. r \in Resources /\ r.derived = TRUE
      BY <3>1, InAccount DEF Resources
    <3>3. ref(p) \in Refs /\ ref(p).op = i /\ ref(p).derived = TRUE /\ ref(p).id = None
      BY <1>2, <2>1 DEF Cleaner, Refs, i
    <3>4. resourceRef(r) \in Refs /\ resourceRef(r).op = i /\ resourceRef(r).derived = TRUE /\ resourceRef(r).id = None
      BY <2>1, <3>1, <3>2, RefOf
    <3> QED
      BY <3>1, <3>3, <3>4, SameRef
  <2>4. \A r \in account : resourceRef(r) = ref(p) => r \in Targets(i)
    BY <1>2, IsTarget
  <2> QED
    BY <1>6, <2>1, <2>2, <2>3, <2>4
<1> QED
  BY <1>7, <1>8, <1>9, <1>10

LEMMA FaultsAreBounded ==
    ASSUME Types, NEW p \in Procs, Work(p)
    PROVE  faults' \in 0 .. MaxFaults
<1>1. faults \in 0 .. MaxFaults /\ MaxFaults \in Nat
  BY AdapterBounds DEF Types
<1>2. Answered \/ Faulted => faults' \in 0 .. MaxFaults
  BY <1>1 DEF Answered, Faulted
<1>3. ASSUME NEW outcome \in {"answered", "lost", "dropped", "refused"}, NEW after, request(outcome, after)
      PROVE  Answered \/ Faulted
  BY <1>3 DEF request
<1>4. CASE DeclareDatabase(p)
  BY <1>1, <1>4 DEF DeclareDatabase
<1>5. CASE AdoptDatabase(p) \/ FindDatabase(p)
  BY <1>2, <1>5 DEF AdoptDatabase, FindDatabase, Reads
<1>6. CASE CreateDatabase(p) \/ CreateBucket(p) \/ deploy(p)
  BY <1>2, <1>3, <1>6 DEF CreateDatabase, CreateBucket, deploy
<1>7. CASE AdoptBucket(p) \/ FindBucket(p) \/ RereadBucket(p)
  BY <1>2, <1>7 DEF AdoptBucket, FindBucket, RereadBucket, Reads
<1>8. CASE AdoptWorker(p) \/ FindWorker(p) \/ RereadWorker(p) \/ requireOwnershipMarker(p)
  BY <1>2, <1>8 DEF AdoptWorker, FindWorker, RereadWorker, requireOwnershipMarker, Reads
<1>9. CASE ReadHistory(p) \/ RecheckHistory(p) \/ VerifyHistory(p)
  BY <1>2, <1>9 DEF ReadHistory, RecheckHistory, VerifyHistory, Reads
<1>10. CASE runWrangler(p)
  BY <1>2, <1>10 DEF runWrangler
<1>11. CASE FindCreatedDatabase(p) \/ FindCreatedBucket(p)
  BY <1>2, <1>11 DEF FindCreatedDatabase, FindCreatedBucket, Reads
<1>12. CASE DeleteDatabase(p) \/ DeleteBucket(p)
  <2>1. \E gone : Deletes(p, gone)
    BY <1>12 DEF DeleteDatabase, DeleteBucket
  <2> QED
    BY <1>2, <1>3, <2>1 DEF Deletes
<1> QED
  BY <1>4, <1>5, <1>6, <1>7, <1>8, <1>9, <1>10, <1>11, <1>12 DEF Work

(* Every step of an adapter, in one formula.                               *)
LEMMA WorkStep ==
    ASSUME Types, Processes, World, NEW p \in Procs, Work(p)
    PROVE  /\ \E n : /\ proc' = [proc EXCEPT ![p] = n]
                     /\ \/ proc[p].pc = "reconcile" /\ ReconcileStep(proc[p], n)
                        \/ proc[p].pc = "clean" /\ CleanStep(proc[p], n)
           /\ proc[p].at \in Ops
           /\ applied' \in 0 .. Drifted
<1>1. CASE Reconciled(p) /\ proc[p].pc = "reconcile"
  <2>1. PICK n : proc' = [proc EXCEPT ![p] = n] /\ ReconcileStep(proc[p], n)
    BY <1>1 DEF Reconciled
  <2>2. applied' \in 0 .. Drifted
    <3>1. applied \in 0 .. Drifted /\ Migrations \in Nat /\ Drifted = Migrations + 1
      BY AdapterBounds DEF Types, Drifted
    <3> QED
      BY <2>1, <3>1 DEF ReconcileStep, Untouched, MakesDatabase, MakesBucket, Deploys, Migrates
  <2> QED
    BY <1>1, <2>1, <2>2, AtReconcile DEF Reconciler
<1>2. CASE Cleaned(p) /\ proc[p].pc = "clean"
  <2>1. PICK n : proc' = [proc EXCEPT ![p] = n] /\ CleanStep(proc[p], n)
    BY <1>2 DEF Cleaned
  <2>2. applied' = applied
    BY <2>1 DEF CleanStep, Untouched, Removes
  <2> QED
    BY <1>2, <2>1, <2>2, AtClean DEF Cleaner, Types
<1>3. CASE DeclareDatabase(p) \/ AdoptDatabase(p) \/ FindDatabase(p) \/ CreateDatabase(p)
  BY <1>1, <1>3, DatabaseSteps DEF DeclareDatabase, AdoptDatabase, FindDatabase, CreateDatabase, Reconciles, At
<1>4. CASE AdoptBucket(p) \/ FindBucket(p) \/ CreateBucket(p) \/ RereadBucket(p)
  BY <1>1, <1>4, BucketSteps DEF AdoptBucket, FindBucket, CreateBucket, RereadBucket, Reconciles, At
<1>5. CASE AdoptWorker(p) \/ FindWorker(p) \/ deploy(p) \/ RereadWorker(p) \/ requireOwnershipMarker(p)
  BY <1>1, <1>5, WorkerSteps
     DEF AdoptWorker, FindWorker, deploy, RereadWorker, requireOwnershipMarker, Reconciles, At
<1>6. CASE ReadHistory(p) \/ RecheckHistory(p) \/ runWrangler(p) \/ VerifyHistory(p)
  BY <1>1, <1>6, MigrationSteps DEF ReadHistory, RecheckHistory, runWrangler, VerifyHistory, Reconciles, At
<1>7. CASE FindCreatedDatabase(p) \/ DeleteDatabase(p) \/ FindCreatedBucket(p) \/ DeleteBucket(p)
  BY <1>2, <1>7, CleanSteps
     DEF FindCreatedDatabase, DeleteDatabase, FindCreatedBucket, DeleteBucket, Cleans, At
<1> QED
  BY <1>3, <1>4, <1>5, <1>6, <1>7 DEF Work

-----------------------------------------------------------------------------
(* What a step of the executor does.                                        *)

LEMMA OffIsAProcess ==
    /\ Off \in Process /\ Off.pc = "off" /\ Off.invocation = None
    /\ \A run \in Runs \cup {None} :
          LET n == [Off EXCEPT !.error = "setup journal is invalid", !.invocation = run]
          IN n \in Process /\ n.pc = "off"
<1>1. 0 \in 0 .. Len(Plan) /\ Idle \in Works
  <2>1. 0 \in 0 .. Drifted
    BY AdapterBounds DEF Drifted
  <2> QED
    BY <2>1, PlanFacts DEF Idle, Works
<1> HIDE DEF Works, Results, Idle
<1> QED
  BY <1>1 DEF Off, Process

(* The process q has drafted a journal.                                    *)
Saves(q, n, d, then, at, work, failed) ==
    /\ n \in Process /\ n.pc = "lock" /\ n.draft = d /\ n.then = then /\ n.at = at /\ n.work = work
    /\ n.failedCleanup = failed /\ n.journal = q.journal
    /\ n.invocation = q.invocation /\ n.config = q.config

(* What a turn to another step leaves of a process.                        *)
Turned(q, step, at, work) == [q EXCEPT !.pc = step, !.at = at, !.work = work]
Resumed(q, step, journal, at) == [q EXCEPT !.pc = step, !.journal = journal, !.at = at]

LEMMA TurnsTo ==
    ASSUME NEW q \in Process, NEW step \in Steps, NEW at \in 0 .. Len(Plan), NEW work \in Works, NEW n,
           n = Turned(q, step, at, work)
    PROVE  /\ n \in Process /\ n.pc = step /\ n.at = at /\ n.work = work
           /\ n.then = q.then /\ n.journal = q.journal /\ n.invocation = q.invocation
           /\ n.config = q.config
<1> HIDE DEF Works, Results, Steps
<1>1. n \in Process
  BY DEF Process, Turned
<1>2. /\ n.pc = step /\ n.at = at /\ n.work = work
      /\ n.then = q.then /\ n.journal = q.journal /\ n.invocation = q.invocation /\ n.config = q.config
  BY DEF Process, Turned
<1> QED
  BY <1>1, <1>2

LEMMA TakesJournal ==
    ASSUME NEW q \in Process, NEW step \in Steps, NEW at \in 0 .. Len(Plan),
           NEW journal \in Journals(Runs) \cup {None}, NEW n, n = Resumed(q, step, journal, at)
    PROVE  /\ n \in Process /\ n.pc = step /\ n.at = at /\ n.journal = journal
           /\ n.then = q.then /\ n.invocation = q.invocation /\ n.config = q.config
<1> HIDE DEF Works, Results, Steps
<1>1. n \in Process
  BY DEF Process, Resumed
<1>2. /\ n.pc = step /\ n.at = at /\ n.journal = journal
      /\ n.then = q.then /\ n.invocation = q.invocation /\ n.config = q.config
  BY DEF Process, Resumed
<1> QED
  BY <1>1, <1>2

LEMMA SavesDraft ==
    ASSUME NEW q \in Process, NEW d \in Journals(Runs), NEW then \in Steps, NEW at \in 0 .. Len(Plan),
           NEW work \in Works, NEW failed \in SUBSET Ops
    PROVE  Saves(q, [q EXCEPT !.pc = "lock", !.draft = d, !.then = then, !.at = at, !.result = None,
                              !.work = work, !.failedCleanup = failed],
                 d, then, at, work, failed)
<1> DEFINE n == [q EXCEPT !.pc = "lock", !.draft = d, !.then = then, !.at = at, !.result = None,
                          !.work = work, !.failedCleanup = failed]
<1> HIDE DEF Works, Results
<1>1. n \in Process
  BY DEF Process
<1>2. /\ n.pc = "lock" /\ n.draft = d /\ n.then = then /\ n.at = at /\ n.work = work
      /\ n.failedCleanup = failed /\ n.journal = q.journal
      /\ n.invocation = q.invocation /\ n.config = q.config
  BY DEF Process
<1> QED
  BY <1>1, <1>2 DEF Saves

(* The revision of a journal that is saved.                                *)
Successor(next, d) ==
    /\ d \in Journals(Runs) /\ d.revision = next.revision + 1 /\ d.invocation = next.invocation
    /\ d.state = next.state /\ d.entries = next.entries

LEMMA NextRevision ==
    ASSUME NEW next \in Journals(Runs)
    PROVE  Successor(next, [next EXCEPT !.revision = @ + 1])
  BY DEF Journals, Successor

LEMMA UpdateStep ==
    ASSUME Types, NEW p \in Procs, NEW next \in Journals(Runs), NEW then \in Steps,
           NEW at \in 0 .. Len(Plan), NEW work \in Works, updateJournal(p, next, then, at, work)
    PROVE  \E n \in Process :
               /\ proc' = [proc EXCEPT ![p] = n]
               /\ n.pc # "off" =>
                      \E d : /\ Successor(next, d) /\ parseSetupRunJournal(d)
                             /\ Saves(proc[p], n, d, then, at, work, proc[p].failedCleanup)
<1>1. proc[p] \in Process /\ proc[p].invocation \in Runs \cup {None} /\ proc[p].failedCleanup \in SUBSET Ops
  BY DEF Types, Process
<1> DEFINE d == [next EXCEPT !.revision = @ + 1]
<1>2. Successor(next, d)
  BY NextRevision
<1> HIDE DEF d
<1>3. d \in Journals(Runs)
  BY <1>2 DEF Successor
<1>4. CASE ~parseSetupRunJournal(d)
  BY <1>1, <1>4, OffIsAProcess DEF updateJournal, d, Refuses, Becomes
<1>5. CASE parseSetupRunJournal(d)
  <2> DEFINE n == [proc[p] EXCEPT !.pc = "lock", !.draft = d, !.then = then, !.at = at, !.result = None,
                                  !.work = work]
  <2>1. proc' = [proc EXCEPT ![p] = n]
    BY <1>5 DEF updateJournal, d, Becomes
  <2>2. n = [proc[p] EXCEPT !.pc = "lock", !.draft = d, !.then = then, !.at = at, !.result = None,
                            !.work = work, !.failedCleanup = proc[p].failedCleanup]
    BY <1>1 DEF Process
  <2> HIDE DEF n
  <2>3. Saves(proc[p], n, d, then, at, work, proc[p].failedCleanup)
    BY <1>1, <1>3, <2>2, SavesDraft
  <2> QED
    BY <1>2, <1>5, <2>1, <2>3 DEF Saves
<1> QED
  BY <1>4, <1>5

(* A draft of process q in which the entry of operation i is e, and all    *)
(* others are those of its journal.  Complete or cleaned is what was so,   *)
(* or what the adapter has just answered for.                              *)
MayRecord(q, i, e) ==
    /\ e.phase = "completed" =>
           \/ e = q.journal.entries[i]
           \/ /\ q.pc = "settled" /\ q.then = None /\ i = q.at
              /\ validateReconcileResult(i, q.result, q.journal.invocation.approved)
              /\ e = Answer(q.result)
    /\ e.phase = "cleaned" =>
           \/ e = q.journal.entries[i]
           \/ /\ q.pc = "settled" /\ q.then = "cleaning" /\ i = q.at
              /\ q.result.disposition # "rejected" /\ e.ref = q.journal.entries[i].ref

Continues(q, n) ==
    /\ n \in Process /\ n.journal = q.journal /\ n.invocation = q.invocation /\ n.config = q.config

Drafting(q, n) ==
    /\ Continues(q, n) /\ n.pc = "lock" /\ q.journal # None
    /\ SoundJournal(n.draft) /\ Follows(q.journal, n.draft)
    /\ n.then \in Steps /\ Ready(n.then, n.draft, n)
    /\ \E i \in Ops, e \in Entries :
           n.draft.entries = [q.journal.entries EXCEPT ![i] = e] /\ MayRecord(q, i, e)

(* Or it goes on to an adapter.                                            *)
Turning(q, n) ==
    /\ Continues(q, n) /\ n.pc \in {"reconcile", "clean"} /\ q.journal # None
    /\ Working(n)

Executes(q, n) == n \in Process /\ (n.pc # "off" => Drafting(q, n) \/ Turning(q, n))

(* What a process that is about to change its journal has.                 *)
LEMMA HasJournal ==
    ASSUME Types, Processes, NEW p \in Procs, proc[p].pc \in {"walk", "settled", "cleanup"}
    PROVE  /\ proc[p] \in Process /\ Working(proc[p]) /\ Configured(proc[p])
           /\ proc[p].journal # None /\ proc[p].journal \in Journals(Runs) /\ SoundJournal(proc[p].journal)
           /\ proc[p].journal.invocation = proc[p].invocation
           /\ file # None /\ Ancestor(proc[p].journal, file)
<1>1. SoundProcess(proc[p], file)
  BY DEF Processes
<1>2. Working(proc[p]) /\ Holds(proc[p], file) /\ Configured(proc[p])
  BY <1>1 DEF SoundProcess
<1>3. proc[p].journal # None
  BY <1>2 DEF Working, Steps
<1> QED
  BY <1>2, <1>3 DEF Holds, Types, SoundJournal

(* How one entry of a journal is replaced.                                 *)
LEMMA Replaced ==
    ASSUME NEW j \in Journals(Runs), NEW i \in Ops, NEW e \in Entries, NEW next \in Journals(Runs),
           next.entries = [j.entries EXCEPT ![i] = e], NEW d, Successor(next, d)
    PROVE  /\ d \in Journals(Runs) /\ d.revision = next.revision + 1 /\ d.invocation = next.invocation
           /\ d.state = next.state /\ d.entries = [j.entries EXCEPT ![i] = e]
           /\ d.entries[i] = e /\ \A k \in Ops : k # i => d.entries[k] = j.entries[k]
  BY JournalFields DEF Successor

LEMMA WalkStep ==
    ASSUME Types, Processes, NEW p \in Procs, WalkPlan(p)
    PROVE  \E n : proc' = [proc EXCEPT ![p] = n] /\ Executes(proc[p], n)
<1> DEFINE q == proc[p]
           j == proc[p].journal
           left == {i \in Ops : j.entries[i].phase # "completed"}
<1>1. /\ q \in Process /\ Working(q) /\ j # None /\ j \in Journals(Runs) /\ SoundJournal(j)
      /\ q.pc = "walk"
  BY HasJournal DEF WalkPlan
<1>2. j.state # "failed" /\ q.then = None
  BY <1>1 DEF Working, Steps, Ready
<1>3. /\ j.revision \in Nat /\ j.entries \in [Ops -> Entries] /\ \A i \in Ops : j.entries[i] \in Entries
      /\ j = [revision |-> j.revision, invocation |-> j.invocation, state |-> j.state, entries |-> j.entries]
  BY <1>1, JournalFields
<1>4. 0 \in 0 .. Len(Plan) /\ Ops \subseteq 0 .. Len(Plan) /\ Ops # {}
  BY PlanFacts, PlanAssumption DEF Ops
<1>5. Idle \in Works /\ \A i \in Ops, resume \in BOOLEAN : Looks(i, resume) \in Works
  BY AdapterBounds DEF Idle, Looks, Works, CallNames, Drifted
<1> HIDE DEF left
<1>6. CASE left = {} /\ updateJournal(p, [j EXCEPT !.state = "completed"], "done", 0, Idle)
  <2> DEFINE next == [j EXCEPT !.state = "completed"]
  <2>1. PICK i \in Ops : TRUE
    BY <1>4
  <2>2. /\ next \in Journals(Runs) /\ next.revision = j.revision /\ next.invocation = j.invocation
        /\ next.state = "completed" /\ next.entries = [j.entries EXCEPT ![i] = j.entries[i]]
    BY <1>1, <1>3 DEF Journals
  <2> HIDE DEF next
  <2>3. PICK n \in Process :
           /\ proc' = [proc EXCEPT ![p] = n]
           /\ n.pc # "off" =>
                  \E d : /\ Successor(next, d) /\ parseSetupRunJournal(d)
                         /\ Saves(q, n, d, "done", 0, Idle, q.failedCleanup)
    BY <1>4, <1>5, <1>6, <2>2, UpdateStep DEF Steps, next
  <2>4. ASSUME n.pc # "off" PROVE Drafting(q, n)
    <3>1. PICK d : /\ Successor(next, d) /\ parseSetupRunJournal(d)
                   /\ Saves(q, n, d, "done", 0, Idle, q.failedCleanup)
      BY <2>3, <2>4
    <3>2. /\ d \in Journals(Runs) /\ d.revision = j.revision + 1 /\ d.invocation = j.invocation
          /\ d.state = "completed" /\ d.entries = [j.entries EXCEPT ![i] = j.entries[i]]
      BY <1>1, <1>3, <2>2, <3>1, Replaced
    <3>3. SoundJournal(d) /\ Follows(j, d)
      <4>1. FailedIsClean(d)
        BY <3>2 DEF FailedIsClean
      <4>2. SoundEntry(j.entries[i], i, j.invocation)
        BY <1>1, SoundJournalEntry
      <4> QED
        BY <1>1, <1>3, <3>1, <3>2, <4>1, <4>2, NextJournal
    <3>4. MayRecord(q, i, j.entries[i])
      BY DEF MayRecord
    <3>5. Ready("done", d, n)
      BY DEF Ready
    <3> QED
      BY <1>1, <1>3, <3>1, <3>2, <3>3, <3>4, <3>5 DEF Drafting, Saves, Continues, Steps
  <2> QED
    BY <2>3, <2>4 DEF Executes
<1>7. ASSUME NEW i \in Ops, IsFirst(i, left), j.entries[i].phase = "in-progress",
             Becomes(p, [q EXCEPT !.pc = "reconcile", !.at = i, !.work = Looks(i, TRUE)])
      PROVE  \E n : proc' = [proc EXCEPT ![p] = n] /\ Executes(q, n)
  <2> DEFINE n == [q EXCEPT !.pc = "reconcile", !.at = i, !.work = Looks(i, TRUE)]
  <2>1. /\ n \in Process /\ n.pc = "reconcile" /\ n.at = i /\ n.work = Looks(i, TRUE)
        /\ n.then = q.then /\ n.journal = j /\ n.invocation = q.invocation /\ n.config = q.config
    <3>1. i \in 0 .. Len(Plan) /\ Looks(i, TRUE) \in Works /\ "reconcile" \in Steps
      BY <1>4, <1>5 DEF Steps
    <3>2. n = Turned(q, "reconcile", i, Looks(i, TRUE)) /\ q \in Process
      BY <1>1, Zenon DEF Turned
    <3> DEFINE w == Looks(i, TRUE)
    <3>3. /\ w \in Works /\ n = Turned(q, "reconcile", i, w) /\ q \in Process
          /\ i \in 0 .. Len(Plan) /\ "reconcile" \in Steps
      BY <3>1, <3>2
    <3> HIDE DEF n, q, w
    <3>4. /\ n \in Process /\ n.pc = "reconcile" /\ n.at = i /\ n.work = w
          /\ n.then = q.then /\ n.journal = q.journal /\ n.invocation = q.invocation /\ n.config = q.config
      BY <3>3, TurnsTo
    <3> QED
      BY <3>4 DEF q, w
  <2>2. proc' = [proc EXCEPT ![p] = n]
    BY <1>7 DEF Becomes
  <2> HIDE DEF n
  <2>3. Looks(i, TRUE).op = i /\ Looks(i, TRUE).call = "look"
    BY DEF Looks
  <2>4. Reconciling(j, n)
    BY <1>2, <1>7, <2>1, <2>3 DEF Reconciling
  <2>5. Turning(q, n)
    BY <1>1, <1>2, <2>1, <2>4 DEF Turning, Continues, Working, Ready, Steps
  <2> QED
    BY <2>1, <2>2, <2>5 DEF Executes
<1>8. ASSUME NEW i \in Ops, IsFirst(i, left), j.entries[i].phase = "pending",
             updateJournal(p, [j EXCEPT !.entries[i].phase = "in-progress"], "reconcile", i, Looks(i, FALSE))
      PROVE  \E n : proc' = [proc EXCEPT ![p] = n] /\ Executes(q, n)
  <2> DEFINE e == [j.entries[i] EXCEPT !.phase = "in-progress"]
             next == [j EXCEPT !.entries[i].phase = "in-progress"]
  <2>1. /\ e \in Entries /\ e.phase = "in-progress" /\ e.disposition = j.entries[i].disposition
        /\ e.ref = j.entries[i].ref
    BY <1>3 DEF Entries, Phases
  <2>2. next = [j EXCEPT !.entries = [j.entries EXCEPT ![i] = e]]
    BY <1>3
  <2> HIDE DEF e
  <2>3. /\ next \in Journals(Runs) /\ next.revision = j.revision /\ next.invocation = j.invocation
        /\ next.state = j.state /\ next.entries = [j.entries EXCEPT ![i] = e]
    BY <1>1, <1>3, <2>1, <2>2 DEF Journals
  <2> HIDE DEF next
  <2>4. PICK n \in Process :
           /\ proc' = [proc EXCEPT ![p] = n]
           /\ n.pc # "off" =>
                  \E d : /\ Successor(next, d) /\ parseSetupRunJournal(d)
                         /\ Saves(q, n, d, "reconcile", i, Looks(i, FALSE), q.failedCleanup)
    BY <1>4, <1>5, <1>8, <2>3, UpdateStep DEF Steps, next
  <2>5. ASSUME n.pc # "off" PROVE Drafting(q, n)
    <3>1. PICK d : /\ Successor(next, d) /\ parseSetupRunJournal(d)
                   /\ Saves(q, n, d, "reconcile", i, Looks(i, FALSE), q.failedCleanup)
      BY <2>4, <2>5
    <3>2. /\ d \in Journals(Runs) /\ d.revision = j.revision + 1 /\ d.invocation = j.invocation
          /\ d.state = j.state /\ d.entries = [j.entries EXCEPT ![i] = e] /\ d.entries[i] = e
      BY <1>1, <1>3, <2>1, <2>3, <3>1, Replaced
    <3>3. SoundJournal(d) /\ Follows(j, d)
      <4>1. FailedIsClean(d)
        BY <1>2, <3>2 DEF FailedIsClean
      <4>2. j.entries[i].disposition = None
        BY <1>1, <1>8, SoundJournalEntry
      <4>3. SoundEntry(e, i, j.invocation)
        BY <2>1, <4>2, NoneFacts DEF SoundEntry
      <4>4. \A k \in Ops : k < i => j.entries[k].phase \notin {"pending", "in-progress"}
        <5>1. \A k \in Ops : k < i => k \notin left
          BY <1>8, PlanFacts DEF IsFirst
        <5> QED
          BY <5>1 DEF left
      <4> QED
        BY <1>1, <1>8, <2>1, <3>1, <3>2, <4>1, <4>2, <4>3, <4>4, NoneFacts, NextJournal DEF CleanupPhases
    <3>4. MayRecord(q, i, e)
      BY <2>1 DEF MayRecord
    <3>5. Ready("reconcile", d, n)
      BY <1>2, <2>1, <3>1, <3>2 DEF Ready, Reconciling, Saves, Looks
    <3> QED
      BY <1>1, <2>1, <3>1, <3>2, <3>3, <3>4, <3>5 DEF Drafting, Saves, Continues, Steps
  <2> QED
    BY <2>4, <2>5 DEF Executes
<1> QED
  BY <1>6, <1>7, <1>8 DEF WalkPlan, left

(* The journal next is that of process q with entry i replaced by a sound  *)
(* entry e, which forgets nothing.                                         *)
Proposes(q, i, e, next) ==
    /\ next.revision = q.journal.revision /\ next.invocation = q.journal.invocation
    /\ next.entries = [q.journal.entries EXCEPT ![i] = e]
    /\ SoundEntry(e, i, q.journal.invocation) /\ FailedIsClean(next) /\ MayRecord(q, i, e)
    /\ e = q.journal.entries[i] \/ e.phase \notin {"pending", "in-progress"}
    /\ \/ e = q.journal.entries[i]
       \/ \A k \in Ops : k < i => q.journal.entries[k].phase \notin {"pending", "in-progress"}
    /\ q.journal.entries[i].disposition = "created" =>
           e.disposition = "created" /\ e.ref = q.journal.entries[i].ref
    /\ q.journal.entries[i].phase \in CleanupPhases => e.phase \in CleanupPhases

(* Step then may be taken next, at operation at, once next is saved.       *)
GoesOn(then, at, failed, next) ==
    /\ then = "walk" => next.state # "failed"
    /\ then # "reconcile"
    /\ then = "cleanup" =>
           \A k \in Ops : k > at /\ next.entries[k].disposition = "created" =>
               next.entries[k].phase = "cleaned" \/ k \in failed

(* A step that saves such a journal.                                       *)
LEMMA EntryStep ==
    ASSUME Types, Processes, NEW p \in Procs, proc[p].pc \in {"walk", "settled", "cleanup"},
           NEW i \in Ops, NEW e \in Entries, NEW next \in Journals(Runs), Proposes(proc[p], i, e, next),
           NEW then \in Steps, NEW at \in 0 .. Len(Plan), NEW failed \in SUBSET Ops,
           NEW n \in Process,
           n.pc # "off" => \E d : /\ Successor(next, d) /\ parseSetupRunJournal(d)
                                  /\ Saves(proc[p], n, d, then, at, Idle, failed),
           GoesOn(then, at, failed, next)
    PROVE  Executes(proc[p], n)
<1> DEFINE q == proc[p]
           j == proc[p].journal
<1>0. /\ next.revision = j.revision /\ next.invocation = j.invocation
      /\ next.entries = [j.entries EXCEPT ![i] = e]
      /\ SoundEntry(e, i, j.invocation) /\ FailedIsClean(next) /\ MayRecord(q, i, e)
      /\ e = j.entries[i] \/ e.phase \notin {"pending", "in-progress"}
      /\ \/ e = j.entries[i]
         \/ \A k \in Ops : k < i => j.entries[k].phase \notin {"pending", "in-progress"}
      /\ j.entries[i].disposition = "created" => e.disposition = "created" /\ e.ref = j.entries[i].ref
      /\ j.entries[i].phase \in CleanupPhases => e.phase \in CleanupPhases
  BY DEF Proposes
<1>1. j # None /\ j \in Journals(Runs) /\ SoundJournal(j)
  BY HasJournal
<1>2. ASSUME n.pc # "off" PROVE Drafting(q, n)
  <2>1. PICK d : /\ Successor(next, d) /\ parseSetupRunJournal(d)
                 /\ Saves(q, n, d, then, at, Idle, failed)
    BY <1>2
  <2>2. /\ d \in Journals(Runs) /\ d.revision = j.revision + 1 /\ d.invocation = j.invocation
        /\ d.state = next.state /\ d.entries = next.entries /\ d.entries = [j.entries EXCEPT ![i] = e]
    BY <1>0, <2>1 DEF Successor
  <2>3. FailedIsClean(d)
    BY <1>0, <2>2 DEF FailedIsClean
  <2>4. e.phase = "in-progress" => j.entries[i].phase \in {"pending", "in-progress"}
    BY <1>0
  <2>5. e.phase # "pending" \/ e = j.entries[i]
    BY <1>0
  <2>6. SoundJournal(d) /\ Follows(j, d)
    BY <1>0, <1>1, <2>1, <2>2, <2>3, <2>4, <2>5, NextJournal
  <2>7. Ready(then, d, n)
    BY <2>1, <2>2 DEF GoesOn, Ready, CleanedFrom, Saves
  <2> QED
    BY <1>0, <1>1, <2>1, <2>2, <2>6, <2>7 DEF Drafting, Saves, Continues
<1> QED
  BY <1>2 DEF Executes

LEMMA ReconcileSettledStep ==
    ASSUME Types, Processes, NEW p \in Procs, ReconcileSettled(p)
    PROVE  \E n : proc' = [proc EXCEPT ![p] = n] /\ Executes(proc[p], n)
<1> DEFINE q == proc[p]
           j == proc[p].journal
           i == proc[p].at
           result == proc[p].result
<1>1. /\ q \in Process /\ Working(q) /\ j # None /\ j \in Journals(Runs) /\ SoundJournal(j)
      /\ q.pc = "settled" /\ q.then # "cleaning" /\ Configured(q) /\ j.invocation = q.invocation
  BY HasJournal DEF ReconcileSettled
<1>2. q.then = None /\ Reconciling(j, q) /\ SoundResult(result, i, q.config) /\ result \in Results
  BY <1>1, NoneFacts DEF Working
<1>3. i \in Ops /\ j.entries[i].phase = "in-progress" /\ j.state # "failed"
  BY <1>2 DEF Reconciling
<1>4. /\ j.revision \in Nat /\ j.entries \in [Ops -> Entries] /\ \A k \in Ops : j.entries[k] \in Entries
      /\ j = [revision |-> j.revision, invocation |-> j.invocation, state |-> j.state, entries |-> j.entries]
  BY <1>1, JournalFields
<1>5. 0 \in 0 .. Len(Plan) /\ Len(Plan) \in 0 .. Len(Plan) /\ Ops = 1 .. Len(Plan) /\ Len(Plan) \in Nat
  BY PlanFacts
<1>6. Idle \in Works
  BY AdapterBounds DEF Idle, Works, Drifted
<1>7. j.entries[i].disposition = None
  BY <1>1, <1>3, SoundJournalEntry
<1>8. \A k \in Ops : k < i => j.entries[k].phase \notin {"pending", "in-progress"}
  BY <1>1, <1>3 DEF SoundJournal, InOrder
<1>9. q.failedCleanup \in SUBSET Ops
  BY <1>1 DEF Process
<1> HIDE DEF result, i
<1>10. ASSUME validateReconcileResult(i, result, j.invocation.approved),
              updateJournal(p, [j EXCEPT !.entries[i] =
                   [phase |-> "completed", disposition |-> result.disposition,
                    ref |-> result.ref, failureCode |-> None]], "walk", 0, Idle)
       PROVE  \E n : proc' = [proc EXCEPT ![p] = n] /\ Executes(q, n)
  <2> DEFINE e == Answer(result)
             next == [j EXCEPT !.entries[i] = Answer(result)]
  <2>1. /\ result.disposition \in {"created", "adopted", "applied"}
        /\ Creates(i) => result.disposition \in {"created", "adopted"}
        /\ result.disposition = "adopted" => Plan[i].id \in j.invocation.approved
    BY <1>10 DEF validateReconcileResult
  <2>2. result.ref \in Refs \cup {None}
    BY <1>2 DEF Results
  <2>3. /\ e \in Entries /\ e.phase = "completed" /\ e.disposition = result.disposition
        /\ e.ref = result.ref
    <3> HIDE DEF Refs
    <3> QED
      BY <2>1, <2>2 DEF Answer, Entries, Phases
  <2>4. next = [j EXCEPT !.entries = [j.entries EXCEPT ![i] = e]]
    BY <1>4
  <2>5. /\ updateJournal(p, next, "walk", 0, Idle)
    BY <1>10 DEF Answer
  <2> HIDE DEF e, next
  <2>6. /\ next \in Journals(Runs) /\ next.revision = j.revision /\ next.invocation = j.invocation
        /\ next.state = j.state /\ next.entries = [j.entries EXCEPT ![i] = e]
    BY <1>1, <1>3, <1>4, <2>3, <2>4 DEF Journals
  <2>7. PICK n \in Process :
           /\ proc' = [proc EXCEPT ![p] = n]
           /\ n.pc # "off" =>
                  \E d : /\ Successor(next, d) /\ parseSetupRunJournal(d)
                         /\ Saves(q, n, d, "walk", 0, Idle, q.failedCleanup)
    BY <1>5, <1>6, <2>5, <2>6, UpdateStep DEF Steps
  <2>8. \A v \in Invocations : v.run = j.invocation => v.config = q.config
    BY <1>1, InvocationsAssumption DEF Configured
  <2>9. SoundEntry(e, i, j.invocation)
    BY <1>2, <2>1, <2>3, <2>8 DEF SoundEntry, SoundResult
  <2>10. FailedIsClean(next)
    BY <1>3, <2>6 DEF FailedIsClean
  <2>11. MayRecord(q, i, e)
    BY <1>1, <1>2, <1>10, <2>3 DEF MayRecord, e, i, result
  <2>12. j.entries[i].phase \notin CleanupPhases /\ j.entries[i].disposition # "created"
    BY <1>3, <1>7, NoneFacts DEF CleanupPhases
  <2>13. Executes(q, n)
    <3>1. Proposes(q, i, e, next)
      BY <1>8, <2>3, <2>6, <2>9, <2>10, <2>11, <2>12 DEF Proposes
    <3>2. GoesOn("walk", 0, q.failedCleanup, next)
      BY <1>3, <2>6 DEF GoesOn
    <3> QED
      BY <1>1, <1>3, <1>5, <1>9, <2>3, <2>6, <2>7, <3>1, <3>2, EntryStep DEF Steps
  <2> QED
    BY <2>7, <2>13
<1>11. ASSUME updateJournal(p, [j EXCEPT !.entries[i].phase = "failed",
                                         !.entries[i].failureCode = "setup_operation_failed"],
                            "cleanup", Len(Plan), Idle)
       PROVE  \E n : proc' = [proc EXCEPT ![p] = n] /\ Executes(q, n)
  <2> DEFINE e == [j.entries[i] EXCEPT !.phase = "failed", !.failureCode = "setup_operation_failed"]
             next == [j EXCEPT !.entries[i].phase = "failed",
                               !.entries[i].failureCode = "setup_operation_failed"]
  <2>1. /\ e \in Entries /\ e.phase = "failed" /\ e.disposition = j.entries[i].disposition
        /\ e.ref = j.entries[i].ref
    BY <1>3, <1>4 DEF Entries, Phases
  <2>2. next = [j EXCEPT !.entries = [j.entries EXCEPT ![i] = e]]
    BY <1>3, <1>4
  <2> HIDE DEF e, next
  <2>3. /\ next \in Journals(Runs) /\ next.revision = j.revision /\ next.invocation = j.invocation
        /\ next.state = j.state /\ next.entries = [j.entries EXCEPT ![i] = e]
    BY <1>1, <1>3, <1>4, <2>1, <2>2 DEF Journals
  <2>4. PICK n \in Process :
           /\ proc' = [proc EXCEPT ![p] = n]
           /\ n.pc # "off" =>
                  \E d : /\ Successor(next, d) /\ parseSetupRunJournal(d)
                         /\ Saves(q, n, d, "cleanup", Len(Plan), Idle, q.failedCleanup)
    BY <1>5, <1>6, <1>11, <2>3, UpdateStep DEF Steps, next
  <2>5. SoundEntry(e, i, j.invocation)
    BY <1>7, <2>1, NoneFacts DEF SoundEntry
  <2>6. FailedIsClean(next)
    BY <1>3, <2>3 DEF FailedIsClean
  <2>7. MayRecord(q, i, e)
    BY <2>1 DEF MayRecord
  <2>8. j.entries[i].phase \notin CleanupPhases /\ j.entries[i].disposition # "created"
    BY <1>3, <1>7, NoneFacts DEF CleanupPhases
  <2>9. \A k \in Ops : ~(k > Len(Plan))
    BY <1>5
  <2>10. Executes(q, n)
    <3>1. Proposes(q, i, e, next)
      BY <1>8, <2>1, <2>3, <2>5, <2>6, <2>7, <2>8 DEF Proposes
    <3>2. GoesOn("cleanup", Len(Plan), q.failedCleanup, next)
      BY <2>9 DEF GoesOn
    <3> QED
      BY <1>1, <1>3, <1>5, <1>9, <2>1, <2>3, <2>4, <3>1, <3>2, EntryStep DEF Steps
  <2> QED
    BY <2>4, <2>10
<1> QED
  BY <1>10, <1>11 DEF ReconcileSettled, result, i

LEMMA CleanupStepStep ==
    ASSUME Types, Processes, NEW p \in Procs, CleanupStep(p)
    PROVE  \E n : proc' = [proc EXCEPT ![p] = n] /\ Executes(proc[p], n)
<1> DEFINE q == proc[p]
           j == proc[p].journal
           left == {i \in Ops : i <= q.at /\ Creates(i) /\ IsCleanedUp(j.entries[i])}
           end == IF q.failedCleanup = {} THEN "failed" ELSE "cleanup-incomplete"
<1>1. /\ q \in Process /\ Working(q) /\ j # None /\ j \in Journals(Runs) /\ SoundJournal(j)
      /\ q.pc = "cleanup"
  BY HasJournal DEF CleanupStep
<1>2. CleanedFrom(j, q) /\ q.then = None
  BY <1>1 DEF Working, Steps, Ready
<1>3. /\ j.revision \in Nat /\ j.entries \in [Ops -> Entries] /\ \A i \in Ops : j.entries[i] \in Entries
      /\ j = [revision |-> j.revision, invocation |-> j.invocation, state |-> j.state, entries |-> j.entries]
  BY <1>1, JournalFields
<1>4. /\ 0 \in 0 .. Len(Plan) /\ Ops \subseteq 0 .. Len(Plan) /\ Ops # {} /\ Ops \subseteq Nat
      /\ q.at \in Nat /\ \A k \in Ops : k > q.at \/ k <= q.at
  <2>1. q.at \in 0 .. Len(Plan)
    BY <1>1 DEF Process
  <2>2. Len(Plan) > 0
    BY PlanAssumption
  <2> QED
    BY <2>1, <2>2, PlanFacts
<1>5. Idle \in Works /\ \A i \in Ops, resume \in BOOLEAN : Looks(i, resume) \in Works
  BY AdapterBounds DEF Idle, Looks, Works, CallNames, Drifted
<1>6. q.failedCleanup \in SUBSET Ops
  BY <1>1 DEF Process
<1>7. ASSUME NEW k \in Ops, k \notin left, k <= q.at, j.entries[k].disposition = "created"
      PROVE  j.entries[k].phase = "cleaned"
  <2>1. Creates(k) /\ j.entries[k].phase \in {"completed"} \cup CleanupPhases
    BY <1>1, <1>7, SoundJournalEntry DEF SoundEntry
  <2> QED
    BY <1>7, <2>1 DEF IsCleanedUp, CleanupPhases
<1> HIDE DEF left, end
<1>8. CASE left = {} /\ updateJournal(p, [j EXCEPT !.state = end], "failed", 0, Idle)
  <2> DEFINE next == [j EXCEPT !.state = end]
  <2>0. end \in {"failed", "cleanup-incomplete"} /\ (end = "failed" => q.failedCleanup = {})
    BY DEF end
  <2>1. PICK i \in Ops : TRUE
    BY <1>4
  <2>2. /\ next \in Journals(Runs) /\ next.revision = j.revision /\ next.invocation = j.invocation
        /\ next.state = end /\ next.entries = j.entries
        /\ next.entries = [j.entries EXCEPT ![i] = j.entries[i]]
    BY <1>1, <1>3, <2>0 DEF Journals
  <2> HIDE DEF next
  <2>3. PICK n \in Process :
           /\ proc' = [proc EXCEPT ![p] = n]
           /\ n.pc # "off" =>
                  \E d : /\ Successor(next, d) /\ parseSetupRunJournal(d)
                         /\ Saves(q, n, d, "failed", 0, Idle, q.failedCleanup)
    BY <1>4, <1>5, <1>8, <2>2, UpdateStep DEF Steps, next
  <2>4. FailedIsClean(next)
    <3> SUFFICES ASSUME end = "failed", NEW k \in Ops, j.entries[k].disposition = "created"
                 PROVE  j.entries[k].phase = "cleaned"
      BY <2>2 DEF FailedIsClean
    <3>1. CASE k > q.at
      BY <1>2, <2>0, <3>1 DEF CleanedFrom
    <3>2. CASE k <= q.at
      BY <1>7, <1>8, <3>2
    <3> QED
      BY <1>4, <3>1, <3>2
  <2>5. SoundEntry(j.entries[i], i, j.invocation)
    BY <1>1, SoundJournalEntry
  <2>6. MayRecord(q, i, j.entries[i])
    BY DEF MayRecord
  <2>7. Executes(q, n)
    <3>1. Proposes(q, i, j.entries[i], next)
      BY <2>2, <2>4, <2>5, <2>6 DEF Proposes
    <3>2. GoesOn("failed", 0, q.failedCleanup, next)
      BY Zenon DEF GoesOn
    <3> QED
      BY <1>1, <1>3, <1>4, <1>6, <2>2, <2>3, <3>1, <3>2, EntryStep DEF Steps
  <2> QED
    BY <2>3, <2>7
<1>9. ASSUME NEW i \in Ops, IsLast(i, left), j.entries[i].phase # "cleaning",
             updateJournal(p, [j EXCEPT !.entries[i].phase = "cleaning"], "cleanup", i, Idle)
      PROVE  \E n : proc' = [proc EXCEPT ![p] = n] /\ Executes(q, n)
  <2> DEFINE e == [j.entries[i] EXCEPT !.phase = "cleaning"]
             next == [j EXCEPT !.entries[i].phase = "cleaning"]
  <2>1. /\ e \in Entries /\ e.phase = "cleaning" /\ e.disposition = j.entries[i].disposition
        /\ e.ref = j.entries[i].ref
    BY <1>3 DEF Entries, Phases
  <2>2. next = [j EXCEPT !.entries = [j.entries EXCEPT ![i] = e]]
    BY <1>3
  <2> HIDE DEF e, next
  <2>3. /\ next \in Journals(Runs) /\ next.revision = j.revision /\ next.invocation = j.invocation
        /\ next.state = j.state /\ next.entries = [j.entries EXCEPT ![i] = e]
        /\ \A k \in Ops : k # i => next.entries[k] = j.entries[k]
        /\ next.entries[i] = e
    BY <1>1, <1>3, <2>1, <2>2 DEF Journals
  <2>4. PICK n \in Process :
           /\ proc' = [proc EXCEPT ![p] = n]
           /\ n.pc # "off" =>
                  \E d : /\ Successor(next, d) /\ parseSetupRunJournal(d)
                         /\ Saves(q, n, d, "cleanup", i, Idle, q.failedCleanup)
    BY <1>4, <1>5, <1>9, <2>3, UpdateStep DEF Steps, next
  <2>5. /\ i \in left /\ i <= q.at /\ j.entries[i].disposition = "created"
        /\ j.entries[i].phase \in {"completed", "cleanup-failed"}
    BY <1>9 DEF IsLast, left, IsCleanedUp
  <2>6. SoundEntry(e, i, j.invocation)
    <3>1. SoundEntry(j.entries[i], i, j.invocation)
      BY <1>1, SoundJournalEntry
    <3> QED
      BY <2>1, <2>5, <3>1 DEF SoundEntry
  <2>7. j.state # "failed"
    BY <1>1, <2>5 DEF SoundJournal, FailedIsClean
  <2>8. FailedIsClean(next)
    BY <2>3, <2>7 DEF FailedIsClean
  <2>9. MayRecord(q, i, e)
    BY <2>1 DEF MayRecord
  <2>10. \A k \in Ops : k < i => j.entries[k].phase \notin {"pending", "in-progress"}
    BY <1>1, <2>5 DEF SoundJournal, InOrder
  <2>11. ASSUME NEW k \in Ops, k > i, next.entries[k].disposition = "created"
         PROVE  next.entries[k].phase = "cleaned" \/ k \in q.failedCleanup
    <3>1. k # i /\ next.entries[k] = j.entries[k]
      BY <1>4, <2>3, <2>11
    <3>2. CASE k > q.at
      BY <1>2, <2>11, <3>1, <3>2 DEF CleanedFrom
    <3>3. CASE k <= q.at
      <4>1. k \notin left
        BY <1>4, <1>9, <2>11 DEF IsLast
      <4> QED
        BY <1>7, <2>11, <3>1, <3>3, <4>1
    <3> QED
      BY <1>4, <3>2, <3>3
  <2>12. e.phase \in CleanupPhases /\ e.phase \notin {"pending", "in-progress"}
    BY <2>1 DEF CleanupPhases
  <2>13. Executes(q, n)
    <3>1. Proposes(q, i, e, next)
      BY <2>1, <2>3, <2>6, <2>8, <2>9, <2>10, <2>12 DEF Proposes
    <3>2. GoesOn("cleanup", i, q.failedCleanup, next)
      BY <2>11 DEF GoesOn
    <3> QED
      BY <1>1, <1>4, <1>6, <2>1, <2>3, <2>4, <3>1, <3>2, EntryStep DEF Steps
  <2> QED
    BY <2>4, <2>13
<1>10. ASSUME NEW i \in Ops, IsLast(i, left), j.entries[i].phase = "cleaning",
              Becomes(p, [q EXCEPT !.pc = "clean", !.then = "cleaning", !.at = i, !.work = Looks(i, FALSE)])
       PROVE  \E n : proc' = [proc EXCEPT ![p] = n] /\ Executes(q, n)
  <2> DEFINE n == [q EXCEPT !.pc = "clean", !.then = "cleaning", !.at = i, !.work = Looks(i, FALSE)]
  <2>1. /\ n \in Process /\ n.pc = "clean" /\ n.at = i /\ n.work = Looks(i, FALSE)
        /\ n.then = "cleaning" /\ n.journal = j /\ n.invocation = q.invocation /\ n.config = q.config
        /\ n.failedCleanup = q.failedCleanup
    <3>1. i \in 0 .. Len(Plan) /\ Looks(i, FALSE) \in Works
      BY <1>4, <1>5
    <3> HIDE DEF Works, Results, Looks
    <3> QED
      BY <1>1, <3>1 DEF Process, Steps
  <2>2. proc' = [proc EXCEPT ![p] = n]
    BY <1>10 DEF Becomes
  <2> HIDE DEF n
  <2>3. Looks(i, FALSE).op = i
    BY DEF Looks
  <2>4. CleanedFrom(j, n)
    <3> SUFFICES ASSUME NEW k \in Ops, k > i, j.entries[k].disposition = "created"
                 PROVE  j.entries[k].phase = "cleaned" \/ k \in q.failedCleanup
      BY <2>1 DEF CleanedFrom
    <3>1. CASE k > q.at
      BY <1>2, <3>1 DEF CleanedFrom
    <3>2. CASE k <= q.at
      <4>1. k \notin left
        BY <1>4, <1>10 DEF IsLast
      <4> QED
        BY <1>7, <3>2, <4>1
    <3> QED
      BY <1>4, <3>1, <3>2
  <2>5. Cleaning(j, n)
    BY <1>10, <2>1, <2>3, <2>4 DEF Cleaning
  <2>6. Turning(q, n)
    BY <1>1, <2>1, <2>5 DEF Turning, Continues, Working, Steps
  <2> QED
    BY <2>1, <2>2, <2>6 DEF Executes
<1> QED
  BY <1>8, <1>9, <1>10 DEF CleanupStep, left, end

LEMMA CleanupSettledStep ==
    ASSUME Types, Processes, NEW p \in Procs, CleanupSettled(p)
    PROVE  \E n : proc' = [proc EXCEPT ![p] = n] /\ Executes(proc[p], n)
<1> DEFINE q == proc[p]
           j == proc[p].journal
           i == proc[p].at
           ok == proc[p].result.disposition # "rejected"
           ph == IF ok THEN "cleaned" ELSE "cleanup-failed"
           code == IF ok THEN None ELSE "setup_cleanup_failed"
           failed == IF ok THEN q.failedCleanup ELSE q.failedCleanup \cup {i}
           e == [j.entries[i] EXCEPT !.phase = ph, !.failureCode = code]
           next == [j EXCEPT !.entries = [j.entries EXCEPT ![i] = e]]
           d == [next EXCEPT !.revision = @ + 1]
<1>1. /\ q \in Process /\ Working(q) /\ j # None /\ j \in Journals(Runs) /\ SoundJournal(j)
      /\ q.pc = "settled" /\ q.then = "cleaning"
  BY HasJournal DEF CleanupSettled
<1>2. Cleaning(j, q)
  BY <1>1 DEF Working
<1>3. i \in Ops /\ j.entries[i].phase = "cleaning" /\ CleanedFrom(j, q)
  BY <1>2 DEF Cleaning
<1>4. /\ j.revision \in Nat /\ j.entries \in [Ops -> Entries] /\ \A k \in Ops : j.entries[k] \in Entries
      /\ j = [revision |-> j.revision, invocation |-> j.invocation, state |-> j.state, entries |-> j.entries]
  BY <1>1, JournalFields
<1>5. Ops \subseteq Nat /\ i - 1 \in 0 .. Len(Plan) /\ i \in Nat /\ Ops = 1 .. Len(Plan)
  BY <1>3, PlanFacts
<1>6. Idle \in Works
  BY AdapterBounds DEF Idle, Works, Drifted
<1>7. failed \in SUBSET Ops /\ q.failedCleanup \subseteq failed /\ (~ok => i \in failed)
  BY <1>1, <1>3 DEF Process
<1>8. ph \in Phases /\ code \in {None, "setup_operation_failed", "setup_cleanup_failed"}
      /\ ph \in CleanupPhases /\ ph \notin {"pending", "in-progress", "completed"}
  BY DEF Phases, CleanupPhases
<1>9. (ph = "cleaned" => ok) /\ (ph # "cleaned" => ~ok)
  OBVIOUS
<1>10. CASE ~parseSetupRunJournal(d) /\ Refuses(p)
  <2>1. q.invocation \in Runs \cup {None}
    BY <1>1 DEF Process
  <2> QED
    BY <1>10, <2>1, OffIsAProcess DEF Refuses, Becomes, Executes
<1>11. CASE parseSetupRunJournal(d)
            /\ Becomes(p, [q EXCEPT !.pc = "lock", !.draft = d, !.then = "cleanup", !.at = i - 1,
                                    !.result = None, !.work = Idle, !.failedCleanup = failed])
  <2> DEFINE n == [q EXCEPT !.pc = "lock", !.draft = d, !.then = "cleanup", !.at = i - 1,
                            !.result = None, !.work = Idle, !.failedCleanup = failed]
  <2> HIDE DEF ok, ph, code, failed
  <2>1. /\ e \in Entries /\ e.phase = ph /\ e.disposition = j.entries[i].disposition
        /\ e.ref = j.entries[i].ref
    <3>1. j.entries[i] \in Entries
      BY <1>3, <1>4
    <3> HIDE DEF Refs, Phases, i, j
    <3> QED
      BY <1>8, <3>1 DEF Entries
  <2> HIDE DEF e, i
  <2>2. /\ next \in Journals(Runs) /\ next.revision = j.revision /\ next.invocation = j.invocation
        /\ next.state = j.state /\ next.entries = [j.entries EXCEPT ![i] = e]
        /\ \A k \in Ops : k # i => next.entries[k] = j.entries[k]
        /\ next.entries[i] = e
    BY <1>1, <1>3, <1>4, <2>1 DEF Journals
  <2> HIDE DEF next
  <2>3. Successor(next, d) /\ d \in Journals(Runs)
    BY <2>2, NextRevision DEF Successor
  <2> HIDE DEF d
  <2>4. n = [q EXCEPT !.pc = "lock", !.draft = d, !.then = "cleanup", !.at = i - 1,
                      !.result = None, !.work = Idle, !.failedCleanup = failed]
        /\ proc' = [proc EXCEPT ![p] = n]
    BY <1>11 DEF Becomes
  <2> HIDE DEF n
  <2>5. Saves(q, n, d, "cleanup", i - 1, Idle, failed)
    <3>1. Saves(q, [q EXCEPT !.pc = "lock", !.draft = d, !.then = "cleanup", !.at = i - 1, !.result = None,
                             !.work = Idle, !.failedCleanup = failed],
                d, "cleanup", i - 1, Idle, failed)
      BY <1>1, <1>5, <1>6, <1>7, <2>3, SavesDraft DEF Steps
    <3> QED
      BY <2>4, <3>1
  <2>6. /\ j.entries[i].disposition = "created" /\ SoundEntry(j.entries[i], i, j.invocation)
    BY <1>1, <1>3, SoundJournalEntry DEF CleanupPhases
  <2>7. SoundEntry(e, i, j.invocation)
    BY <1>8, <2>1, <2>6 DEF SoundEntry
  <2>8. j.state # "failed"
    BY <1>1, <1>3, <2>6 DEF SoundJournal, FailedIsClean
  <2>9. FailedIsClean(next)
    BY <2>2, <2>8 DEF FailedIsClean
  <2>10. MayRecord(q, i, e)
    BY <1>1, <1>8, <1>9, <2>1 DEF MayRecord, ok, i
  <2>11. \A k \in Ops : k < i => j.entries[k].phase \notin {"pending", "in-progress"}
    BY <1>1, <1>3 DEF SoundJournal, InOrder
  <2>12. ASSUME NEW k \in Ops, k > i - 1, next.entries[k].disposition = "created"
         PROVE  next.entries[k].phase = "cleaned" \/ k \in failed
    <3>1. CASE k = i
      BY <1>7, <1>9, <2>1, <2>2, <3>1
    <3>2. CASE k # i
      <4>1. k > i
        BY <1>5, <2>12, <3>2
      <4> QED
        BY <1>3, <1>7, <2>2, <2>12, <3>2, <4>1 DEF CleanedFrom, i
    <3> QED
      BY <3>1, <3>2
  <2>13. n \in Process /\ parseSetupRunJournal(d)
    BY <1>11, <2>5 DEF Saves
  <2>14. e.phase \in CleanupPhases /\ e.phase \notin {"pending", "in-progress"}
    BY <1>8, <2>1
  <2>15. Executes(q, n)
    <3>1. Proposes(q, i, e, next)
      BY <2>1, <2>2, <2>6, <2>7, <2>9, <2>10, <2>11, <2>14 DEF Proposes
    <3>2. GoesOn("cleanup", i - 1, failed, next)
      BY <2>12 DEF GoesOn
    <3> QED
      BY <1>1, <1>3, <1>5, <1>7, <2>1, <2>2, <2>3, <2>5, <2>13, <3>1, <3>2, EntryStep DEF Steps
  <2> QED
    BY <2>4, <2>15
<1>12. d = [j EXCEPT !.entries[i].phase = ph, !.entries[i].failureCode = code, !.revision = @ + 1]
  <2> HIDE DEF j, i, ph, code
  <2>1. [[j.entries EXCEPT ![i] = [@ EXCEPT !.phase = ph]] EXCEPT ![i] = [@ EXCEPT !.failureCode = code]]
        = [j.entries EXCEPT ![i] = e]
    <3>1. [[j.entries[i] EXCEPT !.phase = ph] EXCEPT !.failureCode = code] = e
      BY <1>3, <1>4 DEF Entries
    <3> HIDE DEF e
    <3> QED
      BY <1>3, <1>4, <3>1
  <2> HIDE DEF e
  <2> QED
    BY <1>4, <2>1
<1> HIDE DEF d
<1> QED
  BY <1>10, <1>11, <1>12 DEF CleanupSettled

-----------------------------------------------------------------------------
(* Every step of a process is of one of these kinds.                        *)

Stays == account' = account /\ applied' = applied /\ deleted' = deleted /\ file' = file

Keeps(q, n) ==
    /\ n.invocation = q.invocation /\ n.config = q.config /\ n.journal = q.journal /\ n.draft = q.draft
    /\ n.at = q.at /\ n.work = q.work /\ n.failedCleanup = q.failedCleanup

Fits(d, f) == IF f = None THEN d.revision = 1 ELSE f.revision + 1 = d.revision

Stopping(q, n) == n.pc = "off" /\ Stays

Adapting(q, n) ==
    /\ \/ q.pc = "reconcile" /\ ReconcileStep(q, n)
       \/ q.pc = "clean" /\ CleanStep(q, n)
    /\ q.at \in Ops /\ file' = file

Executing(q, n) == q.pc \in {"walk", "settled", "cleanup"} /\ (Drafting(q, n) \/ Turning(q, n)) /\ Stays

Locking(q, n) == q.pc = "lock" /\ n.pc = "write" /\ Keeps(q, n) /\ n.then = q.then /\ Stays

Writing(q, n) ==
    /\ q.pc = "write" /\ n.pc = "unlock" /\ Keeps(q, n) /\ n.then = q.then
    /\ Fits(q.draft, file) /\ file' = q.draft
    /\ account' = account /\ applied' = applied /\ deleted' = deleted

Conflicting(q, n) ==
    /\ q.pc = "write" /\ n.pc = "unlock" /\ Keeps(q, n) /\ n.then = "conflict"
    /\ ~Fits(q.draft, file) /\ Stays

Unlocking(q, n) ==
    /\ q.pc = "unlock" /\ q.then # "conflict" /\ n.pc = q.then /\ n.journal = q.draft /\ n.then = None
    /\ n.invocation = q.invocation /\ n.config = q.config
    /\ n.at = q.at /\ n.work = q.work /\ n.failedCleanup = q.failedCleanup /\ Stays

Beginning(q, n) ==
    /\ q.pc = "load" /\ n.pc = "lock" /\ file = None
    /\ n.invocation = q.invocation /\ n.config = q.config /\ n.journal = q.journal
    /\ n.draft = createSetupRunJournal(q.invocation) /\ n.then = "walk" /\ Stays

Resuming(q, n) ==
    /\ q.pc = "load" /\ file # None /\ n.journal = file /\ file.invocation = q.invocation
    /\ n.pc \in {"done", "cleanup", "walk"} /\ (n.pc = "walk" => file.state # "failed")
    /\ n.invocation = q.invocation /\ n.config = q.config /\ n.then = None /\ n.at = Len(Plan) /\ Stays

Starting(q, n) ==
    /\ q.pc = "off" /\ n.pc = "load" /\ Configured(n) /\ n.journal = None /\ n.then = None /\ Stays

Kind(q, n) ==
    \/ Stopping(q, n) \/ Adapting(q, n) \/ Executing(q, n) \/ Locking(q, n) \/ Writing(q, n)
    \/ Conflicting(q, n) \/ Unlocking(q, n) \/ Beginning(q, n) \/ Resuming(q, n) \/ Starting(q, n)

Moves(p) == \E n \in Process : proc' = [proc EXCEPT ![p] = n] /\ Kind(proc[p], n)

LEMMA Stopped ==
    ASSUME Types, NEW p \in Procs, Ends(p) \/ Refuses(p), Stays
    PROVE  Moves(p)
<1>1. proc[p].invocation \in Runs \cup {None}
  BY DEF Types, Process
<1>2. PICK n \in Process : proc' = [proc EXCEPT ![p] = n] /\ n.pc = "off"
  BY <1>1, OffIsAProcess DEF Ends, Refuses, Becomes
<1> QED
  BY <1>2 DEF Moves, Kind, Stopping

LEMMA FileSteps ==
    ASSUME Types, Processes, NEW p \in Procs, LockJournal(p) \/ WriteJournal(p) \/ UnlockJournal(p)
    PROVE  Moves(p)
<1> DEFINE q == proc[p]
<1>1. q \in Process /\ proc \in [Procs -> Process]
  BY DEF Types
<1> HIDE DEF q
<1>2. CASE LockJournal(p)
  <2>1. Stays
    BY <1>2 DEF LockJournal, Stays, cloud
  <2>2. CASE lock
    BY <1>2, <2>1, <2>2, Stopped DEF LockJournal
  <2>3. CASE ~lock
    <3> DEFINE n == [q EXCEPT !.pc = "write"]
    <3>1. proc' = [proc EXCEPT ![p] = n]
      BY <1>1, <1>2, <2>3 DEF LockJournal, q
    <3>2. n \in Process /\ n.pc = "write" /\ Keeps(q, n) /\ n.then = q.then
      <4> HIDE DEF Works, Results
      <4> QED
        BY <1>1 DEF Process, Keeps
    <3> HIDE DEF n
    <3>3. Locking(q, n)
      BY <1>2, <2>1, <3>2 DEF LockJournal, Locking, q
    <3> QED
      BY <3>1, <3>2, <3>3 DEF Moves, Kind, q
  <2> QED
    BY <2>2, <2>3
<1>3. CASE WriteJournal(p)
  <2>1. account' = account /\ applied' = applied /\ deleted' = deleted /\ q.pc = "write"
    BY <1>3 DEF WriteJournal, cloud, q
  <2>2. CASE validateRevisionChange(p)
    <3> DEFINE n == [q EXCEPT !.pc = "unlock"]
    <3>1. proc' = [proc EXCEPT ![p] = n] /\ file' = q.draft /\ Fits(q.draft, file)
      BY <1>1, <1>3, <2>2 DEF WriteJournal, validateRevisionChange, Fits, q
    <3>2. n \in Process /\ n.pc = "unlock" /\ Keeps(q, n) /\ n.then = q.then
      <4> HIDE DEF Works, Results
      <4> QED
        BY <1>1 DEF Process, Keeps
    <3> HIDE DEF n
    <3>3. Writing(q, n)
      BY <2>1, <3>1, <3>2 DEF Writing
    <3> QED
      BY <3>1, <3>2, <3>3 DEF Moves, Kind, q
  <2>3. CASE ~validateRevisionChange(p)
    <3> DEFINE n == [q EXCEPT !.pc = "unlock", !.then = "conflict"]
    <3>1. proc' = [proc EXCEPT ![p] = n] /\ file' = file /\ ~Fits(q.draft, file)
      BY <1>1, <1>3, <2>3 DEF WriteJournal, validateRevisionChange, Fits, q
    <3>2. n \in Process /\ n.pc = "unlock" /\ Keeps(q, n) /\ n.then = "conflict"
      <4> HIDE DEF Works, Results
      <4> QED
        BY <1>1 DEF Process, Keeps
    <3> HIDE DEF n
    <3>3. Conflicting(q, n)
      BY <2>1, <3>1, <3>2 DEF Conflicting, Stays
    <3> QED
      BY <3>1, <3>2, <3>3 DEF Moves, Kind, q
  <2> QED
    BY <2>2, <2>3
<1>4. CASE UnlockJournal(p)
  <2>1. Stays
    BY <1>4 DEF UnlockJournal, Stays, cloud
  <2>2. CASE q.then = "conflict"
    BY <1>4, <2>1, <2>2, Stopped DEF UnlockJournal, q
  <2>3. CASE q.then # "conflict"
    <3>1. q.then \in Steps
      BY <1>4, <2>3 DEF Processes, SoundProcess, Written, UnlockJournal, q
    <3> DEFINE n == [q EXCEPT !.pc = q.then, !.journal = q.draft, !.draft = None, !.then = None]
    <3>2. proc' = [proc EXCEPT ![p] = n]
      BY <1>1, <1>4, <2>3 DEF UnlockJournal, Becomes, q
    <3>3. /\ n \in Process /\ n.pc = q.then /\ n.journal = q.draft /\ n.then = None
          /\ n.invocation = q.invocation /\ n.config = q.config
          /\ n.at = q.at /\ n.work = q.work /\ n.failedCleanup = q.failedCleanup
      <4> HIDE DEF Works, Results, Steps
      <4> QED
        BY <1>1, <3>1 DEF Process
    <3> HIDE DEF n
    <3>4. Unlocking(q, n)
      BY <1>4, <2>1, <2>3, <3>3 DEF Unlocking, UnlockJournal, q
    <3> QED
      BY <3>2, <3>3, <3>4 DEF Moves, Kind, q
  <2> QED
    BY <2>2, <2>3
<1> QED
  BY <1>2, <1>3, <1>4

LEMMA LoadStep ==
    ASSUME Types, SoundFile, Processes, NEW p \in Procs, LoadJournal(p)
    PROVE  Moves(p)
<1> DEFINE q == proc[p]
           run == q.invocation
<1>1. /\ q \in Process /\ proc \in [Procs -> Process] /\ q.pc = "load" /\ q.then \in Steps \cup {None, "conflict", "cleaning"}
      /\ file \in Journals(Runs) \cup {None}
  BY DEF Types, LoadJournal, Process
<1>2. Configured(q) /\ q.journal = None /\ q.then = None
  BY <1>1 DEF Processes, SoundProcess, Working
<1>3. run \in Runs
  BY <1>2 DEF Configured, Runs
<1>4. Stays
  BY DEF LoadJournal, Stays, cloud, disk
<1> HIDE DEF q, run
<1>5. CASE Refuses(p)
  BY <1>4, <1>5, Stopped
<1>6. CASE /\ file = None
           /\ Becomes(p, [q EXCEPT !.pc = "lock", !.draft = createSetupRunJournal(run), !.then = "walk"])
  <2> DEFINE n == [q EXCEPT !.pc = "lock", !.draft = createSetupRunJournal(run), !.then = "walk"]
  <2>1. createSetupRunJournal(run) \in Journals(Runs)
    <3>1. Pending \in Entries
      BY DEF Pending, Entries, Phases
    <3>2. [i \in Ops |-> Pending] \in [Ops -> Entries]
      BY <3>1
    <3> QED
      BY <1>3, <3>2 DEF createSetupRunJournal, Journals
  <2>2. /\ n \in Process /\ n.pc = "lock" /\ n.draft = createSetupRunJournal(run) /\ n.then = "walk"
        /\ n.invocation = q.invocation /\ n.config = q.config /\ n.journal = q.journal
    <3> HIDE DEF Works, Results
    <3> QED
      BY <1>1, <2>1 DEF Process, Steps
  <2>3. proc' = [proc EXCEPT ![p] = n]
    BY <1>6 DEF Becomes, q
  <2> HIDE DEF n
  <2>4. Beginning(q, n)
    BY <1>1, <1>4, <1>6, <2>2 DEF Beginning, run
  <2> QED
    BY <2>2, <2>3, <2>4 DEF Moves, Kind, q
<1>7. CASE file # None /\ validateJournalForPlan(file, run) /\ ~Refuses(p)
  <2> DEFINE pc == IF file.state = "completed" THEN "done" ELSE IF HasFailed(file) THEN "cleanup" ELSE "walk"
             n == [q EXCEPT !.pc = pc, !.journal = file, !.at = Len(Plan)]
  <2>1. proc' = [proc EXCEPT ![p] = n]
    BY <1>7 DEF LoadJournal, Becomes, q, run
  <2>2. pc \in {"done", "cleanup", "walk"} /\ (pc = "walk" => file.state # "failed")
    BY DEF HasFailed
  <2> HIDE DEF pc
  <2>3. Len(Plan) \in 0 .. Len(Plan)
    BY PlanFacts
  <2>4. /\ n \in Process /\ n.pc = pc /\ n.journal = file /\ n.at = Len(Plan)
        /\ n.invocation = q.invocation /\ n.config = q.config /\ n.then = q.then
    <3>1. pc \in Steps /\ file \in Journals(Runs) \cup {None} /\ q.work \in Works
      BY <1>1, <2>2 DEF Steps, Types, Process
    <3>2. n = Resumed(q, pc, file, Len(Plan)) /\ q \in Process
      BY <1>1, Zenon DEF Resumed
    <3> HIDE DEF n, q
    <3> QED
      BY <2>3, <3>1, <3>2, TakesJournal
  <2> HIDE DEF n
  <2>5. file.invocation = q.invocation
    BY <1>7 DEF validateJournalForPlan, run
  <2>6. Resuming(q, n)
    BY <1>1, <1>2, <1>4, <1>7, <2>2, <2>4, <2>5 DEF Resuming
  <2> QED
    BY <2>1, <2>4, <2>6 DEF Moves, Kind, q
<1> QED
  BY <1>5, <1>6, <1>7 DEF LoadJournal, q, run

LEMMA StartStep ==
    ASSUME Types, NEW p \in Procs, NEW i \in Invocations, StartSetup(p, i)
    PROVE  Moves(p)
<1> DEFINE n == [Off EXCEPT !.pc = "load", !.invocation = i.run, !.config = i.config]
<1>1. Stays
  BY DEF StartSetup, Stays, cloud, disk
<1>2. CASE Ends(p)
  BY <1>1, <1>2, Stopped
<1>3. CASE Becomes(p, n)
  <2>1. i.run \in Runs /\ i.config \in Configs
    BY DEF Runs, Configs
  <2>2. /\ n \in Process /\ n.pc = "load" /\ n.invocation = i.run /\ n.config = i.config
        /\ n.journal = None /\ n.then = None
    <3> HIDE DEF Works, Results
    <3>1. Off \in Process /\ Off.journal = None /\ Off.then = None
      BY OffIsAProcess DEF Off
    <3> HIDE DEF Off
    <3> QED
      BY <2>1, <3>1 DEF Process
  <2>3. proc' = [proc EXCEPT ![p] = n]
    BY <1>3 DEF Becomes
  <2> HIDE DEF n
  <2>4. proc[p].pc = "off"
    BY DEF StartSetup, Alive
  <2>5. Starting(proc[p], n)
    BY <1>1, <2>2, <2>4 DEF Starting, Configured
  <2> QED
    BY <2>2, <2>3, <2>5 DEF Moves, Kind
<1> QED
  BY <1>2, <1>3 DEF StartSetup

LEMMA ProcessStep ==
    ASSUME Types, SoundFile, Processes, World, NEW p \in Procs,
           Step(p) \/ Crash(p) \/ \E i \in Invocations : StartSetup(p, i)
    PROVE  Moves(p)
<1>1. CASE LockJournal(p) \/ WriteJournal(p) \/ UnlockJournal(p)
  BY <1>1, FileSteps
<1>2. CASE LoadJournal(p)
  BY <1>2, LoadStep
<1>3. ASSUME WalkPlan(p) \/ ReconcileSettled(p) \/ CleanupStep(p) \/ CleanupSettled(p) PROVE Moves(p)
  <2>1. Stays /\ proc[p].pc \in {"walk", "settled", "cleanup"}
    BY <1>3 DEF WalkPlan, ReconcileSettled, CleanupStep, CleanupSettled, Stays, cloud, disk
  <2>2. PICK n : proc' = [proc EXCEPT ![p] = n] /\ Executes(proc[p], n)
    BY <1>3, WalkStep, ReconcileSettledStep, CleanupStepStep, CleanupSettledStep
  <2> QED
    BY <2>1, <2>2 DEF Executes, Moves, Kind, Stopping, Executing
<1>4. CASE Exit(p) \/ Crash(p)
  <2>1. Stays /\ Ends(p)
    BY <1>4 DEF Exit, Crash, Stays, cloud, disk
  <2> QED
    BY <2>1, Stopped
<1>5. CASE Work(p) /\ UNCHANGED <<disk, starts, bounds>>
  <2>1. file' = file
    BY <1>5 DEF disk
  <2>2. PICK n : /\ proc' = [proc EXCEPT ![p] = n]
                 /\ \/ proc[p].pc = "reconcile" /\ ReconcileStep(proc[p], n)
                    \/ proc[p].pc = "clean" /\ CleanStep(proc[p], n)
    BY <1>5, WorkStep
  <2>3. n \in Process
    BY <2>2 DEF ReconcileStep, CleanStep, SameRun
  <2>4. Adapting(proc[p], n)
    BY <1>5, <2>1, <2>2, WorkStep DEF Adapting
  <2> QED
    BY <2>2, <2>3, <2>4 DEF Moves, Kind
<1>6. CASE \E i \in Invocations : StartSetup(p, i)
  BY <1>6, StartStep
<1> QED
  BY <1>1, <1>2, <1>3, <1>4, <1>5, <1>6 DEF Step

-----------------------------------------------------------------------------
(* Types are kept.                                                          *)

LEMMA TypesStep ==
    ASSUME Types, SoundFile, Processes, World, [Next]_vars
    PROVE  Types'
<1>1. /\ MaxFaults \in Nat /\ MaxStarts \in Nat /\ MaxChanges \in Nat /\ Migrations \in Nat
      /\ Drifted = Migrations + 1
  BY AdapterBounds, SetupBounds DEF Drifted
<1>2. CASE UNCHANGED vars
  BY <1>2 DEF vars, Types
<1>3. ASSUME NEW p \in Procs, Step(p) \/ Crash(p) \/ \E i \in Invocations : StartSetup(p, i)
      PROVE  Types'
  <2>1. PICK n \in Process : proc' = [proc EXCEPT ![p] = n] /\ Kind(proc[p], n)
    BY <1>3, ProcessStep DEF Moves
  <2>2. proc' \in [Procs -> Process]
    BY <2>1 DEF Types
  <2>3. /\ account' \subseteq Resources /\ deleted' \subseteq Resources /\ applied' \in 0 .. Drifted
        /\ file' \in Journals(Runs) \cup {None}
    <3>1. CASE Adapting(proc[p], n)
      <4>1. /\ \/ Untouched \/ MakesBucket(proc[p].at) \/ Deploys(proc[p].at) \/ Migrates
               \/ MakesDatabase(proc[p].at) \/ Removes(proc[p].at, proc[p].journal.entries[proc[p].at].ref)
            /\ proc[p].at \in Ops /\ file' = file
        BY <3>1 DEF Adapting, ReconcileStep, CleanStep
      <4>2. Mine(proc[p].at) \in Resources
        BY <4>1, MineIsAResource
      <4> QED
        BY <1>1, <4>1, <4>2
           DEF Types, Untouched, MakesBucket, Deploys, Migrates, MakesDatabase, Removes
    <3>2. CASE Writing(proc[p], n)
      <4>1. SoundProcess(proc[p], file)
        BY DEF Processes
      <4>2. proc[p].draft \in Journals(Runs)
        BY <3>2, <4>1 DEF SoundProcess, Drafts, Writing, SoundJournal
      <4> QED
        BY <3>2, <4>2 DEF Writing, Types
    <3>3. CASE Stays
      BY <3>3 DEF Stays, Types
    <3> QED
      BY <2>1, <3>1, <3>2, <3>3
         DEF Kind, Stopping, Executing, Locking, Conflicting, Unlocking, Beginning, Resuming, Starting
  <2>4. /\ lock' \in BOOLEAN /\ faults' \in 0 .. MaxFaults /\ starts' \in 0 .. MaxStarts
        /\ changes' \in 0 .. MaxChanges /\ overlapped' \in BOOLEAN
    <3>1. CASE LockJournal(p) \/ WriteJournal(p) \/ UnlockJournal(p)
      BY <3>1 DEF Types, LockJournal, WriteJournal, UnlockJournal, cloud, bounds
    <3>2. CASE LoadJournal(p) \/ WalkPlan(p) \/ ReconcileSettled(p)
      BY <3>2 DEF Types, LoadJournal, WalkPlan, ReconcileSettled, cloud, disk, bounds
    <3>3. CASE CleanupStep(p) \/ CleanupSettled(p) \/ Exit(p) \/ Crash(p)
      BY <3>3 DEF Types, CleanupStep, CleanupSettled, Exit, Crash, cloud, disk, bounds
    <3>4. CASE Work(p) /\ UNCHANGED <<disk, starts, bounds>>
      BY <3>4, FaultsAreBounded DEF Types, disk, bounds
    <3>5. CASE \E i \in Invocations : StartSetup(p, i)
      BY <1>1, <3>5 DEF Types, StartSetup, cloud, disk
    <3> QED
      BY <1>3, <3>1, <3>2, <3>3, <3>4, <3>5 DEF Step
  <2> QED
    BY <2>2, <2>3, <2>4 DEF Types
<1>4. CASE RemoveStaleLock
  BY <1>4 DEF RemoveStaleLock, Types, cloud, bounds
<1>5. CASE OperatorChanges
  <2>1. /\ proc' = proc /\ faults' = faults /\ deleted' = deleted /\ file' = file /\ lock' = lock
        /\ starts' = starts /\ overlapped' = overlapped
    BY <1>5 DEF OperatorChanges, disk
  <2>2. changes' \in 0 .. MaxChanges
    BY <1>1, <1>5 DEF OperatorChanges, Types
  <2>3. account' \subseteq Resources /\ applied' \in 0 .. Drifted
    <3>1. 0 \in 0 .. Drifted /\ Drifted \in 0 .. Drifted
      BY <1>1
    <3>2. ASSUME NEW r \in account
          PROVE  {resource(r.op, TRUE, "operator", FALSE), resource(r.op, TRUE, "operator", TRUE),
                  [r EXCEPT !.asAsked = FALSE]} \subseteq Resources
      <4>1. r \in Resources
        BY DEF Types
      <4>2. resource(r.op, TRUE, "operator", FALSE) \in Resources /\ resource(r.op, TRUE, "operator", TRUE) \in Resources
        BY <4>1 DEF resource, Resources
      <4>3. [r EXCEPT !.asAsked = FALSE] \in Resources
        BY <4>1 DEF Resources
      <4> QED
        BY <4>2, <4>3
    <3> QED
      BY <1>5, <3>1, <3>2 DEF OperatorChanges, Types
  <2> QED
    BY <2>1, <2>2, <2>3 DEF Types
<1> QED
  BY <1>2, <1>3, <1>4, <1>5 DEF Next

-----------------------------------------------------------------------------
(* The journals of the processes and the file.                              *)

(* Who may write works from what the file holds.                           *)
LEMMA WritesAreNext ==
    ASSUME NEW q \in Process, NEW f, f # None => SoundJournal(f), SoundProcess(q, f),
           q.pc = "write", Fits(q.draft, f)
    PROVE  /\ SoundJournal(q.draft) /\ q.draft \in Journals(Runs) /\ q.draft # None
           /\ q.journal = f /\ (f # None => Follows(f, q.draft))
<1>1. SoundJournal(q.draft) /\ Holds(q, f) /\ Drafts(q)
  BY DEF SoundProcess, Drafts
<1>2. q.draft \in Journals(Runs) /\ q.draft # None
  BY <1>1, NoneFacts DEF SoundJournal
<1>3. CASE q.journal = None
  <2>1. q.draft.revision = 1
    BY <1>1, <1>3 DEF Drafts
  <2>2. f = None
    <3> SUFFICES ASSUME f # None PROVE FALSE
      OBVIOUS
    <3>1. f.revision \in Nat /\ f.revision >= 1
      BY JournalFields DEF SoundJournal
    <3> QED
      BY <2>1, <3>1 DEF Fits
  <2> QED
    BY <1>1, <1>2, <1>3, <2>2
<1>4. CASE q.journal # None
  <2>1. /\ f # None /\ Follows(q.journal, q.draft) /\ Ancestor(q.journal, f)
        /\ q.journal \in Journals(Runs) /\ SoundJournal(f)
    BY <1>1, <1>4 DEF Drafts, Holds, SoundJournal
  <2>2. q.journal.revision \in Nat /\ f.revision \in Nat
    BY <2>1, JournalFields DEF SoundJournal
  <2>3. f.revision + 1 = q.journal.revision + 1
    BY <2>1 DEF Fits, Follows
  <2>4. q.journal = f
    BY <2>1, <2>2, <2>3 DEF Ancestor
  <2> QED
    BY <1>1, <1>2, <2>1, <2>4
<1> QED
  BY <1>3, <1>4

(* A process is sound whatever others have written since.                  *)
LEMMA SoundLater ==
    ASSUME NEW q \in Process, NEW f, NEW d \in Journals(Runs), f # None => SoundJournal(f),
           f # None => Follows(f, d), SoundProcess(q, f), d # None
    PROVE  SoundProcess(q, d)
<1>1. ASSUME NEW j \in Journals(Runs), f # None, Ancestor(j, f) PROVE Ancestor(j, d)
  BY <1>1, AncestorOfNext DEF SoundJournal
<1>2. Holds(q, f) => Holds(q, d)
  BY <1>1 DEF Holds, SoundJournal
<1>3. Written(q, f) => Written(q, d)
  BY <1>1 DEF Written, SoundJournal
<1> QED
  BY <1>2, <1>3 DEF SoundProcess

(* What a process keeps through a step at work.                            *)
LEMMA SoundAtWork ==
    ASSUME Types, World, Processes, NEW p \in Procs, NEW n \in Process, Adapting(proc[p], n)
    PROVE  SoundProcess(n, file)
<1> DEFINE q == proc[p]
<1>1. SoundProcess(q, file) /\ q.pc \in {"reconcile", "clean"} /\ q.pc # "off"
  BY DEF Processes, Adapting
<1>2. Configured(q) /\ Holds(q, file)
  BY <1>1 DEF SoundProcess
<1>3. SameRun(q, n)
  BY DEF Adapting, ReconcileStep, CleanStep
<1>4. n.pc \in {"reconcile", "clean", "settled"}
  BY DEF Adapting, ReconcileStep, CleanStep
<1> HIDE DEF q
<1>5. Configured(n) /\ Holds(n, file)
  BY <1>2, <1>3 DEF Configured, Holds, SameRun
<1>6. Drafts(n) /\ Written(n, file)
  BY <1>4 DEF Drafts, Written
<1>7. Working(n)
  <2>1. CASE q.pc = "reconcile"
    <3>1. Reconciler(p) /\ q.journal # None /\ q.then = None /\ q.at \in Ops
      BY <2>1, AtReconcile DEF q, Reconciler
    <3>2. ReconcileStep(q, n) /\ n.then = None /\ n.journal # None /\ n.journal = q.journal
          /\ n.pc \in {"reconcile", "settled"} /\ n.at = q.at /\ n.config = q.config /\ n.work.op = q.work.op
      BY <1>3, <2>1, <3>1 DEF Adapting, ReconcileStep, SameRun, q
    <3>3. CASE n.pc = "reconcile"
      <4>1. Reconciling(n.journal, n)
        BY <3>2, <3>3 DEF ReconcileStep
      <4> QED
        BY <3>2, <3>3, <4>1 DEF Working, Ready, Steps
    <3>4. CASE n.pc = "settled"
      <4>1. SoundResult(n.result, n.at, n.config)
        BY <3>2, <3>4 DEF ReconcileStep
      <4>2. Reconciling(n.journal, n)
        BY <3>2 DEF ReconcileStep
      <4> QED
        BY <3>2, <3>4, <4>1, <4>2, NoneFacts DEF Working, Steps, SoundResult
    <3> QED
      BY <3>2, <3>3, <3>4
  <2>2. CASE q.pc = "clean"
    <3>1. q.journal # None /\ q.then = "cleaning" /\ Cleaning(q.journal, q)
      BY <2>2, AtClean DEF q
    <3>2. CleanStep(q, n) /\ n.pc \in {"clean", "settled"}
      BY <2>2 DEF Adapting, CleanStep, q
    <3>3. Cleaning(n.journal, n)
      BY <1>3, <3>1 DEF Cleaning, CleanedFrom, SameRun
    <3> QED
      BY <1>3, <3>1, <3>2, <3>3, NoneFacts DEF Working, SameRun, CleanStep, Steps
  <2> QED
    BY <1>1, <2>1, <2>2 DEF q
<1> QED
  BY <1>5, <1>6, <1>7 DEF SoundProcess

(* A first journal of a run is sound.                                      *)
LEMMA FirstJournal ==
    ASSUME NEW run \in Runs
    PROVE  LET d == createSetupRunJournal(run)
           IN /\ SoundJournal(d) /\ d.invocation = run /\ d.revision = 1 /\ d.state = "running"
              /\ \A i \in Ops : d.entries[i] = Pending
<1> DEFINE d == createSetupRunJournal(run)
<1>1. /\ d.revision = 1 /\ d.invocation = run /\ d.state = "running"
      /\ \A i \in Ops : d.entries[i] = Pending
  BY DEF createSetupRunJournal
<1>2. d \in Journals(Runs)
  <2>1. Pending \in Entries
    BY DEF Pending, Entries, Phases
  <2>2. [i \in Ops |-> Pending] \in [Ops -> Entries]
    BY <2>1
  <2> QED
    BY <2>2 DEF createSetupRunJournal, Journals
<1> HIDE DEF d
<1>3. /\ Pending.phase = "pending" /\ Pending.disposition = None /\ Pending.ref = None
      /\ Pending.failureCode = None
  BY DEF Pending
<1>4. parseSetupRunJournal(d)
  BY <1>1, <1>3 DEF parseSetupRunJournal, validateEntryState
<1>5. \A i \in Ops : SoundEntry(d.entries[i], i, d.invocation)
  BY <1>1, <1>3, NoneFacts DEF SoundEntry
<1>6. InOrder(d) /\ FailedIsClean(d)
  BY <1>1, <1>3 DEF InOrder, FailedIsClean
<1> QED
  BY <1>1, <1>2, <1>4, <1>5, <1>6 DEF SoundJournal, d

(* How the file changes in a step of a process.                            *)
LEMMA FileChange ==
    ASSUME Types, SoundFile, Processes, NEW p \in Procs, NEW n \in Process, Kind(proc[p], n)
    PROVE  \/ file' = file
           \/ /\ Writing(proc[p], n) /\ proc[p].journal = file
              /\ file' \in Journals(Runs) /\ file' # None /\ SoundJournal(file')
              /\ file # None => Follows(file, file')
<1>1. CASE Writing(proc[p], n)
  <2>1. proc[p] \in Process /\ SoundProcess(proc[p], file)
    BY DEF Types, Processes
  <2> QED
    BY <1>1, <2>1, WritesAreNext DEF Writing, SoundFile
<1>2. CASE ~Writing(proc[p], n)
  BY <1>2 DEF Kind, Stopping, Adapting, Executing, Locking, Conflicting, Unlocking, Beginning, Resuming,
              Starting, Stays
<1> QED
  BY <1>1, <1>2

(* What the process itself is after its step.                              *)
LEMMA SoundAfterStep ==
    ASSUME Types, SoundFile, Processes, World, NEW p \in Procs, NEW n \in Process, Kind(proc[p], n)
    PROVE  SoundProcess(n, file')
<1> DEFINE q == proc[p]
<1>1. q \in Process /\ SoundProcess(q, file)
  BY DEF Types, Processes
<1> HIDE DEF q
<1>2. CASE Stopping(q, n)
  BY <1>2 DEF Stopping, SoundProcess
<1>3. CASE Adapting(q, n)
  BY <1>3, SoundAtWork DEF q, Adapting
<1>4. CASE Executing(q, n) /\ Drafting(q, n)
  <2>1. Configured(q) /\ Holds(q, file)
    BY <1>1, <1>4 DEF Executing, SoundProcess
  <2>2. Configured(n) /\ Holds(n, file)
    BY <1>4, <2>1 DEF Drafting, Continues, Configured, Holds
  <2>3. Drafts(n)
    BY <1>4, <2>1 DEF Drafting, Continues, Drafts, Holds, Follows
  <2>4. Written(n, file) /\ Working(n)
    BY <1>4 DEF Drafting, Written, Working, Steps
  <2> QED
    BY <1>4, <2>2, <2>3, <2>4 DEF SoundProcess, Executing, Stays
<1>5. CASE Executing(q, n) /\ Turning(q, n)
  <2>1. Configured(q) /\ Holds(q, file)
    BY <1>1, <1>5 DEF Executing, SoundProcess
  <2>2. Configured(n) /\ Holds(n, file)
    BY <1>5, <2>1 DEF Turning, Continues, Configured, Holds
  <2>3. Drafts(n) /\ Written(n, file) /\ Working(n)
    BY <1>5 DEF Turning, Drafts, Written
  <2> QED
    BY <1>5, <2>2, <2>3 DEF SoundProcess, Executing, Stays
<1>6. CASE Locking(q, n)
  <2>1. Configured(q) /\ Holds(q, file) /\ Drafts(q)
    BY <1>1, <1>6 DEF Locking, SoundProcess
  <2>2. Configured(n) /\ Holds(n, file)
    BY <1>6, <2>1 DEF Locking, Keeps, Configured, Holds
  <2>3. \A step, d : Ready(step, d, q) => Ready(step, d, n)
    BY <1>6 DEF Locking, Keeps, Ready, Reconciling, CleanedFrom
  <2>4. Drafts(n)
    BY <1>6, <2>1, <2>3 DEF Locking, Keeps, Drafts
  <2>5. Written(n, file) /\ Working(n)
    BY <1>6 DEF Locking, Written, Working, Steps
  <2> QED
    BY <1>6, <2>2, <2>4, <2>5 DEF SoundProcess, Locking, Stays
<1>7. CASE Writing(q, n)
  <2>1. Configured(q) /\ Holds(q, file) /\ Drafts(q) /\ q.pc = "write" /\ file' = q.draft
    BY <1>1, <1>7 DEF Writing, SoundProcess
  <2>2. /\ SoundJournal(q.draft) /\ q.draft \in Journals(Runs) /\ q.draft # None /\ q.journal = file
        /\ file # None => Follows(file, q.draft)
    BY <1>1, <1>7, WritesAreNext DEF Writing, SoundFile
  <2>3. SoundProcess(q, q.draft)
    BY <1>1, <2>2, SoundLater DEF SoundFile
  <2>4. Holds(q, q.draft)
    BY <2>1, <2>3 DEF SoundProcess
  <2>5. Configured(n) /\ Holds(n, q.draft)
    BY <1>7, <2>1, <2>4 DEF Writing, Keeps, Configured, Holds
  <2>6. \A step, d : Ready(step, d, q) => Ready(step, d, n)
    BY <1>7 DEF Writing, Keeps, Ready, Reconciling, CleanedFrom
  <2>7. Ancestor(q.draft, q.draft)
    BY <2>2, AncestorOfItself
  <2>8. Written(n, q.draft)
    BY <1>7, <2>1, <2>2, <2>6, <2>7 DEF Writing, Keeps, Written, Drafts
  <2>9. Drafts(n) /\ Working(n)
    BY <1>7 DEF Writing, Drafts, Working, Steps
  <2> QED
    BY <2>1, <2>5, <2>8, <2>9 DEF SoundProcess
<1>8. CASE Conflicting(q, n)
  <2>1. Configured(q) /\ Holds(q, file)
    BY <1>1, <1>8 DEF Conflicting, SoundProcess
  <2>2. Configured(n) /\ Holds(n, file)
    BY <1>8, <2>1 DEF Conflicting, Keeps, Configured, Holds
  <2>3. Drafts(n) /\ Written(n, file) /\ Working(n)
    BY <1>8 DEF Conflicting, Drafts, Written, Working, Steps
  <2> QED
    BY <1>8, <2>2, <2>3 DEF SoundProcess, Conflicting, Stays
<1>9. CASE Unlocking(q, n)
  <2>1. Configured(q) /\ Written(q, file)
    BY <1>1, <1>9 DEF Unlocking, SoundProcess
  <2>2. /\ SoundJournal(q.draft) /\ q.draft.invocation = q.invocation /\ file # None
        /\ Ancestor(q.draft, file) /\ q.then \in Steps /\ Ready(q.then, q.draft, q)
    BY <1>9, <2>1 DEF Unlocking, Written
  <2>3. q.draft # None
    BY <2>2, NoneFacts DEF SoundJournal
  <2>4. Configured(n) /\ Holds(n, file)
    BY <1>9, <2>1, <2>2 DEF Unlocking, Configured, Holds
  <2>5. Ready(n.pc, n.journal, n)
    BY <1>9, <2>2 DEF Unlocking, Ready, Reconciling, CleanedFrom
  <2>6. Drafts(n) /\ Written(n, file) /\ Working(n)
    BY <1>9, <2>2, <2>3, <2>5 DEF Unlocking, Drafts, Written, Working, Steps
  <2> QED
    BY <1>9, <2>4, <2>6 DEF SoundProcess, Unlocking, Stays
<1>10. CASE Beginning(q, n)
  <2>1. Configured(q) /\ q.journal = None
    BY <1>1, <1>10 DEF Beginning, SoundProcess, Working
  <2>2. q.invocation \in Runs
    BY <2>1 DEF Configured, Runs
  <2>3. /\ SoundJournal(n.draft) /\ n.draft.invocation = q.invocation /\ n.draft.revision = 1
        /\ n.draft.state = "running" /\ \A i \in Ops : n.draft.entries[i] = Pending
    BY <1>10, <2>2, FirstJournal DEF Beginning
  <2>4. Configured(n) /\ Holds(n, file')
    BY <1>10, <2>1 DEF Beginning, Configured, Holds
  <2>5. Drafts(n)
    BY <1>10, <2>1, <2>3 DEF Beginning, Drafts, Ready, Steps
  <2>6. Written(n, file') /\ Working(n)
    BY <1>10 DEF Beginning, Written, Working, Steps
  <2> QED
    BY <2>4, <2>5, <2>6 DEF SoundProcess
<1>11. CASE Resuming(q, n)
  <2>1. Configured(q) /\ SoundJournal(file) /\ file \in Journals(Runs) /\ file # None
    BY <1>1, <1>11 DEF Resuming, SoundProcess, SoundFile, Types
  <2>2. Ancestor(file, file)
    BY <2>1, AncestorOfItself
  <2>3. Configured(n) /\ Holds(n, file)
    BY <1>11, <2>1, <2>2 DEF Resuming, Configured, Holds
  <2>4. CleanedFrom(file, n)
    BY <1>11, PlanFacts DEF Resuming, CleanedFrom
  <2>5. Drafts(n) /\ Written(n, file) /\ Working(n)
    BY <1>11, <2>1, <2>4 DEF Resuming, Drafts, Written, Working, Steps, Ready
  <2> QED
    BY <1>11, <2>3, <2>5 DEF SoundProcess, Resuming, Stays
<1>12. CASE Starting(q, n)
  BY <1>12 DEF Starting, SoundProcess, Holds, Drafts, Written, Working, Steps
<1> QED
  BY <1>2, <1>3, <1>4, <1>5, <1>6, <1>7, <1>8, <1>9, <1>10, <1>11, <1>12 DEF Kind, Executing, q

LEMMA ProcessesStep ==
    ASSUME Types, SoundFile, Processes, World, NEW p \in Procs, NEW n \in Process,
           proc' = [proc EXCEPT ![p] = n], Kind(proc[p], n)
    PROVE  SoundFile' /\ Processes'
<1>1. SoundFile'
  BY FileChange DEF SoundFile
<1>2. ASSUME NEW o \in Procs PROVE SoundProcess(proc'[o], file')
  <2>1. CASE o = p
    BY <2>1, SoundAfterStep DEF Types
  <2>2. CASE o # p
    <3>1. proc'[o] = proc[o] /\ proc[o] \in Process /\ SoundProcess(proc[o], file)
      BY <2>2 DEF Types, Processes
    <3>2. CASE file' = file
      BY <3>1, <3>2
    <3>3. CASE file' # file
      <4>1. /\ file' \in Journals(Runs) /\ file' # None /\ (file # None => Follows(file, file'))
        BY <3>3, FileChange
      <4> QED
        BY <3>1, <4>1, SoundLater DEF SoundFile
    <3> QED
      BY <3>2, <3>3
  <2> QED
    BY <2>1, <2>2
<1> QED
  BY <1>1, <1>2 DEF Processes

-----------------------------------------------------------------------------
(* The account, and what was deleted from it.                               *)

LEMMA WorldStep ==
    ASSUME Types, SoundFile, Processes, World, NEW p \in Procs, NEW n \in Process, Kind(proc[p], n)
    PROVE  World'
<1> DEFINE q == proc[p]
           i == proc[p].at
<1>1. CASE Adapting(q, n)
  <2>1. /\ i \in Ops /\ file' = file /\ SoundProcess(q, file) /\ q.pc \in {"reconcile", "clean"}
    BY <1>1 DEF Adapting, Processes
  <2>2. q.journal # None
    BY <2>1 DEF SoundProcess, Working, Steps
  <2>3. /\ SoundJournal(q.journal) /\ file # None /\ Ancestor(q.journal, file) /\ Grows(q.journal, file)
    BY <2>1, <2>2 DEF SoundProcess, Holds, Ancestor
  <2>4. CASE q.pc = "reconcile"
    <3>1. ReconcileStep(q, n) /\ q.journal.entries[i].phase = "in-progress"
      BY <1>1, <2>4, AtReconcile DEF Adapting, Reconciler, Reconciling
    <3>2. file.entries[i].phase # "pending"
      BY <2>1, <2>3, <3>1 DEF Grows
    <3>3. Mine(i).op = i /\ Mine(i).derived /\ Mine(i).maker = "setup"
      BY <2>1, MineIsAResource
    <3>4. /\ deleted' = deleted
          /\ \A r \in account' : r \in account \/ (r = Mine(i) /\ Plan[i].kind \in {"d1", "r2", "worker"})
      BY <3>1 DEF ReconcileStep, Untouched, MakesBucket, Deploys, Migrates, MakesDatabase
    <3>5. SoundAccount(account', file)
      BY <2>3, <3>2, <3>3, <3>4 DEF World, SoundAccount
    <3> QED
      BY <2>1, <3>4, <3>5 DEF World
  <2>5. CASE q.pc = "clean"
    <3>1. CleanStep(q, n) /\ q.journal.entries[i].disposition = "created"
      BY <1>1, <2>5, AtClean DEF Adapting
    <3>2. file.entries[i].disposition = "created" /\ file.entries[i].ref = q.journal.entries[i].ref
      BY <2>1, <2>3, <3>1 DEF Grows
    <3>3. account' \subseteq account
      BY <3>1 DEF CleanStep, Untouched, Removes
    <3>4. \A r \in deleted' :
             \/ r \in deleted
             \/ /\ r.op = i /\ r.derived /\ resourceRef(r) = q.journal.entries[i].ref
                /\ Plan[i].kind \in {"d1", "r2"}
      BY <3>1 DEF CleanStep, Untouched, Removes
    <3>5. SoundAccount(account', file)
      BY <3>3 DEF World, SoundAccount
    <3>6. SoundDeleted(deleted', file)
      BY <2>3, <3>2, <3>4 DEF World, SoundDeleted
    <3> QED
      BY <2>1, <3>5, <3>6 DEF World
  <2> QED
    BY <2>1, <2>4, <2>5
<1>2. CASE ~Adapting(q, n)
  <2>1. account' = account /\ deleted' = deleted
    BY <1>2 DEF Kind, Stopping, Executing, Locking, Writing, Conflicting, Unlocking, Beginning, Resuming,
                Starting, Stays
  <2>2. file # None => file' # None /\ Grows(file, file')
    <3>1. file # None => Grows(file, file)
      BY AncestorOfItself DEF Types
    <3> QED
      BY <3>1, FileChange DEF Follows
  <2>3. ASSUME NEW r \in account
        PROVE  /\ Plan[r.op].kind \in {"d1", "r2", "worker"}
               /\ Plan[r.op].kind = "worker" /\ r.derived /\ r.asAsked => r.maker = "setup"
               /\ r.maker = "setup" => r.derived /\ file' # None /\ file'.entries[r.op].phase # "pending"
    <3>1. r.op \in Ops
      BY DEF Types, Resources
    <3> QED
      BY <2>2, <3>1 DEF World, SoundAccount, Grows
  <2>4. ASSUME NEW r \in deleted
        PROVE  /\ r.derived /\ Plan[r.op].kind # "worker" /\ file' # None
               /\ file'.entries[r.op].disposition = "created" /\ file'.entries[r.op].ref = resourceRef(r)
    <3>1. r.op \in Ops
      BY DEF Types, Resources
    <3> QED
      BY <2>2, <3>1 DEF World, SoundDeleted, Grows
  <2> QED
    BY <2>1, <2>3, <2>4 DEF World, SoundAccount, SoundDeleted
<1> QED
  BY <1>1, <1>2

LEMMA WorldOfOperator ==
    ASSUME Types, World, OperatorChanges
    PROVE  World'
<1>1. file' = file /\ deleted' = deleted
  BY DEF OperatorChanges, disk
<1>2. SoundAccount(account', file)
  <2>1. CASE account' \subseteq account
    BY <2>1 DEF World, SoundAccount
  <2>2. CASE \E r \in account :
               /\ r.derived /\ r.maker = "setup"
               /\ \E new \in {resource(r.op, TRUE, "operator", FALSE),
                              resource(r.op, TRUE, "operator", TRUE), [r EXCEPT !.asAsked = FALSE]} :
                      /\ Plan[r.op].kind = "worker" => ~new.asAsked
                      /\ account' = (account \ {r}) \cup {new}
    <3>0. PICK r \in account :
             /\ r.derived /\ r.maker = "setup"
             /\ \E new \in {resource(r.op, TRUE, "operator", FALSE),
                            resource(r.op, TRUE, "operator", TRUE), [r EXCEPT !.asAsked = FALSE]} :
                    /\ Plan[r.op].kind = "worker" => ~new.asAsked
                    /\ account' = (account \ {r}) \cup {new}
      BY <2>2
    <3>1. PICK new \in {resource(r.op, TRUE, "operator", FALSE),
                         resource(r.op, TRUE, "operator", TRUE), [r EXCEPT !.asAsked = FALSE]} :
             /\ Plan[r.op].kind = "worker" => ~new.asAsked
             /\ account' = (account \ {r}) \cup {new}
      BY <3>0
    <3>2. new.op = r.op /\ new.derived /\ new.maker \in {"operator", "setup"}
      BY <3>0 DEF resource, Types, Resources
    <3>3. /\ Plan[r.op].kind \in {"d1", "r2", "worker"} /\ file # None
          /\ file.entries[r.op].phase # "pending"
      BY <3>0 DEF World, SoundAccount
    <3> QED
      BY <3>1, <3>2, <3>3 DEF World, SoundAccount
  <2> QED
    BY <2>1, <2>2 DEF OperatorChanges
<1> QED
  BY <1>1, <1>2 DEF World

-----------------------------------------------------------------------------
(* What is complete is built.                                               *)

LEMMA BuiltLess ==
    ASSUME NEW j, NEW d, NEW a, NEW m, Built(j, a, m),
           \A i \in Ops : d.entries[i].phase = "completed" => d.entries[i] = j.entries[i]
    PROVE  Built(d, a, m)
  BY DEF Built, Creating

(* An answer is recorded: no migration was applied before its database was *)
(* there.                                                                  *)
LEMMA BuiltAnswer ==
    ASSUME NEW j, SoundJournal(j), NEW a, NEW m, Built(j, a, m), NEW i \in Ops,
           j.entries[i].phase = "in-progress", NEW result, NEW approved,
           validateReconcileResult(i, result, approved), TrueResult(result, i, a, m),
           NEW d, d.entries = [j.entries EXCEPT ![i] = Answer(result)]
    PROVE  Built(d, a, m)
<1>1. j.entries \in [Ops -> Entries]
  BY JournalFields DEF SoundJournal
<1>2. d.entries[i] = Answer(result) /\ \A k \in Ops : k # i => d.entries[k] = j.entries[k]
  BY <1>1
<1>3. Answer(result).ref = result.ref
  BY DEF Answer
<1>4. ASSUME NEW k \in Ops, Creates(k), d.entries[k].phase = "completed"
      PROVE  \E r \in a : resourceRef(r) = d.entries[k].ref
  <2>1. CASE k = i
    BY <1>2, <1>3, <1>4, <2>1 DEF validateReconcileResult, TrueResult
  <2>2. CASE k # i
    BY <1>2, <1>4, <2>2 DEF Built
  <2> QED
    BY <2>1, <2>2
<1>5. ASSUME NEW k \in Ops, Plan[k].action = "apply", d.entries[k].phase = "completed",
             \A l \in Creating("d1") : d.entries[l].phase = "completed"
      PROVE  m = Migrations
  <2>1. CASE k = i
    BY <1>5, <2>1, PlanFacts DEF validateReconcileResult, TrueResult
  <2>2. CASE k # i
    <3>1. j.entries[k].phase = "completed"
      BY <1>2, <1>5, <2>2
    <3>2. ASSUME NEW l \in Creating("d1") PROVE j.entries[l].phase = "completed"
      <4>1. l \in Ops /\ l < k
        BY <1>5, PlanFacts DEF Creating
      <4>2. j.entries[l].phase # "in-progress"
        BY <3>1, <4>1 DEF SoundJournal, InOrder
      <4>3. l # i
        BY <4>2
      <4> QED
        BY <1>2, <1>5, <4>1, <4>3
    <3> QED
      BY <1>5, <3>1, <3>2 DEF Built
  <2> QED
    BY <2>1, <2>2
<1> QED
  BY <1>4, <1>5 DEF Built

(* What the next journal after f may say.                                  *)
MayFollow(f, j) ==
    /\ j.invocation = f.invocation /\ Grows(f, j)
    /\ \A i \in Ops : SoundEntry(j.entries[i], i, j.invocation)

(* A process at work does not take away what such a journal says is built: *)
(* it cleans up only what the file knows to be in cleanup, makes a         *)
(* database only where there is none, and deploys over its own Worker.     *)
LEMMA BuiltStays ==
    ASSUME Types, SoundFile, Processes, World, NEW p \in Procs, NEW n \in Process, Adapting(proc[p], n),
           NEW j, MayFollow(file, j), Built(j, account, applied)
    PROVE  Built(j, account', applied')
<1> DEFINE q == proc[p]
           i == proc[p].at
<1>1. /\ i \in Ops /\ SoundProcess(q, file) /\ q.pc \in {"reconcile", "clean"}
  BY DEF Adapting, Processes
<1>2. q.journal # None /\ Configured(q)
  BY <1>1 DEF SoundProcess, Working, Steps
<1>3. /\ file # None /\ Ancestor(q.journal, file) /\ Grows(q.journal, file)
      /\ q.journal.invocation = q.invocation /\ file.invocation = q.invocation
  BY <1>1, <1>2 DEF SoundProcess, Holds, Ancestor
<1>4. ASSUME NEW k \in Ops, Creates(k), j.entries[k].phase = "completed", NEW r \in account,
             resourceRef(r) = j.entries[k].ref
      PROVE  /\ r \in Resources /\ r.op = k /\ r.derived \in BOOLEAN
             /\ r.derived => j.entries[k].disposition = "created"
  <2>1. /\ j.entries[k].disposition \in {"created", "adopted"} /\ j.entries[k].ref \in Refs
        /\ j.entries[k].ref.op = k /\ (j.entries[k].disposition = "adopted" => ~j.entries[k].ref.derived)
    BY <1>4 DEF MayFollow, SoundEntry
  <2>2. r \in Resources /\ resourceRef(r).op = r.op /\ resourceRef(r).derived = r.derived
    BY InAccount, RefOf
  <2> QED
    BY <1>4, <2>1, <2>2 DEF Resources
<1>5. CASE Untouched \/ Migrates \/ MakesBucket(i)
  <2>1. account \subseteq account' /\ (applied = Migrations => applied' = Migrations)
    BY <1>5, AdapterBounds DEF Untouched, Migrates, MakesBucket
  <2> QED
    BY <2>1 DEF Built
<1>6. CASE Deploys(i)
  <2>1. ASSUME NEW k \in Ops, Creates(k), j.entries[k].phase = "completed"
        PROVE  \E r \in account' : resourceRef(r) = j.entries[k].ref
    <3>1. PICK r \in account : resourceRef(r) = j.entries[k].ref
      BY <2>1 DEF Built
    <3>2. CASE r \notin Targets(i)
      BY <1>6, <3>1, <3>2 DEF Deploys
    <3>3. CASE r \in Targets(i)
      <4>1. r.op = i /\ r.derived /\ k = i /\ j.entries[k].disposition = "created"
        BY <1>4, <2>1, <3>1, <3>3 DEF Targets
      <4>2. j.entries[k].ref \in Refs /\ j.entries[k].ref.op = i /\ j.entries[k].ref.derived
            /\ j.entries[k].ref.id = "setup"
        BY <1>6, <2>1, <4>1 DEF MayFollow, SoundEntry, Deploys
      <4>3. Mine(i) \in Resources /\ Mine(i).op = i /\ Mine(i).derived /\ Mine(i).maker = "setup"
        BY <1>1, MineIsAResource
      <4>4. resourceRef(Mine(i)) \in Refs /\ resourceRef(Mine(i)).op = i
            /\ resourceRef(Mine(i)).derived /\ resourceRef(Mine(i)).id = "setup"
        BY <1>6, <4>3, RefOf DEF Deploys
      <4>5. resourceRef(Mine(i)) = j.entries[k].ref
        <5>1. j.entries[k].ref.derived = TRUE /\ resourceRef(Mine(i)).derived = TRUE
          BY <4>2, <4>4 DEF Refs
        <5> QED
          BY <4>2, <4>4, <5>1, SameRef
      <4> QED
        BY <1>6, <4>5 DEF Deploys
    <3> QED
      BY <3>2, <3>3
  <2> QED
    BY <1>6, <2>1 DEF Built, Deploys
<1>7. CASE q.pc = "reconcile" /\ q.work.call = "make" /\ MakesDatabase(i)
  <2>1. Creates(i) /\ q.config[i].mode # "adopt" /\ Plan[i].kind = "d1"
    BY <1>7, AtReconcile DEF MakesDatabase
  <2>2. i \in Creating("d1")
    BY <1>1, <2>1 DEF Creating
  <2>3. j.entries[i].phase # "completed"
    <3> SUFFICES ASSUME j.entries[i].phase = "completed" PROVE FALSE
      OBVIOUS
    <3>1. PICK r \in account : resourceRef(r) = j.entries[i].ref
      BY <1>1, <2>1 DEF Built
    <3>2. r \notin Targets(i) /\ r.op = i /\ r \in Resources
      BY <1>1, <1>4, <1>7, <2>1, <3>1 DEF MakesDatabase
    <3>3. ~r.derived /\ resourceRef(r).derived = r.derived
      BY <3>2, InAccount, RefOf DEF Targets
    <3>4. j.entries[i].disposition \in {"created", "adopted"}
          /\ (j.entries[i].disposition = "created" => j.entries[i].ref.derived)
          /\ (j.entries[i].disposition = "adopted" =>
                \A v \in Invocations : v.run = j.invocation => v.config[i].mode = "adopt")
      BY <1>1, <2>1 DEF MayFollow, SoundEntry
    <3>5. PICK v \in Invocations : q.invocation = v.run /\ q.config = v.config
      BY <1>2 DEF Configured
    <3>6. j.invocation = v.run
      BY <1>3, <3>5 DEF MayFollow
    <3> QED
      BY <2>1, <3>1, <3>3, <3>4, <3>5, <3>6
  <2>4. account \subseteq account'
    BY <1>7 DEF MakesDatabase
  <2> QED
    BY <2>2, <2>3, <2>4 DEF Built
<1>8. CASE q.pc = "clean" /\ Removes(i, q.journal.entries[i].ref)
  <2>1. q.journal.entries[i].phase \in CleanupPhases
    BY <1>8, AtClean DEF Cleaning, CleanupPhases
  <2>2. j.entries[i].phase # "completed"
    BY <1>1, <1>3, <2>1 DEF Grows, MayFollow, CleanupPhases
  <2>3. ASSUME NEW k \in Ops, Creates(k), j.entries[k].phase = "completed"
        PROVE  \E r \in account' : resourceRef(r) = j.entries[k].ref
    <3>1. PICK r \in account : resourceRef(r) = j.entries[k].ref
      BY <2>3 DEF Built
    <3>2. r.op = k /\ k # i
      BY <1>4, <2>2, <2>3, <3>1
    <3>3. r \in account'
      BY <1>8, <3>2 DEF Removes
    <3> QED
      BY <3>1, <3>3
  <2> QED
    BY <1>8, <2>3 DEF Built, Removes
<1> QED
  BY <1>1, <1>5, <1>6, <1>7, <1>8 DEF Adapting, ReconcileStep, CleanStep

(* What a process at work drafts, or will when its answer is recorded.     *)
LEMMA DraftFollows ==
    ASSUME NEW q \in Process, NEW f, SoundProcess(q, f), q.journal = f, f # None, SoundJournal(f)
    PROVE  /\ MayFollow(f, f)
           /\ q.pc \in {"lock", "write"} => MayFollow(f, q.draft)
           /\ /\ q.pc = "settled" /\ q.then = None
              /\ validateReconcileResult(q.at, q.result, q.journal.invocation.approved)
              => MayFollow(f, Recorded(q))
<1>1. f \in Journals(Runs) /\ \A i \in Ops : SoundEntry(f.entries[i], i, f.invocation)
  BY DEF SoundJournal
<1>2. MayFollow(f, f)
  BY <1>1, AncestorOfItself DEF MayFollow
<1>3. ASSUME q.pc \in {"lock", "write"} PROVE MayFollow(f, q.draft)
  <2>1. SoundJournal(q.draft) /\ Follows(f, q.draft)
    BY <1>3 DEF SoundProcess, Drafts
  <2> QED
    BY <2>1 DEF Follows, SoundJournal, MayFollow
<1>4. ASSUME q.pc = "settled", q.then = None,
             validateReconcileResult(q.at, q.result, q.journal.invocation.approved)
      PROVE  MayFollow(f, Recorded(q))
  <2> DEFINE i == q.at
             result == q.result
             d == Recorded(q)
  <2>1. /\ Configured(q) /\ Reconciling(f, q) /\ SoundResult(result, i, q.config)
        /\ f.invocation = q.invocation
    BY <1>4 DEF SoundProcess, Working, Holds
  <2>2. i \in Ops /\ f.entries[i].phase = "in-progress"
    BY <2>1 DEF Reconciling
  <2>3. f.entries[i].disposition = None
    BY <2>2, SoundJournalEntry
  <2>4. /\ d.invocation = f.invocation /\ d.entries[i] = Answer(result)
        /\ \A k \in Ops : k # i => d.entries[k] = f.entries[k]
    BY <1>1, <2>2, JournalFields DEF Recorded
  <2> HIDE DEF d
  <2>5. \A v \in Invocations : v.run = f.invocation => v.config = q.config
    BY <2>1, InvocationsAssumption DEF Configured
  <2>6. SoundEntry(Answer(result), i, f.invocation)
    BY <1>4, <2>1, <2>5, NoneFacts DEF SoundEntry, Answer, SoundResult, validateReconcileResult
  <2>7. Grows(f, d)
    <3>1. Answer(result).phase = "completed"
      BY DEF Answer
    <3> QED
      BY <2>2, <2>3, <2>4, <3>1, NoneFacts DEF Grows, CleanupPhases
  <2>8. \A k \in Ops : SoundEntry(d.entries[k], k, d.invocation)
    BY <1>1, <2>4, <2>6
  <2> QED
    BY <2>4, <2>7, <2>8 DEF MayFollow, d
<1> QED
  BY <1>2, <1>3, <1>4

LEMMA BuiltStep ==
    ASSUME Types, SoundFile, Processes, World, AllBuilt, NEW p \in Procs, NEW n \in Process,
           proc' = [proc EXCEPT ![p] = n], Kind(proc[p], n), changes' = changes
    PROVE  AllBuilt'
<1> SUFFICES ASSUME changes = 0
             PROVE  /\ file' # None => Built(file', account', applied')
                    /\ \A o \in Procs : BuiltBy(proc'[o], file', account', applied')
  BY DEF AllBuilt
<1> DEFINE q == proc[p]
<1>1. /\ file # None => SoundJournal(file) /\ Built(file, account, applied) /\ file \in Journals(Runs)
      /\ \A o \in Procs : /\ proc[o] \in Process /\ SoundProcess(proc[o], file)
                          /\ BuiltBy(proc[o], file, account, applied)
      /\ proc'[p] = n /\ \A o \in Procs : o # p => proc'[o] = proc[o]
  BY DEF AllBuilt, SoundFile, Processes, Types
<1>2. \/ Stays
      \/ Adapting(q, n) /\ file' = file /\ file # None
      \/ /\ Writing(q, n) /\ q.journal = file /\ file' = q.draft /\ q.pc = "write" /\ n.pc = "unlock"
         /\ account' = account /\ applied' = applied
         /\ file' \in Journals(Runs) /\ file' # None /\ (file # None => Follows(file, file'))
  <2>1. CASE Adapting(q, n)
    <3>1. SoundProcess(q, file) /\ q.pc \in {"reconcile", "clean"}
      BY <1>1, <2>1 DEF Adapting
    <3>2. file # None
      BY <3>1 DEF SoundProcess, Holds, Working, Steps
    <3> QED
      BY <2>1, <3>2 DEF Adapting
  <2>2. CASE Writing(q, n)
    <3>1. q.journal = file /\ SoundJournal(q.draft) /\ q.draft \in Journals(Runs) /\ q.draft # None
          /\ (file # None => Follows(file, q.draft))
      BY <1>1, <2>2, WritesAreNext DEF Writing
    <3> QED
      BY <2>2, <3>1 DEF Writing
  <2> QED
    BY <2>1, <2>2 DEF Kind, Stopping, Executing, Locking, Conflicting, Unlocking, Beginning, Resuming, Starting
<1>3. \A o \in Procs : file # None /\ proc[o].journal = file =>
         /\ MayFollow(file, file)
         /\ proc[o].pc \in {"lock", "write"} => MayFollow(file, proc[o].draft)
         /\ /\ proc[o].pc = "settled" /\ proc[o].then = None
            /\ validateReconcileResult(proc[o].at, proc[o].result, proc[o].journal.invocation.approved)
            => MayFollow(file, Recorded(proc[o]))
  BY <1>1, DraftFollows
<1>4. file' # None => Built(file', account', applied')
  <2>1. CASE Adapting(q, n) /\ file' = file /\ file # None
    <3>1. MayFollow(file, file)
      BY <1>1, <2>1, AncestorOfItself DEF MayFollow, SoundJournal
    <3> QED
      BY <1>1, <2>1, <3>1, BuiltStays
  <2>2. CASE /\ Writing(q, n) /\ q.journal = file /\ file' = q.draft /\ q.pc = "write"
             /\ account' = account /\ applied' = applied
    BY <1>1, <2>2 DEF BuiltBy
  <2> QED
    BY <1>1, <1>2, <2>1, <2>2 DEF Stays
<1>5. ASSUME NEW o \in Procs, o # p PROVE BuiltBy(proc[o], file', account', applied')
  <2>1. CASE Stays
    BY <1>1, <2>1 DEF Stays
  <2>2. CASE Adapting(q, n) /\ file' = file /\ file # None
    <3>1. ASSUME proc[o].journal = file, proc[o].pc \in {"lock", "write"}
          PROVE  Built(proc[o].draft, account', applied')
      BY <1>1, <1>3, <2>2, <3>1, BuiltStays DEF BuiltBy
    <3>2. ASSUME proc[o].journal = file, proc[o].pc = "settled", proc[o].then = None,
                 validateReconcileResult(proc[o].at, proc[o].result, proc[o].journal.invocation.approved)
          PROVE  Built(Recorded(proc[o]), account', applied')
      BY <1>1, <1>3, <2>2, <3>2, BuiltStays DEF BuiltBy
    <3> QED
      BY <2>2, <3>1, <3>2 DEF BuiltBy
  <2>3. CASE file' \in Journals(Runs) /\ file' # None /\ (file # None => Follows(file, file'))
    <3> SUFFICES ASSUME proc[o].pc # "off", proc[o].journal = file' PROVE FALSE
      BY DEF BuiltBy
    <3>1. /\ file # None /\ Ancestor(proc[o].journal, file) /\ SoundJournal(proc[o].journal)
      BY <1>1, <2>3 DEF SoundProcess, Holds
    <3> QED
      BY <1>1, <2>3, <3>1, AncestorOfNext DEF SoundJournal
  <2> QED
    BY <1>2, <2>1, <2>2, <2>3
<1>6. BuiltBy(n, file', account', applied')
  <2>0. SoundProcess(q, file) /\ q \in Process /\ BuiltBy(q, file, account, applied)
    BY <1>1
  <2>1. CASE Adapting(q, n)
    <3>1. q.journal # None /\ (q.pc = "clean" => q.then = "cleaning")
      BY <2>0, <2>1 DEF Adapting, SoundProcess, Working, Steps
    <3>2. file # None /\ file' = file
      BY <2>0, <2>1, <3>1 DEF SoundProcess, Holds, Adapting
    <3>3. n.pc \notin {"lock", "write"}
      BY <2>1 DEF Adapting, ReconcileStep, CleanStep
    <3>4. ASSUME n.journal = file, n.pc = "settled", n.then = None,
                 validateReconcileResult(n.at, n.result, n.journal.invocation.approved)
          PROVE  Built(Recorded(n), account', applied')
      <4>1. n.then = q.then /\ n.at = q.at
        BY <2>1 DEF Adapting, ReconcileStep, CleanStep, SameRun
      <4>2. q.pc = "reconcile" /\ ReconcileStep(q, n)
        BY <2>1, <3>1, <3>4, <4>1, NoneFacts DEF Adapting
      <4>3. n.journal = q.journal /\ Reconciling(q.journal, n) /\ TrueResult(n.result, n.at, account', applied')
        BY <3>4, <4>1, <4>2 DEF ReconcileStep, SameRun
      <4>4. n.at \in Ops /\ file.entries[n.at].phase = "in-progress"
        BY <3>4, <4>3 DEF Reconciling
      <4>5. Recorded(n).entries = [file.entries EXCEPT ![n.at] = Answer(n.result)]
        BY <1>1, <3>2, <3>4, JournalFields DEF Recorded
      <4>6. Built(file, account', applied')
        BY <1>4, <3>2
      <4>7. SoundJournal(file)
        BY <1>1, <3>2
      <4>8. ASSUME NEW a, NEW m, Built(file, a, m), TrueResult(n.result, n.at, a, m)
            PROVE  Built(Recorded(n), a, m)
        <5> DEFINE d == Recorded(n)
                   i == n.at
                   result == n.result
                   approved == n.journal.invocation.approved
        <5>1. /\ i \in Ops /\ file.entries[i].phase = "in-progress" /\ TrueResult(result, i, a, m)
              /\ validateReconcileResult(i, result, approved)
              /\ d.entries = [file.entries EXCEPT ![i] = Answer(result)]
          BY <3>4, <4>4, <4>5, <4>8
        <5> HIDE DEF d, i, result, approved
        <5>2. Built(d, a, m)
          BY <4>7, <4>8, <5>1, BuiltAnswer
        <5> QED
          BY <5>2 DEF d
      <4> QED
        BY <4>3, <4>6, <4>8
    <3> QED
      BY <3>2, <3>3, <3>4 DEF BuiltBy
  <2>2. CASE Executing(q, n) /\ Drafting(q, n)
    <3>1. Stays /\ n.pc = "lock" /\ n.journal = q.journal /\ q.journal # None
      BY <2>2 DEF Executing, Drafting, Continues
    <3>2. ASSUME q.journal = file PROVE Built(n.draft, account, applied)
      <4>1. file # None /\ Built(file, account, applied) /\ file.entries \in [Ops -> Entries] /\ file \in Journals(Runs)
        BY <1>1, <3>1, <3>2, JournalFields
      <4>2. PICK i \in Ops, e \in Entries :
               n.draft.entries = [file.entries EXCEPT ![i] = e] /\ MayRecord(q, i, e)
        BY <2>2, <3>2 DEF Drafting
      <4>3. n.draft.entries[i] = e /\ \A k \in Ops : k # i => n.draft.entries[k] = file.entries[k]
        BY <4>1, <4>2
      <4>4. CASE e.phase = "completed" => e = file.entries[i]
        <5>1. \A k \in Ops : n.draft.entries[k].phase = "completed" => n.draft.entries[k] = file.entries[k]
          BY <4>3, <4>4
        <5> QED
          BY <4>1, <5>1, BuiltLess
      <4>5. CASE /\ q.pc = "settled" /\ q.then = None /\ i = q.at
                 /\ validateReconcileResult(i, q.result, q.journal.invocation.approved)
                 /\ e = Answer(q.result)
        <5>1. Built(Recorded(q), account, applied)
          BY <2>0, <3>2, <4>5 DEF BuiltBy
        <5>2. Recorded(q).entries = n.draft.entries
          BY <3>2, <4>1, <4>2, <4>5, JournalFields DEF Recorded
        <5> QED
          BY <5>1, <5>2, BuiltLess
      <4> QED
        BY <3>2, <4>2, <4>4, <4>5 DEF MayRecord
    <3> QED
      BY <3>1, <3>2 DEF BuiltBy, Stays
  <2>3. CASE Executing(q, n) /\ Turning(q, n)
    BY <2>3 DEF Turning, BuiltBy
  <2>4. CASE Locking(q, n)
    BY <2>0, <2>4 DEF Locking, Keeps, Stays, BuiltBy
  <2>5. CASE Beginning(q, n)
    <3>1. \A i \in Ops : n.draft.entries[i].phase = "pending"
      BY <2>5 DEF Beginning, createSetupRunJournal, Pending
    <3>2. Built(n.draft, account', applied')
      BY <3>1 DEF Built
    <3> QED
      BY <2>5, <3>2 DEF Beginning, BuiltBy
  <2>6. CASE Unlocking(q, n)
    <3>1. n.pc \in Steps
      BY <2>0, <2>6 DEF Unlocking, SoundProcess, Written
    <3> QED
      BY <3>1 DEF BuiltBy, Steps
  <2>7. CASE Stopping(q, n) \/ Writing(q, n) \/ Conflicting(q, n) \/ Resuming(q, n) \/ Starting(q, n)
    BY <2>7 DEF Stopping, Writing, Conflicting, Resuming, Starting, BuiltBy
  <2> QED
    BY <2>1, <2>2, <2>3, <2>4, <2>5, <2>6, <2>7 DEF Kind, Executing
<1> QED
  BY <1>1, <1>4, <1>5, <1>6

-----------------------------------------------------------------------------
(* A process that is alone.                                                 *)

(* What was cleaned up is not made again by a process that works from the  *)
(* file: it makes what is in progress there.                               *)
LEMMA GoneStays ==
    ASSUME Types, SoundFile, Processes, NEW p \in Procs, NEW n \in Process, Adapting(proc[p], n),
           file # None, proc[p].journal = file, Gone(file, account)
    PROVE  Gone(file, account')
<1> DEFINE q == proc[p]
           k == proc[p].at
<1>1. k \in Ops /\ SoundProcess(q, file) /\ SoundJournal(file)
  BY DEF Adapting, Processes, SoundFile
<1>2. CASE Untouched \/ Migrates \/ Removes(k, q.journal.entries[k].ref)
  BY <1>2 DEF Untouched, Migrates, Removes, Gone, Absent
<1>3. CASE q.pc = "reconcile" /\ (MakesBucket(k) \/ Deploys(k) \/ MakesDatabase(k))
  <2>1. file.entries[k].phase = "in-progress"
    BY <1>1, <1>3 DEF SoundProcess, Working, Ready, Reconciling, Steps
  <2>2. Plan[k].kind \in {"d1", "r2", "worker"} /\ account' \subseteq account \cup {Mine(k)}
    BY <1>3 DEF MakesBucket, Deploys, MakesDatabase
  <2>3. resourceRef(Mine(k)).op = k
    BY <1>1, <2>2, MineIsAResource, RefOf
  <2>4. ASSUME NEW i \in Ops, file.entries[i].phase = "cleaned" PROVE Absent(file.entries[i].ref, account')
    <3>1. file.entries[i].disposition = "created"
      BY <1>1, <2>4, SoundJournalEntry DEF CleanupPhases
    <3>2. file.entries[i].ref.op = i
      BY <1>1, <3>1 DEF SoundJournal, SoundEntry
    <3>3. i # k
      BY <2>1, <2>4
    <3> QED
      BY <2>2, <2>3, <2>4, <3>2, <3>3 DEF Gone, Absent
  <2> QED
    BY <2>4 DEF Gone
<1> QED
  BY <1>2, <1>3 DEF Adapting, ReconcileStep, CleanStep

(* Its journal is the file, and so is its draft once it is written.        *)
LEMMA UpToDateAfterStep ==
    ASSUME Types, SoundFile, Processes, NEW p \in Procs, NEW n \in Process, Kind(proc[p], n),
           UpToDate(proc[p], file)
    PROVE  UpToDate(n, file')
<1> DEFINE q == proc[p]
<1>1. q \in Process /\ SoundProcess(q, file) /\ UpToDate(q, file)
  BY DEF Types, Processes
<1> HIDE DEF q
<1>2. CASE Stopping(q, n) \/ Starting(q, n)
  BY <1>2 DEF Stopping, Starting, UpToDate
<1>3. CASE Adapting(q, n)
  BY <1>1, <1>3 DEF Adapting, ReconcileStep, CleanStep, SameRun, UpToDate
<1>4. CASE Executing(q, n)
  BY <1>1, <1>4 DEF Executing, Drafting, Turning, Continues, Stays, UpToDate
<1>5. CASE Locking(q, n)
  BY <1>1, <1>5 DEF Locking, Keeps, Stays, UpToDate
<1>6. CASE Writing(q, n)
  BY <1>1, <1>6 DEF Writing, Keeps, UpToDate, SoundProcess, Drafts, Steps
<1>7. CASE Conflicting(q, n)
  <2>1. q.journal = file /\ Drafts(q)
    BY <1>1, <1>7 DEF Conflicting, UpToDate, SoundProcess
  <2>2. Fits(q.draft, file)
    BY <1>7, <2>1 DEF Conflicting, Drafts, Fits, Follows
  <2> QED
    BY <1>7, <2>2 DEF Conflicting
<1>8. CASE Unlocking(q, n)
  <2>1. q.then \in Steps
    BY <1>1, <1>8 DEF Unlocking, SoundProcess, Written
  <2> QED
    BY <1>1, <1>8, <2>1 DEF Unlocking, Stays, UpToDate, Steps
<1>9. CASE Beginning(q, n)
  BY <1>1, <1>9 DEF Beginning, Stays, UpToDate, SoundProcess, Working
<1>10. CASE Resuming(q, n)
  BY <1>10 DEF Resuming, Stays, UpToDate
<1> QED
  BY <1>2, <1>3, <1>4, <1>5, <1>6, <1>7, <1>8, <1>9, <1>10 DEF Kind, q

(* And what it writes to be cleaned up is gone.                            *)
LEMMA GoneAfterStep ==
    ASSUME Types, SoundFile, Processes, NEW p \in Procs, NEW n \in Process, Kind(proc[p], n),
           UpToDate(proc[p], file), file # None => Gone(file, account), GoneBy(proc[p], account)
    PROVE  (file' # None => Gone(file', account')) /\ GoneBy(n, account')
<1> DEFINE q == proc[p]
<1>1. /\ q \in Process /\ SoundProcess(q, file) /\ UpToDate(q, file) /\ GoneBy(q, account)
      /\ file # None => file \in Journals(Runs)
  BY DEF Types, Processes
<1>2. CASE Stopping(q, n) \/ Conflicting(q, n) \/ Resuming(q, n) \/ Starting(q, n)
  BY <1>2 DEF Stopping, Conflicting, Resuming, Starting, Stays, GoneBy
<1>3. CASE Adapting(q, n)
  <2>1. q.pc \in {"reconcile", "clean"} /\ file' = file
    BY <1>3 DEF Adapting
  <2>2. q.journal = file /\ q.journal # None /\ (q.pc = "reconcile" => q.then = None)
    BY <1>1, <2>1 DEF UpToDate, SoundProcess, Working, Steps
  <2>3. Gone(file, account')
    BY <1>3, <2>2, GoneStays
  <2>4. n.journal = q.journal /\ n.at = q.at /\ n.then = q.then /\ n.pc \notin {"lock", "write"}
    BY <1>3 DEF Adapting, ReconcileStep, CleanStep, SameRun
  <2>5. ASSUME n.pc = "settled", n.then = "cleaning", n.result.disposition # "rejected"
        PROVE  Absent(n.journal.entries[n.at].ref, account')
    <3>1. CleanStep(q, n)
      BY <1>3, <2>2, <2>4, <2>5, NoneFacts DEF Adapting
    <3> QED
      BY <2>4, <2>5, <3>1 DEF CleanStep
  <2> QED
    BY <2>1, <2>3, <2>4, <2>5 DEF GoneBy
<1>4. CASE Executing(q, n) /\ Drafting(q, n)
  <2>1. /\ Stays /\ n.pc = "lock" /\ q.journal # None /\ q.journal = file
    BY <1>1, <1>4 DEF Executing, Drafting, UpToDate
  <2>2. Gone(file, account) /\ file.entries \in [Ops -> Entries]
    BY <1>1, <2>1, JournalFields
  <2>3. PICK i \in Ops, e \in Entries :
           n.draft.entries = [file.entries EXCEPT ![i] = e] /\ MayRecord(q, i, e)
    BY <1>4, <2>1 DEF Drafting
  <2>4. n.draft.entries[i] = e /\ \A k \in Ops : k # i => n.draft.entries[k] = file.entries[k]
    BY <2>2, <2>3
  <2>5. e.phase = "cleaned" => Absent(e.ref, account)
    BY <1>1, <2>1, <2>2, <2>3 DEF MayRecord, Gone, GoneBy
  <2>6. Gone(n.draft, account)
    BY <2>2, <2>4, <2>5 DEF Gone
  <2> QED
    BY <2>1, <2>2, <2>6 DEF Stays, GoneBy
<1>5. CASE Executing(q, n) /\ Turning(q, n)
  BY <1>5 DEF Executing, Turning, Stays, GoneBy
<1>6. CASE Locking(q, n)
  BY <1>1, <1>6 DEF Locking, Keeps, Stays, GoneBy
<1>7. CASE Writing(q, n)
  BY <1>1, <1>7 DEF Writing, GoneBy
<1>8. CASE Unlocking(q, n)
  <2>1. n.pc \in Steps
    BY <1>1, <1>8 DEF Unlocking, SoundProcess, Written
  <2> QED
    BY <1>8, <2>1 DEF Unlocking, Stays, GoneBy, Steps
<1>9. CASE Beginning(q, n)
  <2>1. \A i \in Ops : n.draft.entries[i].phase = "pending"
    BY <1>9 DEF Beginning, createSetupRunJournal, Pending
  <2> QED
    BY <1>9, <2>1 DEF Beginning, Stays, GoneBy, Gone
<1> QED
  BY <1>2, <1>3, <1>4, <1>5, <1>6, <1>7, <1>8, <1>9 DEF Kind, Executing

LEMMA AloneStep ==
    ASSUME Types, SoundFile, Processes, Alone, NEW p \in Procs, NEW n \in Process,
           proc' = [proc EXCEPT ![p] = n], Kind(proc[p], n), changes' = changes,
           \/ Alive(p) /\ overlapped' = overlapped
           \/ ~Alive(p) /\ overlapped' = (overlapped \/ \E o \in Procs : Alive(o))
    PROVE  Alone'
<1> SUFFICES ASSUME ~overlapped'
             PROVE  /\ \A m, o \in Procs : proc'[m].pc # "off" /\ proc'[o].pc # "off" => m = o
                    /\ \A o \in Procs : UpToDate(proc'[o], file')
                    /\ changes = 0 =>
                           /\ file' # None => Gone(file', account')
                           /\ \A o \in Procs : GoneBy(proc'[o], account')
  BY DEF Alone, Alive
<1>1. /\ ~overlapped /\ \A o \in Procs : o # p => proc[o].pc = "off"
  <2>1. ~overlapped
    OBVIOUS
  <2>2. \A m, o \in Procs : Alive(m) /\ Alive(o) => m = o
    BY <2>1 DEF Alone
  <2>3. ASSUME NEW o \in Procs, o # p, Alive(o) PROVE FALSE
    BY <2>2, <2>3
  <2> QED
    BY <2>1, <2>3 DEF Alive
<1>2. proc'[p] = n /\ \A o \in Procs : o # p => proc'[o] = proc[o]
  BY DEF Types
<1>3. UpToDate(proc[p], file)
  BY <1>1 DEF Alone
<1>4. UpToDate(n, file')
  BY <1>3, UpToDateAfterStep
<1>5. ASSUME changes = 0 PROVE (file' # None => Gone(file', account')) /\ GoneBy(n, account')
  <2>1. (file # None => Gone(file, account)) /\ GoneBy(proc[p], account)
    BY <1>1, <1>5 DEF Alone
  <2> QED
    BY <1>3, <2>1, GoneAfterStep
<1>6. \A o \in Procs : o # p => UpToDate(proc'[o], file') /\ GoneBy(proc'[o], account')
  BY <1>1, <1>2 DEF UpToDate, GoneBy
<1> QED
  BY <1>1, <1>2, <1>4, <1>5, <1>6

-----------------------------------------------------------------------------
(* The theorems.                                                            *)

LEMMA InitIInv ==
    ASSUME Init
    PROVE  IInv
<1>1. /\ MaxFaults \in Nat /\ MaxStarts \in Nat /\ MaxChanges \in Nat /\ Migrations \in Nat
  BY AdapterBounds, SetupBounds
<1>2. account \subseteq Resources
  BY PreexistingAssumption DEF Init, Resources
<1>3. proc = [p \in Procs |-> Off] /\ file = None /\ deleted = {} /\ \A p \in Procs : proc[p].pc = "off"
  BY OffIsAProcess DEF Init
<1>4. Types
  <2>1. proc \in [Procs -> Process]
    BY <1>3, OffIsAProcess
  <2>2. 0 \in 0 .. Drifted
    BY <1>1 DEF Drifted
  <2>3. /\ applied = 0 /\ deleted = {} /\ faults = 0 /\ file = None /\ lock = FALSE
        /\ starts = 0 /\ changes = 0 /\ overlapped = FALSE
    BY DEF Init
  <2> QED
    <3>1. account \subseteq Resources /\ proc \in [Procs -> Process]
      BY <1>2, <2>1
    <3>2. deleted \subseteq Resources
      BY <2>3
    <3>3. file \in Journals(Runs) \cup {None} /\ lock \in BOOLEAN /\ overlapped \in BOOLEAN
      BY <2>3
    <3>4. /\ applied \in 0 .. Drifted /\ faults \in 0 .. MaxFaults /\ starts \in 0 .. MaxStarts
          /\ changes \in 0 .. MaxChanges
      BY <1>1, <2>2, <2>3
    <3> QED
      BY <3>1, <3>2, <3>3, <3>4 DEF Types
<1>5. SoundFile /\ Processes /\ AllBuilt
  BY <1>3 DEF SoundFile, Processes, SoundProcess, AllBuilt, BuiltBy
<1>6. World
  <2>1. \A r \in account : /\ Plan[r.op].kind \in {"d1", "r2", "worker"}
                           /\ Plan[r.op].kind = "worker" /\ r.derived => ~r.asAsked
                           /\ r.maker = "operator"
    BY PreexistingAssumption DEF Init
  <2> QED
    BY <1>3, <2>1 DEF World, SoundAccount, SoundDeleted
<1>7. Alone
  BY <1>3 DEF Alone, Alive, UpToDate, GoneBy
<1> QED
  BY <1>4, <1>5, <1>6, <1>7 DEF IInv

(* Which actions are the process's own start, and which come after it.     *)
LEMMA Overlaps ==
    ASSUME Types, NEW p \in Procs, Step(p) \/ Crash(p) \/ \E i \in Invocations : StartSetup(p, i)
    PROVE  /\ changes' = changes
           /\ \/ Alive(p) /\ overlapped' = overlapped
              \/ ~Alive(p) /\ overlapped' = (overlapped \/ \E o \in Procs : Alive(o))
<1>1. CASE LockJournal(p) \/ WriteJournal(p) \/ UnlockJournal(p)
  BY <1>1 DEF LockJournal, WriteJournal, UnlockJournal, bounds, Alive
<1>2. CASE LoadJournal(p) \/ WalkPlan(p) \/ ReconcileSettled(p)
  BY <1>2 DEF LoadJournal, WalkPlan, ReconcileSettled, bounds, Alive
<1>3. CASE CleanupStep(p) \/ CleanupSettled(p) \/ Exit(p) \/ Crash(p)
  BY <1>3 DEF CleanupStep, CleanupSettled, Exit, Crash, bounds, Alive
<1>4. CASE Work(p) /\ UNCHANGED <<disk, starts, bounds>>
  <2>1. proc[p].pc \in {"reconcile", "clean"}
    BY <1>4 DEF Work, DeclareDatabase, AdoptDatabase, FindDatabase, CreateDatabase, AdoptBucket, FindBucket,
                CreateBucket, RereadBucket, AdoptWorker, FindWorker, deploy, RereadWorker,
                requireOwnershipMarker, ReadHistory, RecheckHistory, runWrangler, VerifyHistory,
                FindCreatedDatabase, DeleteDatabase, FindCreatedBucket, DeleteBucket, Reconciles, Cleans, At
  <2> QED
    BY <1>4, <2>1 DEF bounds, Alive
<1>5. CASE \E i \in Invocations : StartSetup(p, i)
  BY <1>5 DEF StartSetup
<1> QED
  BY <1>1, <1>2, <1>3, <1>4, <1>5 DEF Step

LEMMA NextIInv ==
    ASSUME IInv, [Next]_vars
    PROVE  IInv'
<1>0. Types /\ SoundFile /\ Processes /\ World /\ AllBuilt /\ Alone
  BY DEF IInv
<1>1. Types'
  BY <1>0, TypesStep
<1>2. CASE UNCHANGED vars
  BY <1>0, <1>1, <1>2 DEF vars, IInv, SoundFile, Processes, World, AllBuilt, Alone, Alive
<1>3. ASSUME NEW p \in Procs, Step(p) \/ Crash(p) \/ \E i \in Invocations : StartSetup(p, i)
      PROVE  IInv'
  <2>1. PICK n \in Process : proc' = [proc EXCEPT ![p] = n] /\ Kind(proc[p], n)
    BY <1>0, <1>3, ProcessStep DEF Moves
  <2>2. /\ changes' = changes
        /\ \/ Alive(p) /\ overlapped' = overlapped
           \/ ~Alive(p) /\ overlapped' = (overlapped \/ \E o \in Procs : Alive(o))
    BY <1>0, <1>3, Overlaps
  <2>3. SoundFile' /\ Processes'
    BY <1>0, <2>1, ProcessesStep
  <2>4. World'
    BY <1>0, <2>1, WorldStep
  <2>5. AllBuilt'
    BY <1>0, <2>1, <2>2, BuiltStep
  <2>6. Alone'
    BY <1>0, <2>1, <2>2, AloneStep
  <2> QED
    BY <1>1, <2>3, <2>4, <2>5, <2>6 DEF IInv
<1>4. CASE RemoveStaleLock
  <2>1. /\ account' = account /\ applied' = applied /\ deleted' = deleted /\ proc' = proc /\ file' = file
        /\ changes' = changes /\ overlapped' = overlapped
    BY <1>4 DEF RemoveStaleLock, cloud, bounds
  <2> QED
    BY <1>0, <1>1, <2>1 DEF IInv, SoundFile, Processes, World, AllBuilt, Alone, Alive
<1>5. CASE OperatorChanges
  <2>1. proc' = proc /\ file' = file /\ overlapped' = overlapped /\ changes' = changes + 1
    BY <1>5 DEF OperatorChanges, disk
  <2>2. World'
    BY <1>0, <1>5, WorldOfOperator
  <2>3. changes' # 0
    BY <1>0, <2>1, SetupBounds DEF Types
  <2> QED
    BY <1>0, <1>1, <2>1, <2>2, <2>3 DEF IInv, SoundFile, Processes, AllBuilt, Alone, Alive
<1> QED
  BY <1>2, <1>3, <1>4, <1>5 DEF Next

LEMMA SpecIInv == Spec => []IInv
<1>1. Init => IInv
  BY InitIInv
<1>2. IInv /\ [Next]_vars => IInv'
  BY NextIInv
<1> QED
  BY <1>1, <1>2, PTL DEF Spec

(* Whatever is started, dies or is changed by hand, the journal on disk is *)
(* one that parses: no process writes what a later one cannot read         *)
(* (setup-run-journal.ts, parseSetupRunJournal).                           *)
THEOREM SetupTypes == Spec => []TypeOK
<1>1. IInv => TypeOK
  BY DEF IInv, Types, SoundFile, SoundJournal, TypeOK, Resources, Process, Works
<1> QED
  BY <1>1, SpecIInv, PTL

(* Whatever processes die, race or lose answers, cleanup deletes only what *)
(* the journal records as created: nothing adopted, no Worker, and no      *)
(* database that is not the one the run made or found under its name.      *)
THEOREM OnlyRecordedDeleted == Spec => []OnlyRecordedIsDeleted
<1>1. IInv => OnlyRecordedIsDeleted
  BY DEF IInv, World, SoundDeleted, OnlyRecordedIsDeleted
<1> QED
  BY <1>1, SpecIInv, PTL

(* What the journal calls completed is there and was approved, whatever    *)
(* the run has made is in the journal, and a run that failed has left      *)
(* nothing it recorded, unless two processes overlapped.                   *)
THEOREM JournalTrue == Spec => []JournalIsTrue
<1>1. IInv => CompletedIsBuilt
  <2> SUFFICES ASSUME IInv, file # None, file.state = "completed", NEW i \in Ops
               PROVE  /\ file.entries[i].disposition = "adopted" => Plan[i].id \in file.invocation.approved
                      /\ changes = 0 =>
                             /\ Creates(i) => \E r \in account : resourceRef(r) = file.entries[i].ref
                             /\ Plan[i].action = "apply" => applied = Migrations
    BY DEF CompletedIsBuilt
  <2>1. SoundJournal(file)
    BY DEF IInv, SoundFile
  <2>2. \A k \in Ops : file.entries[k].phase = "completed"
    BY <2>1 DEF SoundJournal, parseSetupRunJournal
  <2>3. SoundEntry(file.entries[i], i, file.invocation)
    BY <2>1 DEF SoundJournal
  <2>4. changes = 0 => Built(file, account, applied)
    BY DEF IInv, AllBuilt
  <2> QED
    BY <2>2, <2>3, <2>4 DEF SoundEntry, Built, Creating
<1>2. IInv => JournalKnowsAccount
  <2> SUFFICES ASSUME IInv PROVE JournalKnowsAccount
    OBVIOUS
  <2>1. \A r \in account : r.maker = "setup" => file # None /\ file.entries[r.op].phase # "pending"
    BY DEF IInv, World, SoundAccount
  <2>2. ASSUME file # None, file.state = "failed", changes = 0, ~overlapped, NEW i \in Ops,
               file.entries[i].disposition = "created"
        PROVE  \A r \in account : resourceRef(r) # file.entries[i].ref
    <3>1. file.entries[i].phase = "cleaned"
      BY <2>2 DEF IInv, SoundFile, SoundJournal, FailedIsClean
    <3>2. Gone(file, account)
      BY <2>2 DEF IInv, Alone
    <3> QED
      BY <3>1, <3>2 DEF Gone, Absent
  <2> QED
    BY <2>1, <2>2 DEF JournalKnowsAccount
<1> QED
  BY <1>1, <1>2, SpecIInv, PTL DEF JournalIsTrue
=============================================================================
