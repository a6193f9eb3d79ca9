-------------------------- MODULE ExecutionLedger --------------------------
(***************************************************************************)
(* What is kept of executions: the rows of D1 (storage.ts), the daily      *)
(* summaries the meter adds to (execution-usage-recorder.ts,               *)
(* usage-meter.ts), the daily counter in a Durable Object the budget is    *)
(* checked against (usage-counter.ts), and the R2 archive old rows move to *)
(* (execution-archive.ts).  One tenant and plugin, one day.                *)
(***************************************************************************)
EXTENDS Naturals, Sequences, FiniteSets, SequencesExt

CONSTANTS None,
          RunIds,            \* invocations: an execution id each
          Jobs,              \* calls of archiveExpired
          BatchSize, HotRetention,
          MaxClock           \* bound on the days that pass

ASSUME LedgerConstants ==
  /\ BatchSize \in Nat \ {0} /\ HotRetention \in Nat \ {0} /\ MaxClock \in Nat \ {0}
  /\ IsFiniteSet(RunIds)

VARIABLES
  clock,
  executions,          \* the hot rows
  recording,           \* a recorder.record call of each run
  metered,             \* executions of the day, in usage_daily_summaries
  counter, lockQueue, counting,       \* the daily counter and its callers
  archives, objects, job,             \* manifests, R2 and the archive jobs
  search               \* one search of the ledger

recorderVars == <<executions, recording, metered>>
counterVars == <<counter, lockQueue, counting>>
archiveVars == <<archives, objects, job, search>>
ledgerVars == <<clock, recorderVars, counterVars, archiveVars>>

(* An execution row; its duration is a whole number of milliseconds or not. *)
ExecutionRow(id, status, error, whole, at) ==
  [id |-> id, status |-> status, error |-> error, whole |-> whole, createdAt |-> at]

-----------------------------------------------------------------------------
(* record: the row is written first, and what was written is what is       *)
(* metered.                                                                *)
Recording(phase, row) == [phase |-> phase, row |-> row]
NotRecording == Recording("none", None)

WriteExecution(r) ==
  LET row == recording[r].row
      Inserted == executions' = executions \cup {row}
      Ends(phase) == recording' = [recording EXCEPT ![r].phase = phase] IN
  /\ recording[r].phase = "writing"
  /\ \/ Inserted /\ Ends("metering")
     \/ Inserted /\ Ends("failed")            \* the acknowledgement is lost
     \/ Ends("failed") /\ UNCHANGED executions
  /\ UNCHANGED <<clock, metered, counterVars, archiveVars>>

(* recordExecutionUsage: the summary is incremented by one UPSERT, which   *)
(* may fail.  Whether anybody is told is up to the host: reportFailure is  *)
(* optional and its own rejection is swallowed.  The sink comes after the  *)
(* summary and its failures stay inside the meter.                         *)
recordExecutionUsage == metered' = metered + 1 \/ metered' = metered

MeterExecution(r) ==
  /\ recording[r].phase = "metering"
  /\ recordExecutionUsage
  /\ recording' = [recording EXCEPT ![r].phase = "recorded"]
  /\ UNCHANGED <<clock, executions, counterVars, archiveVars>>

-----------------------------------------------------------------------------
(* Mutated: callers do not wait for each other.                            *)
withUsageLock_Open(r) == r \in Range(lockQueue)

(* recordExecution of the daily counter: storage is read and written in    *)
(* two calls, under a lock per key.                                        *)
withUsageLock(r) == lockQueue # <<>> /\ lockQueue[1] = r

release == lockQueue' = Tail(lockQueue)

RecordInCounter(r) ==
  /\ counting[r].phase = "queued" /\ withUsageLock(r)
  /\ \/ counting' = [counting EXCEPT ![r] = [phase |-> "read", usage |-> counter]] /\ UNCHANGED lockQueue
     \/ counting' = [counting EXCEPT ![r].phase = "failed"] /\ release
  /\ UNCHANGED <<clock, recorderVars, counter, archiveVars>>

PutCounter(r) ==
  /\ counting[r].phase = "read"
  /\ \/ /\ counter' = counting[r].usage + 1
        /\ \E phase \in {"counted", "failed"} : counting' = [counting EXCEPT ![r].phase = phase]
     \/ counting' = [counting EXCEPT ![r].phase = "failed"] /\ UNCHANGED counter
  /\ release
  /\ UNCHANGED <<clock, recorderVars, archiveVars>>

-----------------------------------------------------------------------------
(* The archive.  An object is the rows serialised in it: its key is the    *)
(* hash of its content.                                                    *)

(* The oldest expired rows, at most BatchSize of them; which of two rows   *)
(* of one time is taken first is left open.                                *)
readExpiredExecutions(cutoff) ==
  LET expired == {e \in executions : e.createdAt < cutoff} IN
  {batch \in SUBSET expired :
     /\ Cardinality(batch) = IF Cardinality(expired) < BatchSize THEN Cardinality(expired)
                             ELSE BatchSize
     /\ \A e \in batch, late \in expired \ batch : e.createdAt <= late.createdAt}

SetJob(j, phase, batch) == job' = [job EXCEPT ![j] = [phase |-> phase, batch |-> batch]]

ReadExpired(j) ==
  /\ job[j].phase = "idle" /\ clock > HotRetention
  /\ \E batch \in readExpiredExecutions(clock - HotRetention) : batch # {} /\ SetJob(j, "putting", batch)
  /\ UNCHANGED <<clock, recorderVars, counterVars, archives, objects, search>>

(* Mutated: the object is left for after the batch.                        *)
PutObject_Later(j) ==
  /\ job[j].phase = "putting"
  /\ SetJob(j, "committing", job[j].batch)
  /\ UNCHANGED <<clock, recorderVars, counterVars, archives, objects, search>>

PutObject(j) ==
  /\ job[j].phase = "putting"
  /\ \/ objects' = objects \cup {job[j].batch} /\ SetJob(j, "committing", job[j].batch)
     \/ objects' = objects \cup {job[j].batch} /\ SetJob(j, "failed", {})
     \/ SetJob(j, "failed", {}) /\ UNCHANGED objects
  /\ UNCHANGED <<clock, recorderVars, counterVars, archives, search>>

Times(batch) == {e.createdAt : e \in batch}
Manifest(batch) ==
  [object |-> batch, from |-> CHOOSE t \in Times(batch) : \A u \in Times(batch) : t <= u,
   to |-> CHOOSE t \in Times(batch) : \A u \in Times(batch) : u <= t]

(* One D1 batch: the manifest, whose object key is unique, and the rows    *)
(* leave.                                                                  *)
BatchAccepted(j) == \A manifest \in archives : manifest.object # job[j].batch

CommitArchive(j) ==
  /\ job[j].phase = "committing"
  /\ \/ /\ BatchAccepted(j)
        /\ archives' = archives \cup {Manifest(job[j].batch)}
        /\ executions' = executions \ job[j].batch
        /\ search' = [search EXCEPT !.moved = @ \cup job[j].batch]
        /\ \E phase \in {"archived", "failed"} : SetJob(j, phase, {})
     \/ SetJob(j, "failed", {}) /\ UNCHANGED <<archives, executions, search>>
  /\ UNCHANGED <<clock, recording, metered, counterVars, objects>>

-----------------------------------------------------------------------------
(* search: hot rows and manifests are two queries, run side by side.  due  *)
(* and moved are history: what there was to find when it began, and what a *)
(* job has archived since.                                                 *)
NoSearch == [phase |-> "none", from |-> 0, to |-> 0, hot |-> None, manifests |-> None,
             result |-> {}, due |-> {}, moved |-> {}]

Archived == UNION {manifest.object : manifest \in archives}
matchesQuery(rows) == {e \in rows : search.from <= e.createdAt /\ e.createdAt <= search.to}

BeginSearch(from, to) ==
  /\ search.phase = "none" /\ from <= to
  /\ search' = [NoSearch EXCEPT !.phase = "reading", !.from = from, !.to = to,
                  !.due = {e \in executions \cup Archived : from <= e.createdAt /\ e.createdAt <= to}]
  /\ UNCHANGED <<clock, recorderVars, counterVars, archives, objects, job>>

readHotExecutions ==
  /\ search.phase = "reading" /\ search.hot = None
  /\ search' = [search EXCEPT !.hot = [rows |-> matchesQuery(executions)]]
  /\ UNCHANGED <<clock, recorderVars, counterVars, archives, objects, job>>

Overlaps(manifest) == manifest.to >= search.from /\ manifest.from <= search.to

readArchiveManifests ==
  /\ search.phase = "reading" /\ search.manifests = None
  /\ search' = [search EXCEPT !.manifests = [found |-> {m \in archives : Overlaps(m)}]]
  /\ UNCHANGED <<clock, recorderVars, counterVars, archives, objects, job>>

(* An object that is missing, or holds a record parseExecutions does not   *)
(* accept, fails the whole search.                                         *)
Readable(manifest) == manifest.object \in objects /\ \A e \in manifest.object : e.whole

MergeResults ==
  LET found == search.manifests.found IN
  /\ search.phase = "reading" /\ search.hot # None /\ search.manifests # None
  /\ search' = IF \A m \in found : Readable(m)
               THEN [search EXCEPT !.phase = "answered",
                       !.result = search.hot.rows \cup matchesQuery(UNION {m.object : m \in found})]
               ELSE [search EXCEPT !.phase = "failed"]
  /\ UNCHANGED <<clock, recorderVars, counterVars, archives, objects, job>>

DayPasses ==
  /\ clock < MaxClock
  /\ clock' = clock + 1
  /\ UNCHANGED <<recorderVars, counterVars, archiveVars>>

LedgerInit(rows) ==
  /\ clock = 1 /\ executions = rows /\ metered = 0
  /\ recording = [r \in RunIds |-> NotRecording]
  /\ counter = 0 /\ lockQueue = <<>>
  /\ counting = [r \in RunIds |-> [phase |-> "none", usage |-> 0]]
  /\ archives = {} /\ objects = {} /\ job = [j \in Jobs |-> [phase |-> "idle", batch |-> {}]]
  /\ search = NoSearch

ArchiveStep ==
  \/ \E j \in Jobs : ReadExpired(j) \/ PutObject(j) \/ CommitArchive(j)
  \/ \E from, to \in 1..MaxClock : BeginSearch(from, to)
  \/ readHotExecutions \/ readArchiveManifests \/ MergeResults
  \/ DayPasses

-----------------------------------------------------------------------------
Written == executions \cup Archived

LedgerTypeOK ==
  /\ clock \in 1..MaxClock /\ metered \in Nat /\ counter \in Nat
  /\ Range(lockQueue) \subseteq RunIds
  /\ \A r \in RunIds :
       /\ recording[r].phase \in {"none", "writing", "metering", "recorded", "failed"}
       /\ counting[r].phase \in {"none", "queued", "read", "counted", "failed"}
  /\ \A j \in Jobs : job[j].phase \in {"idle", "putting", "committing", "archived", "failed"}
  /\ search.phase \in {"none", "reading", "answered", "failed"}

(* Every execution that was written stays findable: it is a hot row, or a  *)
(* manifest names an object that is in R2 and holds it, and a search that  *)
(* answers returns every execution of its range but those a job archived   *)
(* between its two queries (archiveExpired and search).                    *)
NoExecutionIsLost ==
  /\ \A r \in RunIds : recording[r].phase \in {"metering", "recorded"} => recording[r].row \in Written
  /\ \A manifest \in archives : manifest.object \in objects
  /\ search.phase = "answered" => search.due \subseteq search.result \cup search.moved

(* A run's usage is counted at most once, and only of an execution whose   *)
(* row was written; it may go missing unnoticed (record,                   *)
(* recordExecutionUsage).                                                  *)
UsageIsCountedOnce ==
  metered <= Cardinality({r \in RunIds : recording[r].phase = "recorded" /\ recording[r].row \in Written})

(* The daily counter keeps every increment it acknowledged (withUsageLock). *)
CounterKeepsIncrements ==
  counter >= Cardinality({r \in RunIds : counting[r].phase = "counted"})

(* A search over archives whose objects are all in R2 answers.             *)
ArchiveStaysSearchable ==
  search.phase = "failed" => \E manifest \in archives : manifest.object \notin objects
=============================================================================
