-------------------------- MODULE Execution_proofs --------------------------
(***************************************************************************)
(* Proofs about Execution, for any scenarios, dispatches, runs, jobs,      *)
(* operators' changes, budget, batch size and clock; and about             *)
(* RunawayGuard, which follows each execution, for any number of           *)
(* executions and any thresholds: what the guard stores, what it publishes *)
(* and the installation's row agree, and only a recovery ends a            *)
(* quarantine.                                                             *)
(***************************************************************************)
EXTENDS Execution, RunawayGuard, FiniteSetTheorems, WellFoundedInduction, TLAPS

(* The shapes of the records of the state: a record of these fields,       *)
(* whatever their values.                                                  *)
IsRun(x) ==
  x \in [stage : {x.stage}, request : {x.request}, worker : {x.worker}, alive : {x.alive},
         startedAt : {x.startedAt}, calls : {x.calls}, looked : {x.looked}, made : {x.made},
         response : {x.response}, outcome : {x.outcome}, answer : {x.answer}]
IsRecording(x) == x \in [phase : {x.phase}, row : {x.row}]
IsCounting(x) == x \in [phase : {x.phase}, usage : {x.usage}]
IsDispatch(x) ==
  x \in [phase : {x.phase}, plan : {x.plan}, mapping : {x.mapping}, payload : {x.payload}]
IsSearch(x) ==
  x \in [phase : {x.phase}, from : {x.from}, to : {x.to}, hot : {x.hot},
         manifests : {x.manifests}, result : {x.result}, due : {x.due}, moved : {x.moved}]
IsOutcome(x) ==
  x \in [timedOut : {x.timedOut}, budget : {x.budget}, failed : {x.failed}, code : {x.code},
         value : {x.value}]
IsRequest(x) ==
  x \in [hook : {x.hook}, hookType : {x.hookType}, lossless : {x.lossless}, asks : {x.asks},
         installation : {x.installation}, artifact : {x.artifact}, grantRevision : {x.grantRevision}]

RunsAreRecords == run = [r \in RunIds |-> run[r]] /\ \A r \in RunIds : IsRun(run[r])
RecordingsAreRecords ==
  recording = [r \in RunIds |-> recording[r]] /\ \A r \in RunIds : IsRecording(recording[r])
CountingsAreRecords ==
  counting = [r \in RunIds |-> counting[r]] /\ \A r \in RunIds : IsCounting(counting[r])
DispatchesAreRecords ==
  dispatch = [d \in Dispatches |-> dispatch[d]] /\ \A d \in Dispatches : IsDispatch(dispatch[d])

-----------------------------------------------------------------------------
(* Updates of one run.                                                     *)

(* Run r has these fields after the step, and every other run is as it was. *)
Becomes(r, st, rq, wk, at, cl, lk, md, rs, oc, an) ==
  /\ RunsAreRecords'
  /\ \A p \in RunIds : p # r => run'[p] = run[p]
  /\ run'[r].stage = st /\ run'[r].request = rq /\ run'[r].worker = wk /\ run'[r].startedAt = at
  /\ run'[r].calls = cl /\ run'[r].looked = lk /\ run'[r].made = md /\ run'[r].response = rs /\ run'[r].outcome = oc /\ run'[r].answer = an

LEMMA BecomesRecord ==
  ASSUME RunsAreRecords, NEW r \in RunIds, NEW y, IsRun(y), run' = [run EXCEPT ![r] = y]
  PROVE  Becomes(r, y.stage, y.request, y.worker, y.startedAt, y.calls, y.looked, y.made, y.response, y.outcome, y.answer)
<1>1. run'[r] = y /\ run' = [p \in RunIds |-> run'[p]] /\ \A p \in RunIds : p # r => run'[p] = run[p]
  BY DEF RunsAreRecords
<1>2. \A p \in RunIds : IsRun(run'[p])
  <2> SUFFICES ASSUME NEW p \in RunIds PROVE IsRun(run'[p])
    OBVIOUS
  <2>1. CASE p = r
    BY <1>1, <2>1
  <2>2. CASE p # r
    <3>1. run'[p] = run[p] /\ IsRun(run[p])
      BY <1>1, <2>2 DEF RunsAreRecords
    <3> QED BY <3>1
  <2> QED BY <2>1, <2>2
<1>3. RunsAreRecords'
  BY <1>1, <1>2 DEF RunsAreRecords, IsRun
<1> QED BY <1>1, <1>3 DEF Becomes

(* The updates the actions make.                                           *)
LEMMA SetStage ==
  ASSUME RunsAreRecords, NEW r \in RunIds, NEW s, run' = [run EXCEPT ![r].stage = s]
  PROVE  LET x == run[r] IN
         Becomes(r, s, x.request, x.worker, x.startedAt, x.calls, x.looked, x.made, x.response, x.outcome, x.answer)
<1> DEFINE x == run[r]
           y == [x EXCEPT !.stage = s]
<1>1. run' = [run EXCEPT ![r] = y] /\ IsRun(x)
  BY DEF RunsAreRecords
<1> HIDE DEF x
<1>2. /\ IsRun(y) /\ y.stage = s /\ y.request = x.request /\ y.worker = x.worker
      /\ y.startedAt = x.startedAt /\ y.calls = x.calls
      /\ y.looked = x.looked /\ y.made = x.made /\ y.response = x.response
      /\ y.outcome = x.outcome /\ y.answer = x.answer
  BY <1>1 DEF IsRun
<1> HIDE DEF y
<1>3. Becomes(r, y.stage, y.request, y.worker, y.startedAt, y.calls, y.looked, y.made, y.response, y.outcome, y.answer)
  BY <1>1, <1>2, BecomesRecord
<1> QED BY <1>2, <1>3 DEF x

LEMMA SetWorker ==
  ASSUME RunsAreRecords, NEW r \in RunIds, NEW s, NEW w,
         run' = [run EXCEPT ![r].stage = s, ![r].worker = w, ![r].alive = TRUE]
  PROVE  LET x == run[r] IN
         Becomes(r, s, x.request, w, x.startedAt, x.calls, x.looked, x.made, x.response, x.outcome, x.answer)
<1> DEFINE x == run[r]
           y == [x EXCEPT !.stage = s, !.worker = w, !.alive = TRUE]
<1>1. run' = [run EXCEPT ![r] = y] /\ IsRun(x)
  BY DEF RunsAreRecords
<1> HIDE DEF x
<1>2. /\ IsRun(y) /\ y.stage = s /\ y.request = x.request /\ y.worker = w
      /\ y.startedAt = x.startedAt /\ y.calls = x.calls
      /\ y.looked = x.looked /\ y.made = x.made /\ y.response = x.response
      /\ y.outcome = x.outcome /\ y.answer = x.answer
  BY <1>1 DEF IsRun
<1> HIDE DEF y
<1>3. Becomes(r, y.stage, y.request, y.worker, y.startedAt, y.calls, y.looked, y.made, y.response, y.outcome, y.answer)
  BY <1>1, <1>2, BecomesRecord
<1> QED BY <1>2, <1>3 DEF x

LEMMA SetAnswer ==
  ASSUME RunsAreRecords, NEW r \in RunIds, NEW s, NEW a,
         run' = [run EXCEPT ![r].stage = s, ![r].answer = a]
  PROVE  LET x == run[r] IN
         Becomes(r, s, x.request, x.worker, x.startedAt, x.calls, x.looked, x.made, x.response, x.outcome, a)
<1> DEFINE x == run[r]
           y == [x EXCEPT !.stage = s, !.answer = a]
<1>1. run' = [run EXCEPT ![r] = y] /\ IsRun(x)
  BY DEF RunsAreRecords
<1> HIDE DEF x
<1>2. /\ IsRun(y) /\ y.stage = s /\ y.request = x.request /\ y.worker = x.worker
      /\ y.startedAt = x.startedAt /\ y.calls = x.calls
      /\ y.looked = x.looked /\ y.made = x.made /\ y.response = x.response
      /\ y.outcome = x.outcome /\ y.answer = a
  BY <1>1 DEF IsRun
<1> HIDE DEF y
<1>3. Becomes(r, y.stage, y.request, y.worker, y.startedAt, y.calls, y.looked, y.made, y.response, y.outcome, y.answer)
  BY <1>1, <1>2, BecomesRecord
<1> QED BY <1>2, <1>3 DEF x

LEMMA SetCalls ==
  ASSUME RunsAreRecords, NEW r \in RunIds, NEW c,
         run' = [run EXCEPT ![r].calls = c]
  PROVE  LET x == run[r] IN
         Becomes(r, x.stage, x.request, x.worker, x.startedAt, c, x.looked, x.made, x.response, x.outcome, x.answer)
<1> DEFINE x == run[r]
           y == [x EXCEPT !.calls = c]
<1>1. run' = [run EXCEPT ![r] = y] /\ IsRun(x)
  BY DEF RunsAreRecords
<1> HIDE DEF x
<1>2. /\ IsRun(y) /\ y.stage = x.stage /\ y.request = x.request /\ y.worker = x.worker
      /\ y.startedAt = x.startedAt /\ y.calls = c
      /\ y.looked = x.looked /\ y.made = x.made /\ y.response = x.response
      /\ y.outcome = x.outcome /\ y.answer = x.answer
  BY <1>1 DEF IsRun
<1> HIDE DEF y
<1>3. Becomes(r, y.stage, y.request, y.worker, y.startedAt, y.calls, y.looked, y.made, y.response, y.outcome, y.answer)
  BY <1>1, <1>2, BecomesRecord
<1> QED BY <1>2, <1>3 DEF x

LEMMA SetResponse ==
  ASSUME RunsAreRecords, NEW r \in RunIds, NEW s, NEW v,
         run' = [run EXCEPT ![r].stage = s, ![r].response = v]
  PROVE  LET x == run[r] IN
         Becomes(r, s, x.request, x.worker, x.startedAt, x.calls, x.looked, x.made, v, x.outcome, x.answer)
<1> DEFINE x == run[r]
           y == [x EXCEPT !.stage = s, !.response = v]
<1>1. run' = [run EXCEPT ![r] = y] /\ IsRun(x)
  BY DEF RunsAreRecords
<1> HIDE DEF x
<1>2. /\ IsRun(y) /\ y.stage = s /\ y.request = x.request /\ y.worker = x.worker
      /\ y.startedAt = x.startedAt /\ y.calls = x.calls
      /\ y.looked = x.looked /\ y.made = x.made /\ y.response = v
      /\ y.outcome = x.outcome /\ y.answer = x.answer
  BY <1>1 DEF IsRun
<1> HIDE DEF y
<1>3. Becomes(r, y.stage, y.request, y.worker, y.startedAt, y.calls, y.looked, y.made, y.response, y.outcome, y.answer)
  BY <1>1, <1>2, BecomesRecord
<1> QED BY <1>2, <1>3 DEF x

LEMMA SetKilled ==
  ASSUME RunsAreRecords, NEW r \in RunIds, NEW s, NEW v,
         run' = [run EXCEPT ![r].alive = FALSE, ![r].stage = s, ![r].response = v]
  PROVE  LET x == run[r] IN
         Becomes(r, s, x.request, x.worker, x.startedAt, x.calls, x.looked, x.made, v, x.outcome, x.answer)
<1> DEFINE x == run[r]
           y == [x EXCEPT !.alive = FALSE, !.stage = s, !.response = v]
<1>1. run' = [run EXCEPT ![r] = y] /\ IsRun(x)
  BY DEF RunsAreRecords
<1> HIDE DEF x
<1>2. /\ IsRun(y) /\ y.stage = s /\ y.request = x.request /\ y.worker = x.worker
      /\ y.startedAt = x.startedAt /\ y.calls = x.calls
      /\ y.looked = x.looked /\ y.made = x.made /\ y.response = v
      /\ y.outcome = x.outcome /\ y.answer = x.answer
  BY <1>1 DEF IsRun
<1> HIDE DEF y
<1>3. Becomes(r, y.stage, y.request, y.worker, y.startedAt, y.calls, y.looked, y.made, y.response, y.outcome, y.answer)
  BY <1>1, <1>2, BecomesRecord
<1> QED BY <1>2, <1>3 DEF x

LEMMA SetLooked ==
  ASSUME RunsAreRecords, NEW r \in RunIds, NEW c,
         run' = [run EXCEPT ![r].looked = c]
  PROVE  LET x == run[r] IN
         Becomes(r, x.stage, x.request, x.worker, x.startedAt, x.calls, c, x.made, x.response, x.outcome, x.answer)
<1> DEFINE x == run[r]
           y == [x EXCEPT !.looked = c]
<1>1. run' = [run EXCEPT ![r] = y] /\ IsRun(x)
  BY DEF RunsAreRecords
<1> HIDE DEF x
<1>2. /\ IsRun(y) /\ y.stage = x.stage /\ y.request = x.request /\ y.worker = x.worker
      /\ y.startedAt = x.startedAt /\ y.calls = x.calls
      /\ y.looked = c /\ y.made = x.made /\ y.response = x.response
      /\ y.outcome = x.outcome /\ y.answer = x.answer
  BY <1>1 DEF IsRun
<1> HIDE DEF y
<1>3. Becomes(r, y.stage, y.request, y.worker, y.startedAt, y.calls, y.looked, y.made, y.response, y.outcome, y.answer)
  BY <1>1, <1>2, BecomesRecord
<1> QED BY <1>2, <1>3 DEF x

LEMMA SetMade ==
  ASSUME RunsAreRecords, NEW r \in RunIds, NEW s, NEW n,
         run' = [run EXCEPT ![r].stage = s, ![r].made = n]
  PROVE  LET x == run[r] IN
         Becomes(r, s, x.request, x.worker, x.startedAt, x.calls, x.looked, n, x.response, x.outcome, x.answer)
<1> DEFINE x == run[r]
           y == [x EXCEPT !.stage = s, !.made = n]
<1>1. run' = [run EXCEPT ![r] = y] /\ IsRun(x)
  BY DEF RunsAreRecords
<1> HIDE DEF x
<1>2. /\ IsRun(y) /\ y.stage = s /\ y.request = x.request /\ y.worker = x.worker
      /\ y.startedAt = x.startedAt /\ y.calls = x.calls
      /\ y.looked = x.looked /\ y.made = n /\ y.response = x.response
      /\ y.outcome = x.outcome /\ y.answer = x.answer
  BY <1>1 DEF IsRun
<1> HIDE DEF y
<1>3. Becomes(r, y.stage, y.request, y.worker, y.startedAt, y.calls, y.looked, y.made, y.response, y.outcome, y.answer)
  BY <1>1, <1>2, BecomesRecord
<1> QED BY <1>2, <1>3 DEF x

LEMMA SetOutcome ==
  ASSUME RunsAreRecords, NEW r \in RunIds, NEW s, NEW v, NEW o,
         run' = [run EXCEPT ![r].stage = s, ![r].response = v, ![r].outcome = o]
  PROVE  LET x == run[r] IN
         Becomes(r, s, x.request, x.worker, x.startedAt, x.calls, x.looked, x.made, v, o, x.answer)
<1> DEFINE x == run[r]
           y == [x EXCEPT !.stage = s, !.response = v, !.outcome = o]
<1>1. run' = [run EXCEPT ![r] = y] /\ IsRun(x)
  BY DEF RunsAreRecords
<1> HIDE DEF x
<1>2. /\ IsRun(y) /\ y.stage = s /\ y.request = x.request /\ y.worker = x.worker
      /\ y.startedAt = x.startedAt /\ y.calls = x.calls
      /\ y.looked = x.looked /\ y.made = x.made /\ y.response = v
      /\ y.outcome = o /\ y.answer = x.answer
  BY <1>1 DEF IsRun
<1> HIDE DEF y
<1>3. Becomes(r, y.stage, y.request, y.worker, y.startedAt, y.calls, y.looked, y.made, y.response, y.outcome, y.answer)
  BY <1>1, <1>2, BecomesRecord
<1> QED BY <1>2, <1>3 DEF x

LEMMA SetCode ==
  ASSUME RunsAreRecords, NEW r \in RunIds, NEW s, NEW c,
         run' = [run EXCEPT ![r].stage = s, ![r].outcome.code = c]
  PROVE  LET x == run[r] IN
         Becomes(r, s, x.request, x.worker, x.startedAt, x.calls, x.looked, x.made, x.response, [x.outcome EXCEPT !.code = c], x.answer)
<1> DEFINE x == run[r]
           y == [x EXCEPT !.stage = s, !.outcome = [x.outcome EXCEPT !.code = c]]
<1>1. run' = [run EXCEPT ![r] = y] /\ IsRun(x)
  BY DEF RunsAreRecords
<1> HIDE DEF x
<1>2. /\ IsRun(y) /\ y.stage = s /\ y.request = x.request /\ y.worker = x.worker
      /\ y.startedAt = x.startedAt /\ y.calls = x.calls
      /\ y.looked = x.looked /\ y.made = x.made /\ y.response = x.response
      /\ y.outcome = [x.outcome EXCEPT !.code = c] /\ y.answer = x.answer
  BY <1>1 DEF IsRun
<1> HIDE DEF y
<1>3. Becomes(r, y.stage, y.request, y.worker, y.startedAt, y.calls, y.looked, y.made, y.response, y.outcome, y.answer)
  BY <1>1, <1>2, BecomesRecord
<1> QED BY <1>2, <1>3 DEF x

LEMMA SetEnd ==
  ASSUME RunsAreRecords, NEW r \in RunIds, NEW s, NEW o, NEW a,
         run' = [run EXCEPT ![r].stage = s, ![r].outcome = o, ![r].answer = a]
  PROVE  LET x == run[r] IN
         Becomes(r, s, x.request, x.worker, x.startedAt, x.calls, x.looked, x.made, x.response, o, a)
<1> DEFINE x == run[r]
           y == [x EXCEPT !.stage = s, !.outcome = o, !.answer = a]
<1>1. run' = [run EXCEPT ![r] = y] /\ IsRun(x)
  BY DEF RunsAreRecords
<1> HIDE DEF x
<1>2. /\ IsRun(y) /\ y.stage = s /\ y.request = x.request /\ y.worker = x.worker
      /\ y.startedAt = x.startedAt /\ y.calls = x.calls
      /\ y.looked = x.looked /\ y.made = x.made /\ y.response = x.response
      /\ y.outcome = o /\ y.answer = a
  BY <1>1 DEF IsRun
<1> HIDE DEF y
<1>3. Becomes(r, y.stage, y.request, y.worker, y.startedAt, y.calls, y.looked, y.made, y.response, y.outcome, y.answer)
  BY <1>1, <1>2, BecomesRecord
<1> QED BY <1>2, <1>3 DEF x

LEMMA SetCall ==
  ASSUME RunsAreRecords, NEW r \in RunIds, NEW i, NEW t,
         run' = [run EXCEPT ![r].calls[i].state = t]
  PROVE  LET x == run[r] IN
         Becomes(r, x.stage, x.request, x.worker, x.startedAt, [x.calls EXCEPT ![i].state = t], x.looked, x.made, x.response, x.outcome, x.answer)
<1> DEFINE x == run[r]
           y == [x EXCEPT !.calls = [x.calls EXCEPT ![i].state = t]]
<1>1. run' = [run EXCEPT ![r] = y] /\ IsRun(x)
  BY DEF RunsAreRecords
<1> HIDE DEF x
<1>2. /\ IsRun(y) /\ y.stage = x.stage /\ y.request = x.request /\ y.worker = x.worker
      /\ y.startedAt = x.startedAt /\ y.calls = [x.calls EXCEPT ![i].state = t]
      /\ y.looked = x.looked /\ y.made = x.made /\ y.response = x.response
      /\ y.outcome = x.outcome /\ y.answer = x.answer
  BY <1>1 DEF IsRun
<1> HIDE DEF y
<1>3. Becomes(r, y.stage, y.request, y.worker, y.startedAt, y.calls, y.looked, y.made, y.response, y.outcome, y.answer)
  BY <1>1, <1>2, BecomesRecord
<1> QED BY <1>2, <1>3 DEF x

-----------------------------------------------------------------------------
(* The kinds of steps.                                                     *)
LEMMA NextCases ==
  ASSUME [Next]_vars
  PROVE  \/ UNCHANGED <<ledgerVars, workerVars>>
         \/ \E d \in Dispatches, i \in 1..MaxSteps : CheckBudget(d, i)
         \/ \E r \in RunIds : \/ RecordRefusal(r) \/ CountRun(r)
                              \/ RunStep(r) /\ UNCHANGED hostVars
                              \/ (RecordInCounter(r) \/ PutCounter(r)) /\ UNCHANGED <<workerVars, hostVars>>
         \/ ArchiveStep /\ UNCHANGED <<workerVars, hostVars>>
<1>1. CASE UNCHANGED vars
  BY <1>1 DEF vars
<1>2. ASSUME NEW d \in Dispatches, FindMapping(d) \/ PlanDispatch(d) \/ FinishChain(d) \/ Forward(d)
      PROVE  UNCHANGED <<ledgerVars, workerVars>>
  BY <1>2 DEF FindMapping, PlanDispatch, FinishChain, Forward
<1>3. ASSUME NEW r \in RunIds, DisableInstallation(r)
      PROVE  UNCHANGED <<ledgerVars, workerVars>>
  BY <1>3 DEF DisableInstallation
<1>4. ASSUME \/ UpsertMapping \/ DeleteMapping
             \/ \E i \in DOMAIN installations : Reconfigure(i) \/ ReEnable(i)
      PROVE  UNCHANGED <<ledgerVars, workerVars>>
  BY <1>4 DEF UpsertMapping, DeleteMapping, Reconfigure, ReEnable, Operates
<1> QED BY <1>1, <1>2, <1>3, <1>4 DEF Next

(* The archive step leaves the recorder and the counter alone.             *)
LEMMA ArchiveFrame ==
  ASSUME ArchiveStep
  PROVE  UNCHANGED <<recording, metered, counterVars>>
  BY DEF ArchiveStep, ReadExpired, PutObject, CommitArchive, BeginSearch, readHotExecutions,
         readArchiveManifests, MergeResults, DayPasses, recorderVars, counterVars, archiveVars

(* A step of a run leaves the archive and the counter alone.               *)
LEMMA RunFrame ==
  ASSUME NEW r, RunStep(r)
  PROVE  /\ UNCHANGED <<clock, counterVars, archiveVars>>
         /\ executions' # executions => /\ recording[r].phase = "writing" /\ run' = run
                                        /\ executions' = executions \cup {recording[r].row}
<1>1. CASE \/ LoadWorker(r) \/ CallCapability(r) \/ CapabilitySettles(r) \/ HandlerReturns(r)
           \/ DrainNext(r) \/ DrainEnds(r) \/ WorkerIsKilled(r) \/ InvocationThrows(r)
           \/ ReadResponse(r) \/ TimerFires(r) \/ AnswerRun(r)
  BY <1>1 DEF LoadWorker, CallCapability, CapabilitySettles, HandlerReturns, DrainNext, DrainEnds,
              WorkerIsKilled, InvocationThrows, ReadResponse, TimerFires, AnswerRun, ledgerVars, recorderVars
<1>2. CASE ReadEvidence(r) \/ EvidenceTimerFires(r)
  BY <1>2 DEF ReadEvidence, EvidenceTimerFires, RecordRun
<1>3. CASE WriteExecution(r) /\ UNCHANGED workerVars
  BY <1>3 DEF WriteExecution, workerVars
<1>4. CASE MeterExecution(r)
  BY <1>4 DEF MeterExecution
<1> QED BY <1>1, <1>2, <1>3, <1>4 DEF RunStep

-----------------------------------------------------------------------------
(* What an archive job holds is kept somewhere at every moment: its batch  *)
(* is made of rows that are hot or archived, and is in R2 before the       *)
(* manifest names it.                                                      *)
JobsAreSound ==
  /\ job = [j \in Jobs |-> job[j]]
  /\ \A j \in Jobs : /\ job[j].phase \in {"idle", "putting", "committing", "archived", "failed"}
                     /\ job[j].batch \subseteq Written
                     /\ job[j].phase = "committing" => job[j].batch \in objects

ManifestsAreSound == \A manifest \in archives : manifest.object \in objects

ArchiveInv == clock \in 1..MaxClock /\ JobsAreSound /\ ManifestsAreSound

LEMMA SetJobEffect ==
  ASSUME job = [i \in Jobs |-> job[i]], NEW j \in Jobs, NEW phase, NEW batch, SetJob(j, phase, batch)
  PROVE  /\ job' = [i \in Jobs |-> job'[i]]
         /\ job'[j].phase = phase /\ job'[j].batch = batch
         /\ \A i \in Jobs : i # j => job'[i] = job[i]
  BY DEF SetJob

(* Rows are written and moved; none is dropped.                            *)
LEMMA CommitKeepsRows ==
  ASSUME ArchiveInv, NEW j \in Jobs, CommitArchive(j)
  PROVE  Written' = Written
<1>1. CASE archives' = archives \cup {Manifest(job[j].batch)} /\ executions' = executions \ job[j].batch
  <2>1. Manifest(job[j].batch).object = job[j].batch
    BY DEF Manifest
  <2>2. Archived' = Archived \cup job[j].batch
    <3> DEFINE m == Manifest(job[j].batch)
    <3>1. archives' = archives \cup {m} /\ m.object = job[j].batch
      BY <1>1, <2>1
    <3> HIDE DEF m
    <3> QED BY <3>1 DEF Archived
  <2>3. job[j].batch \subseteq Written
    BY DEF ArchiveInv, JobsAreSound
  <2> QED BY <1>1, <2>2, <2>3 DEF Written
<1>2. CASE UNCHANGED <<archives, executions>>
  BY <1>2 DEF Written, Archived
<1> QED BY <1>1, <1>2 DEF CommitArchive

(* What a step adds to the ledger.                                         *)
LEMMA WrittenGrows ==
  ASSUME ArchiveInv, [Next]_vars
  PROVE  \/ Written' = Written
         \/ \E r \in RunIds : /\ RunStep(r) /\ recording[r].phase = "writing" /\ run' = run
                              /\ Written' = Written \cup {recording[r].row}
         \/ \E r \in RunIds : /\ RecordRefusal(r) /\ UNCHANGED <<run, recording>>
                              /\ Written' = Written \cup {ExecutionRow(r, "budget_exceeded", "message", TRUE, clock)}
<1>1. ASSUME UNCHANGED <<executions, archives>> PROVE Written' = Written
  BY <1>1 DEF Written, Archived
<1>2. CASE UNCHANGED <<ledgerVars, workerVars>>
  BY <1>1, <1>2 DEF ledgerVars, recorderVars, archiveVars
<1>3. ASSUME NEW d \in Dispatches, NEW i \in 1..MaxSteps, CheckBudget(d, i)
      PROVE  Written' = Written
  BY <1>1, <1>3 DEF CheckBudget, ledgerVars, recorderVars, archiveVars
<1>4. ASSUME NEW r \in RunIds, RecordRefusal(r)
      PROVE  \/ Written' = Written
             \/ /\ UNCHANGED <<run, recording>>
                /\ Written' = Written \cup {ExecutionRow(r, "budget_exceeded", "message", TRUE, clock)}
  BY <1>1, <1>4 DEF RecordRefusal, Written, Archived, archiveVars, workerVars
<1>5. ASSUME NEW r \in RunIds, CountRun(r) \/ RecordInCounter(r) \/ PutCounter(r)
      PROVE  Written' = Written
  BY <1>1, <1>5 DEF CountRun, RecordInCounter, PutCounter, recorderVars, archiveVars
<1>6. ASSUME NEW r \in RunIds, RunStep(r)
      PROVE  \/ Written' = Written
             \/ /\ recording[r].phase = "writing" /\ run' = run
                /\ Written' = Written \cup {recording[r].row}
  BY <1>1, <1>6, RunFrame DEF Written, Archived, archiveVars
<1>7. CASE ArchiveStep
  <2>1. ASSUME NEW j \in Jobs, ReadExpired(j) \/ PutObject(j) \/ CommitArchive(j)
        PROVE  Written' = Written
    BY <1>1, <2>1, CommitKeepsRows DEF ReadExpired, PutObject, recorderVars
  <2>2. CASE \/ \E from, to \in 1..MaxClock : BeginSearch(from, to)
             \/ readHotExecutions \/ readArchiveManifests \/ MergeResults \/ DayPasses
    BY <1>1, <2>2 DEF BeginSearch, readHotExecutions, readArchiveManifests, MergeResults, DayPasses,
                      recorderVars, archiveVars
  <2> QED BY <1>7, <2>1, <2>2 DEF ArchiveStep
<1> QED BY <1>2, <1>3, <1>4, <1>5, <1>6, <1>7, NextCases

LEMMA InitArchive == Init => ArchiveInv
  BY LedgerConstants DEF Init, LedgerInit, ArchiveInv, JobsAreSound, ManifestsAreSound

LEMMA NextArchive == ArchiveInv /\ [Next]_vars => ArchiveInv'
<1> SUFFICES ASSUME ArchiveInv, [Next]_vars PROVE ArchiveInv'
  OBVIOUS
<1>1. Written \subseteq Written'
  BY WrittenGrows
<1>2. CASE UNCHANGED <<clock, archives, objects, job>>
  BY <1>1, <1>2 DEF ArchiveInv, JobsAreSound, ManifestsAreSound
<1>3. CASE UNCHANGED <<ledgerVars, workerVars>>
  BY <1>2, <1>3 DEF ledgerVars, archiveVars
<1>4. ASSUME NEW d \in Dispatches, NEW i \in 1..MaxSteps, CheckBudget(d, i) PROVE ArchiveInv'
  BY <1>2, <1>4 DEF CheckBudget, ledgerVars, archiveVars
<1>5. ASSUME NEW r \in RunIds, RecordRefusal(r) \/ CountRun(r) \/ RecordInCounter(r) \/ PutCounter(r)
      PROVE  ArchiveInv'
  BY <1>2, <1>5 DEF RecordRefusal, CountRun, RecordInCounter, PutCounter, archiveVars
<1>6. ASSUME NEW r \in RunIds, RunStep(r) PROVE ArchiveInv'
  BY <1>2, <1>6, RunFrame DEF archiveVars
<1>7. CASE ArchiveStep
  <2>1. ASSUME NEW j \in Jobs, NEW phase, NEW batch, SetJob(j, phase, batch), clock' = clock,
               phase \in {"idle", "putting", "committing", "archived", "failed"},
               batch \subseteq Written, objects \subseteq objects',
               phase = "committing" => batch \in objects', ManifestsAreSound'
        PROVE  ArchiveInv'
    <3>1. /\ job' = [i \in Jobs |-> job'[i]]
          /\ job'[j].phase = phase /\ job'[j].batch = batch
          /\ \A i \in Jobs : i # j => job'[i] = job[i]
      BY <2>1, SetJobEffect DEF ArchiveInv, JobsAreSound
    <3>2. JobsAreSound'
      BY <1>1, <2>1, <3>1 DEF ArchiveInv, JobsAreSound
    <3> QED BY <2>1, <3>2 DEF ArchiveInv
  <2>2. ASSUME NEW j \in Jobs, ReadExpired(j) PROVE ArchiveInv'
    <3>1. PICK batch \in readExpiredExecutions(clock - HotRetention) : SetJob(j, "putting", batch)
      BY <2>2 DEF ReadExpired
    <3>2. batch \subseteq Written
      BY <3>1 DEF readExpiredExecutions, Written
    <3> QED BY <2>1, <2>2, <3>1, <3>2 DEF ReadExpired, ArchiveInv, ManifestsAreSound
  <2>3. ASSUME NEW j \in Jobs, PutObject(j) PROVE ArchiveInv'
    <3>1. job[j].batch \subseteq Written
      BY DEF ArchiveInv, JobsAreSound
    <3>2. objects \subseteq objects' /\ ManifestsAreSound'
      BY <2>3 DEF PutObject, ArchiveInv, ManifestsAreSound
    <3>3. CASE SetJob(j, "committing", job[j].batch) /\ job[j].batch \in objects'
      BY <2>1, <2>3, <3>1, <3>2, <3>3 DEF PutObject
    <3>4. CASE SetJob(j, "failed", {})
      BY <2>1, <2>3, <3>2, <3>4 DEF PutObject
    <3> QED BY <2>3, <3>3, <3>4 DEF PutObject
  <2>4. ASSUME NEW j \in Jobs, CommitArchive(j) PROVE ArchiveInv'
    <3>1. Manifest(job[j].batch).object = job[j].batch
      BY DEF Manifest
    <3>2. job[j].batch \in objects
      BY <2>4 DEF CommitArchive, ArchiveInv, JobsAreSound
    <3>3. ManifestsAreSound'
      <4> DEFINE m == Manifest(job[j].batch)
      <4>1. m.object \in objects /\ (archives' = archives \cup {m} \/ archives' = archives)
        BY <2>4, <3>1, <3>2 DEF CommitArchive
      <4>2. objects' = objects
        BY <2>4 DEF CommitArchive
      <4> HIDE DEF m
      <4> QED BY <4>1, <4>2 DEF ArchiveInv, ManifestsAreSound
    <3>4. \E phase \in {"archived", "failed"} : SetJob(j, phase, {})
      BY <2>4 DEF CommitArchive
    <3>5. clock' = clock /\ objects' = objects
      BY <2>4 DEF CommitArchive
    <3> QED BY <2>1, <3>3, <3>4, <3>5
  <2>5. CASE \/ \E from, to \in 1..MaxClock : BeginSearch(from, to)
             \/ readHotExecutions \/ readArchiveManifests \/ MergeResults
    BY <1>2, <2>5 DEF BeginSearch, readHotExecutions, readArchiveManifests, MergeResults
  <2>6. CASE DayPasses
    <3>1. clock' \in 1..MaxClock
      BY <2>6, LedgerConstants DEF DayPasses, ArchiveInv
    <3> QED BY <1>1, <2>6, <3>1 DEF DayPasses, ArchiveInv, JobsAreSound, ManifestsAreSound, archiveVars
  <2> QED BY <1>7, <2>2, <2>3, <2>4, <2>5, <2>6 DEF ArchiveStep
<1> QED BY <1>3, <1>4, <1>5, <1>6, <1>7, NextCases

-----------------------------------------------------------------------------
(* Runs.                                                                   *)

Stages == {"idle", "fetching", "running", "draining", "responded", "threw", "settled", "recording",
           "done"}

(* None of a worker's first calls is under way, and none failed unnoticed. *)
Calm(calls, n) == \A i \in DOMAIN calls : i <= n => Settled(calls, i) /\ ~Unhandled(calls, i)

Calls == [state : {"flight", "fulfilled", "rejected"}, rejectionHandled : BOOLEAN]

(* A worker's calls, and how far the runtime has looked at them: what it   *)
(* has looked at is calm.                                                  *)
CallsAreListed(x) ==
  /\ x.calls \in Seq(Calls) /\ x.looked \in 0..Len(x.calls) /\ x.made \in 0..Len(x.calls)
  /\ Calm(x.calls, x.looked)

Fits(worker, request) ==
  /\ worker.artifact = request.artifact
  /\ worker.env.installation = request.installation
  /\ worker.env.grantRevision = request.grantRevision

Succeeded(o) == o.timedOut = FALSE /\ o.budget = FALSE /\ o.failed = FALSE

(* What a run may settle with.                                             *)
OutcomeIsSound(r, o) ==
  /\ IsOutcome(o)
  /\ \/ o.timedOut = TRUE
     \/ o.timedOut = FALSE /\ o.budget = TRUE /\ o.code \in BudgetCodes
     \/ /\ o.timedOut = FALSE /\ o.budget = FALSE /\ o.failed = TRUE
        /\ o.code \in {"plugin_result_invalid", "runtime_unavailable"}
     \/ Succeeded(o) /\ o.value.output = r

(* The code a run ends with and the status its row says.                   *)
Agree(code, status) ==
  \/ code = None /\ status = "success"
  \/ code = "plugin_timeout" /\ status = "timeout"
  \/ code = "egress_denied" /\ status = "egress_denied"
  \/ /\ code \in BudgetCodes \cup {"plugin_result_invalid", "runtime_unavailable"}
     /\ status \in {"budget_exceeded", "error"}

AnswerIsSound(r) ==
  LET answer == run[r].answer
      Row(status) == \E row \in Written : row.id = r /\ row.status = status IN
  /\ answer.kind = "value" => answer.value.output = r
  /\ answer.kind = "value" /\ answer.code = None => Row("success")
  /\ answer.kind = "value" /\ answer.value.status # "deny" => Row("success")
  /\ answer.kind = "error" /\ answer.code \in {"egress_denied", "plugin_timeout"} =>
       Row("egress_denied") \/ Row("timeout")

RunIsSound(r) ==
  LET x == run[r] rec == recording[r] IN
  /\ x.stage \in Stages
  /\ x.answer.kind \in IF x.stage = "done" THEN {"value", "error"} ELSE {"none"}
  /\ x.startedAt \in 0..MaxClock
  /\ x.stage # "idle" => IsRequest(x.request)
  /\ x.worker # None => Fits(x.worker, x.request)
  /\ CallsAreListed(x)
  /\ x.stage \in {"draining", "responded"} => x.response.output = r
  /\ x.stage = "responded" => Calm(x.calls, x.made)
  /\ x.stage = "settled" =>
       OutcomeIsSound(r, x.outcome) /\ (Succeeded(x.outcome) => Calm(x.calls, x.made))
  /\ x.stage = "recording" =>
       /\ rec.phase # "none" /\ Agree(x.outcome.code, rec.row.status)
       /\ x.outcome.code = None => x.outcome.value.output = r
  /\ rec.phase \in {"none", "writing", "metering", "recorded", "failed"}
  /\ rec.phase # "none" =>
       /\ x.stage \in {"recording", "done"}
       /\ rec.row.id = r /\ rec.row.createdAt \in 0..MaxClock
       /\ rec.row.status = "success" => Calm(x.calls, x.made)
  /\ rec.phase \in {"metering", "recorded"} => rec.row \in Written
  /\ AnswerIsSound(r)

(* A row that says success is of a run that ended calmly.                  *)
RowIsSound(row) ==
  /\ row.createdAt \in 0..MaxClock
  /\ row.id \in RunIds /\ row.status = "success" =>
       recording[row.id].phase # "none" /\ Calm(run[row.id].calls, run[row.id].made)

(* A warm worker is what its id says.                                      *)
CacheIsSound ==
  \A w \in cache : /\ w.artifact = w.id.artifact
                   /\ w.env.installation = w.id.installation
                   /\ w.env.grantRevision = w.id.grantRevision

RunsInv ==
  /\ RunsAreRecords /\ RecordingsAreRecords /\ CacheIsSound
  /\ \A r \in RunIds : RunIsSound(r)
  /\ \A row \in Written : RowIsSound(row)

(* A step of run r alone: what is left to show is about r.                 *)
LEMMA OneRun ==
  ASSUME RunsInv, NEW r \in RunIds, Written \subseteq Written',
         RunsAreRecords', RecordingsAreRecords', CacheIsSound',
         \A p \in RunIds : p # r => run'[p] = run[p] /\ recording'[p] = recording[p],
         RunIsSound(r)',
         recording[r].phase # "none" =>
           /\ recording'[r].phase # "none"
           /\ Calm(run[r].calls, run[r].made) => Calm(run'[r].calls, run'[r].made),
         \A row \in Written' : row \in Written \/ RowIsSound(row)'
  PROVE  RunsInv'
<1>1. ASSUME NEW p \in RunIds, p # r PROVE RunIsSound(p)'
  <2>1. RunIsSound(p) /\ run'[p] = run[p] /\ recording'[p] = recording[p]
    BY <1>1 DEF RunsInv
  <2>2. AnswerIsSound(p)'
    BY <2>1 DEF RunIsSound, AnswerIsSound
  <2> QED BY <2>1, <2>2 DEF RunIsSound
<1>2. ASSUME NEW row \in Written PROVE RowIsSound(row)'
  <2>1. RowIsSound(row)
    BY DEF RunsInv
  <2>2. ASSUME row.id \in RunIds, row.status = "success"
        PROVE  recording'[row.id].phase # "none" /\ Calm(run'[row.id].calls, run'[row.id].made)
    <3>1. recording[row.id].phase # "none" /\ Calm(run[row.id].calls, run[row.id].made)
      BY <2>1, <2>2 DEF RowIsSound
    <3>2. CASE row.id = r
      BY <3>1, <3>2
    <3>3. CASE row.id # r
      BY <2>2, <3>1, <3>3
    <3> QED BY <3>2, <3>3
  <2> QED BY <2>1, <2>2 DEF RowIsSound
<1> QED BY <1>1, <1>2 DEF RunsInv

(* A run that has no answer yet claims nothing.                            *)
LEMMA NoAnswerIsSound ==
  ASSUME NEW r, run'[r].answer.kind = "none"
  PROVE  AnswerIsSound(r)'
  BY DEF AnswerIsSound

(* An error of another kind than those that are recorded claims nothing.   *)
LEMMA OtherErrorIsSound ==
  ASSUME NEW r, NEW code, code \notin {"egress_denied", "plugin_timeout"}, run'[r].answer = Throws(code)
  PROVE  run'[r].answer.kind = "error" /\ AnswerIsSound(r)'
  BY DEF AnswerIsSound, Throws, Answer

(* A step that changes only run r, before its row is written.              *)
LEMMA WorkerStep ==
  ASSUME RunsInv, NEW r \in RunIds, UNCHANGED ledgerVars, CacheIsSound', RunsAreRecords',
         \A p \in RunIds : p # r => run'[p] = run[p],
         RunIsSound(r)',
         recording[r].phase # "none" /\ Calm(run[r].calls, run[r].made) => Calm(run'[r].calls, run'[r].made)
  PROVE  RunsInv'
<1>1. recording' = recording /\ Written' = Written
  BY DEF ledgerVars, recorderVars, archiveVars, Written, Archived
<1>2. RecordingsAreRecords'
  BY <1>1 DEF RunsInv, RecordingsAreRecords, IsRecording
<1> QED BY <1>1, <1>2, OneRun

(* What getCode makes of a request.                                        *)
LEMMA LoadedCode ==
  ASSUME NEW request, IsRequest(request), NEW code \in getCode(request)
  PROVE  /\ code.ok => /\ Fits(code.worker, request)
                       /\ code.worker.artifact = code.worker.id.artifact
                       /\ code.worker.env.installation = code.worker.id.installation
                       /\ code.worker.env.grantRevision = code.worker.id.grantRevision
         /\ ~code.ok => code.code \in {"plugin_artifact_invalid", "runtime_unavailable"}
<1> DEFINE Id == deriveWorkerId(request)
           Env == [scoped |-> TRUE, installation |-> request.installation,
                   grantRevision |-> request.grantRevision]
           W == [id |-> Id, artifact |-> request.artifact, env |-> Env]
<1>1. /\ Id.artifact = request.artifact /\ Id.installation = request.installation
      /\ Id.grantRevision = request.grantRevision
  BY DEF deriveWorkerId, IsRequest
<1> HIDE DEF Id
<1>2. PICK delivered \in BOOLEAN, bindings \in createScopeBindings(request) :
        code = IF ~delivered THEN [ok |-> FALSE, code |-> "plugin_artifact_invalid"]
               ELSE IF ~bindings.scoped THEN [ok |-> FALSE, code |-> "runtime_unavailable"]
               ELSE [ok |-> TRUE, worker |-> [id |-> deriveWorkerId(request),
                                              artifact |-> request.artifact, env |-> bindings]]
  BY DEF getCode
<1>3. CASE code = [ok |-> FALSE, code |-> "plugin_artifact_invalid"]
  <2>1. code.ok = FALSE /\ code.code = "plugin_artifact_invalid"
    BY <1>3, Zenon
  <2> QED BY <2>1
<1>4. CASE code = [ok |-> FALSE, code |-> "runtime_unavailable"]
  <2>1. code.ok = FALSE /\ code.code = "runtime_unavailable"
    BY <1>4, Zenon
  <2> QED BY <2>1
<1>5. CASE code = [ok |-> TRUE, worker |-> W]
  <2>1. code.ok = TRUE /\ code.worker = W
    BY <1>5, Zenon
  <2>2. /\ Fits(W, request) /\ W.artifact = W.id.artifact
        /\ W.env.installation = W.id.installation /\ W.env.grantRevision = W.id.grantRevision
    BY <1>1 DEF Fits
  <2> QED BY <2>1, <2>2
<1>6. bindings = Env \/ bindings = [scoped |-> FALSE]
  BY <1>2 DEF createScopeBindings
<1>7. CASE bindings = [scoped |-> FALSE]
  <2>1. ~bindings.scoped
    BY <1>7, Zenon
  <2> QED BY <1>2, <1>3, <1>4, <2>1, Zenon
<1>8. CASE bindings = Env
  <2>1. bindings.scoped
    BY <1>8, Zenon
  <2>2. \/ code = [ok |-> FALSE, code |-> "plugin_artifact_invalid"]
        \/ code = [ok |-> TRUE, worker |-> W]
    BY <1>2, <1>8, <2>1, Zenon DEF Id
  <2> QED BY <1>3, <1>5, <2>2
<1> QED BY <1>6, <1>7, <1>8

LEMMA BeginRunKeeps ==
  ASSUME ArchiveInv, RunsInv, NEW r \in RunIds, NEW request, IsRequest(request),
         UNCHANGED ledgerVars, BeginRun(r, request)
  PROVE  RunsInv'
<1> DEFINE x == run[r]
           y1 == [Idle EXCEPT !.stage = "fetching", !.request = request, !.startedAt = clock]
           y2 == [Idle EXCEPT !.stage = "done", !.request = request, !.answer = Throws("input_invalid")]
<1>1. RunIsSound(r) /\ x.stage = "idle" /\ RunsAreRecords /\ cache' = cache /\ clock \in 0..MaxClock
  BY DEF BeginRun, RunsInv, ArchiveInv
<1>2. recording[r].phase = "none" /\ recording' = recording
  BY <1>1 DEF RunIsSound, ledgerVars, recorderVars
<1>3. CacheIsSound'
  BY <1>1 DEF RunsInv, CacheIsSound
<1>4. IsRun(Idle) /\ Idle.worker = None /\ Idle.answer = NoAnswer /\ CallsAreListed(Idle)
  BY DEF IsRun, Idle, CallsAreListed, Calm
<1>5. /\ IsRun(y1) /\ y1.stage = "fetching" /\ y1.request = request /\ y1.startedAt = clock
      /\ y1.worker = None /\ y1.answer.kind = "none" /\ CallsAreListed(y1)
  <2>1. IsRun(y1) /\ y1.stage = "fetching" /\ y1.request = request /\ y1.worker = None /\ y1.answer = NoAnswer
        /\ CallsAreListed(y1)
    BY <1>4 DEF IsRun, CallsAreListed
  <2>2. y1.startedAt = clock
    BY <1>4 DEF IsRun
  <2>3. NoAnswer.kind = "none"
    BY DEF NoAnswer
  <2> HIDE DEF y1
  <2> QED BY <2>1, <2>2, <2>3
<1>6. /\ IsRun(y2) /\ y2.stage = "done" /\ y2.request = request /\ y2.startedAt = 0
      /\ y2.worker = None /\ y2.answer = Throws("input_invalid") /\ CallsAreListed(y2)
  <2>1. Idle.startedAt = 0
    BY DEF Idle
  <2> QED BY <1>4, <2>1 DEF IsRun, CallsAreListed
<1>7. run' = [run EXCEPT ![r] = y1] \/ run' = [run EXCEPT ![r] = y2]
  BY DEF BeginRun
<1> HIDE DEF y1, y2
<1>8. CASE run' = [run EXCEPT ![r] = y1]
  <2>1. Becomes(r, y1.stage, y1.request, y1.worker, y1.startedAt, y1.calls, y1.looked, y1.made, y1.response, y1.outcome, y1.answer)
    BY <1>1, <1>5, <1>8, BecomesRecord
  <2>2. AnswerIsSound(r)'
    BY <1>5, <2>1, NoAnswerIsSound DEF Becomes
  <2>3. RunIsSound(r)'
    BY <1>1, <1>2, <1>5, <2>1, <2>2 DEF RunIsSound, CallsAreListed, Becomes, Stages
  <2> QED BY <1>2, <1>3, <2>1, <2>3, WorkerStep DEF Becomes
<1>9. CASE run' = [run EXCEPT ![r] = y2]
  <2>1. Becomes(r, y2.stage, y2.request, y2.worker, y2.startedAt, y2.calls, y2.looked, y2.made, y2.response, y2.outcome, y2.answer)
    BY <1>1, <1>6, <1>9, BecomesRecord
  <2>2. run'[r].answer.kind = "error" /\ AnswerIsSound(r)'
    BY <1>6, <2>1, OtherErrorIsSound DEF Becomes
  <2>3. 0 \in 0..MaxClock
    BY LedgerConstants
  <2>4. RunIsSound(r)'
    BY <1>1, <1>2, <1>6, <2>1, <2>2, <2>3 DEF RunIsSound, CallsAreListed, Becomes, Stages
  <2> QED BY <1>2, <1>3, <2>1, <2>4, WorkerStep DEF Becomes
<1> QED BY <1>7, <1>8, <1>9

LEMMA LoadWorkerKeeps ==
  ASSUME RunsInv, NEW r \in RunIds, LoadWorker(r)
  PROVE  RunsInv'
<1> DEFINE x == run[r]
           request == x.request
<1>1. RunIsSound(r) /\ x.stage = "fetching" /\ RunsAreRecords /\ UNCHANGED ledgerVars
  BY DEF LoadWorker, RunsInv
<1>2. recording[r].phase = "none" /\ recording' = recording /\ IsRequest(request) /\ x.answer.kind = "none"
  BY <1>1 DEF RunIsSound, ledgerVars, recorderVars
<1>3. ASSUME NEW worker, run' = [run EXCEPT ![r].stage = "running", ![r].worker = worker, ![r].alive = TRUE],
             Fits(worker, request), CacheIsSound'
      PROVE  RunsInv'
  <2>1. Becomes(r, "running", x.request, worker, x.startedAt, x.calls, x.looked, x.made, x.response, x.outcome, x.answer)
    BY <1>1, <1>3, SetWorker
  <2>2. AnswerIsSound(r)'
    BY <1>2, <2>1, NoAnswerIsSound DEF Becomes
  <2>3. RunIsSound(r)'
    BY <1>1, <1>2, <1>3, <2>1, <2>2 DEF RunIsSound, CallsAreListed, Becomes, Stages
  <2> QED BY <1>1, <1>2, <1>3, <2>1, <2>3, WorkerStep DEF Becomes
<1>4. CASE \E worker \in cache : /\ worker.id = deriveWorkerId(request)
                                 /\ run' = [run EXCEPT ![r].stage = "running", ![r].worker = worker, ![r].alive = TRUE]
                                 /\ UNCHANGED cache
  <2>1. PICK worker \in cache : /\ worker.id = deriveWorkerId(request)
                                /\ run' = [run EXCEPT ![r].stage = "running", ![r].worker = worker, ![r].alive = TRUE]
                                /\ UNCHANGED cache
    BY <1>4
  <2>2. CacheIsSound'
    BY <2>1 DEF RunsInv, CacheIsSound
  <2>3. LET id == deriveWorkerId(request) IN
        /\ id.artifact = request.artifact /\ id.installation = request.installation
        /\ id.grantRevision = request.grantRevision
    <3> HIDE DEF request
    <3> QED BY <1>2 DEF deriveWorkerId, IsRequest
  <2>4. Fits(worker, request)
    BY <2>1, <2>3 DEF RunsInv, CacheIsSound, Fits
  <2> QED BY <1>3, <2>1, <2>2, <2>4
<1>5. CASE \E code \in getCode(request) :
             IF code.ok
             THEN /\ cache' = {w \in cache : w.id # code.worker.id} \cup {code.worker}
                  /\ run' = [run EXCEPT ![r].stage = "running", ![r].worker = code.worker, ![r].alive = TRUE]
             ELSE /\ run' = [run EXCEPT ![r].stage = "done", ![r].answer = Throws(code.code)]
                  /\ UNCHANGED cache
  <2>1. PICK code \in getCode(request) :
             IF code.ok
             THEN /\ cache' = {w \in cache : w.id # code.worker.id} \cup {code.worker}
                  /\ run' = [run EXCEPT ![r].stage = "running", ![r].worker = code.worker, ![r].alive = TRUE]
             ELSE /\ run' = [run EXCEPT ![r].stage = "done", ![r].answer = Throws(code.code)]
                  /\ UNCHANGED cache
    BY <1>5
  <2>2. CASE code.ok
    <3> DEFINE w == code.worker
    <3>1. /\ Fits(w, request) /\ w.artifact = w.id.artifact
          /\ w.env.installation = w.id.installation /\ w.env.grantRevision = w.id.grantRevision
      BY <1>2, <2>2, LoadedCode
    <3>2. cache' \subseteq cache \cup {w} /\ run' = [run EXCEPT ![r].stage = "running", ![r].worker = w, ![r].alive = TRUE]
      BY <2>1, <2>2
    <3> HIDE DEF w
    <3>3. CacheIsSound'
      BY <3>1, <3>2 DEF RunsInv, CacheIsSound
    <3> QED BY <1>3, <3>1, <3>2, <3>3
  <2>3. CASE ~code.ok
    <3> DEFINE c == code.code
    <3>1. c \in {"plugin_artifact_invalid", "runtime_unavailable"}
      BY <1>2, <2>3, LoadedCode
    <3>2. run' = [run EXCEPT ![r].stage = "done", ![r].answer = Throws(c)] /\ cache' = cache
      BY <2>1, <2>3
    <3> HIDE DEF c
    <3>3. Becomes(r, "done", x.request, x.worker, x.startedAt, x.calls, x.looked, x.made, x.response, x.outcome, Throws(c))
      BY <1>1, <3>2, SetAnswer
    <3>4. run'[r].answer.kind = "error" /\ AnswerIsSound(r)'
      BY <3>1, <3>3, OtherErrorIsSound DEF Becomes
    <3>5. RunIsSound(r)'
      BY <1>1, <1>2, <3>3, <3>4 DEF RunIsSound, CallsAreListed, Becomes, Stages
    <3>6. CacheIsSound'
      BY <3>2 DEF RunsInv, CacheIsSound
    <3> QED BY <1>1, <1>2, <3>3, <3>5, <3>6, WorkerStep DEF Becomes
  <2> QED BY <2>2, <2>3
<1> QED BY <1>4, <1>5 DEF LoadWorker

(* A call that is made comes last, and one that settles was under way.     *)
LEMMA CallsGrow ==
  ASSUME NEW c \in Seq(Calls), NEW d,
         \/ \E handled \in BOOLEAN : d = Append(c, [state |-> "flight", rejectionHandled |-> handled])
         \/ \E i \in DOMAIN c, t \in {"fulfilled", "rejected"} :
              c[i].state = "flight" /\ d = [c EXCEPT ![i].state = t]
  PROVE  /\ d \in Seq(Calls) /\ Len(d) \in Nat /\ Len(d) >= Len(c)
         /\ \A n \in 0..Len(c) : Calm(c, n) => Calm(d, n)
<1>1. ASSUME NEW handled \in BOOLEAN, d = Append(c, [state |-> "flight", rejectionHandled |-> handled])
      PROVE  /\ d \in Seq(Calls) /\ Len(d) \in Nat /\ Len(d) >= Len(c)
             /\ \A i \in DOMAIN d : i <= Len(c) => i \in DOMAIN c /\ d[i] = c[i]
  <2> DEFINE call == [state |-> "flight", rejectionHandled |-> handled]
  <2>1. call \in Calls
    BY DEF Calls
  <2> HIDE DEF call
  <2>2. d = Append(c, call)
    BY <1>1 DEF call
  <2> QED BY <2>1, <2>2
<1>2. ASSUME NEW i \in DOMAIN c, NEW t \in {"fulfilled", "rejected"}, c[i].state = "flight",
             d = [c EXCEPT ![i].state = t]
      PROVE  /\ d \in Seq(Calls) /\ Len(d) \in Nat /\ Len(d) >= Len(c)
             /\ \A k \in DOMAIN d : k \in DOMAIN c /\ (k = i \/ d[k] = c[k])
  <2> DEFINE call == [c[i] EXCEPT !.state = t]
  <2>1. c[i] \in Calls
    OBVIOUS
  <2>2. call \in Calls
    BY <2>1 DEF Calls
  <2>3. d = [c EXCEPT ![i] = call]
    BY <1>2
  <2> HIDE DEF call
  <2> QED BY <2>2, <2>3
<1>3. ASSUME NEW n \in 0..Len(c), Calm(c, n) PROVE Calm(d, n)
  <2> SUFFICES ASSUME NEW k \in DOMAIN d, k <= n PROVE Settled(d, k) /\ ~Unhandled(d, k)
    BY DEF Calm
  <2>1. ASSUME k \in DOMAIN c, d[k] = c[k] PROVE Settled(d, k) /\ ~Unhandled(d, k)
    BY <1>3, <2>1 DEF Calm, Settled, Unhandled
  <2>2. CASE \E handled \in BOOLEAN : d = Append(c, [state |-> "flight", rejectionHandled |-> handled])
    <3>1. d \in Seq(Calls) /\ \A i \in DOMAIN d : i <= Len(c) => i \in DOMAIN c /\ d[i] = c[i]
      BY <1>1, <2>2
    <3>2. k \in Nat /\ Len(c) \in Nat
      BY <3>1
    <3>3. k <= Len(c)
      BY <3>2
    <3> QED BY <2>1, <3>1, <3>3
  <2>3. CASE \E i \in DOMAIN c, t \in {"fulfilled", "rejected"} :
               c[i].state = "flight" /\ d = [c EXCEPT ![i].state = t]
    <3>1. PICK i \in DOMAIN c, t \in {"fulfilled", "rejected"} :
            c[i].state = "flight" /\ d = [c EXCEPT ![i].state = t]
      BY <2>3
    <3>2. k \in DOMAIN c /\ (k = i \/ d[k] = c[k])
      BY <1>2, <3>1
    <3>3. ~(i <= n)
      BY <1>3, <3>1 DEF Calm, Settled
    <3> QED BY <2>1, <3>2, <3>3
  <2> QED BY <2>2, <2>3
<1> QED BY <1>1, <1>2, <1>3

(* A worker may call capabilities, and they settle, for as long as it      *)
(* runs, whatever has become of the run.                                   *)
LEMMA CallsKeep ==
  ASSUME RunsInv, NEW r \in RunIds, CallCapability(r) \/ CapabilitySettles(r)
  PROVE  RunsInv'
<1> DEFINE x == run[r]
<1>1. RunIsSound(r) /\ RunsAreRecords /\ UNCHANGED ledgerVars /\ cache' = cache
  BY DEF CallCapability, CapabilitySettles, RunsInv
<1>2. recording' = recording /\ Written' = Written /\ CallsAreListed(x)
  BY <1>1 DEF RunIsSound, ledgerVars, recorderVars, archiveVars, Written, Archived
<1>3. CacheIsSound'
  BY <1>1 DEF RunsInv, CacheIsSound
<1>4. ASSUME NEW calls, Becomes(r, x.stage, x.request, x.worker, x.startedAt, calls, x.looked, x.made, x.response, x.outcome, x.answer),
             calls \in Seq(Calls), Len(calls) \in Nat, Len(calls) >= Len(x.calls),
             \A n \in 0..Len(x.calls) : Calm(x.calls, n) => Calm(calls, n)
      PROVE  RunsInv'
  <2>1. AnswerIsSound(r)'
    BY <1>1, <1>2, <1>4 DEF RunIsSound, AnswerIsSound, Becomes
  <2>2. CallsAreListed(run'[r])
    <3>1. Len(x.calls) \in Nat /\ Calm(calls, x.looked)
      BY <1>2, <1>4 DEF CallsAreListed
    <3> QED BY <1>2, <1>4, <3>1 DEF CallsAreListed, Becomes
  <2>3. /\ Calm(x.calls, x.looked) => Calm(run'[r].calls, run'[r].looked)
        /\ Calm(x.calls, x.made) => Calm(run'[r].calls, run'[r].made)
    BY <1>2, <1>4 DEF CallsAreListed, Becomes
  <2>4. RunIsSound(r)'
    BY <1>1, <1>2, <1>4, <2>1, <2>2, <2>3 DEF RunIsSound, Becomes
  <2> QED BY <1>1, <1>2, <1>3, <1>4, <2>3, <2>4, WorkerStep DEF Becomes
<1>5. CASE CallCapability(r)
  <2>1. PICK handled \in BOOLEAN :
          run' = [run EXCEPT ![r].calls = Append(@, [state |-> "flight", rejectionHandled |-> handled])]
    BY <1>5 DEF CallCapability
  <2> DEFINE c == Append(run[r].calls, [state |-> "flight", rejectionHandled |-> handled])
  <2>2. run' = [run EXCEPT ![r].calls = c]
    BY <2>1
  <2>3. c \in Seq(Calls) /\ Len(c) \in Nat /\ Len(c) >= Len(x.calls) /\ \A n \in 0..Len(x.calls) : Calm(x.calls, n) => Calm(c, n)
    BY <1>2, CallsGrow DEF CallsAreListed
  <2> HIDE DEF c
  <2> QED BY <1>1, <1>4, <2>2, <2>3, SetCalls
<1>6. CASE CapabilitySettles(r)
  <2>1. PICK i \in DOMAIN run[r].calls, outcome \in {"fulfilled", "rejected"} :
          run[r].calls[i].state = "flight" /\ run' = [run EXCEPT ![r].calls[i].state = outcome]
    BY <1>6 DEF CapabilitySettles
  <2> DEFINE c == [run[r].calls EXCEPT ![i].state = outcome]
  <2>2. c \in Seq(Calls) /\ Len(c) \in Nat /\ Len(c) >= Len(x.calls) /\ \A n \in 0..Len(x.calls) : Calm(x.calls, n) => Calm(c, n)
    BY <1>2, <2>1, CallsGrow DEF CallsAreListed
  <2>3. Becomes(r, x.stage, x.request, x.worker, x.startedAt, c, x.looked, x.made, x.response, x.outcome, x.answer)
    BY <1>1, <2>1, SetCall
  <2> HIDE DEF c
  <2> QED BY <1>4, <2>2, <2>3
<1> QED BY <1>5, <1>6

(* A worker that threw holds no response.                                  *)
LEMMA ThrewKeeps ==
  ASSUME RunsInv, NEW r \in RunIds, run[r].stage \in {"running", "draining", "responded"},
         UNCHANGED <<cache, ledgerVars>>,
         NEW v, LET x == run[r] IN
                Becomes(r, "threw", x.request, x.worker, x.startedAt, x.calls, x.looked, x.made, v, x.outcome, x.answer)
  PROVE  RunsInv'
<1> DEFINE x == run[r]
<1>1. RunIsSound(r) /\ RunsAreRecords /\ UNCHANGED ledgerVars /\ cache' = cache
  BY DEF RunsInv
<1>2. recording[r].phase = "none" /\ recording' = recording /\ x.answer.kind = "none"
  BY <1>1 DEF RunIsSound, ledgerVars, recorderVars
<1>3. CacheIsSound'
  BY <1>1 DEF RunsInv, CacheIsSound
<1>4. AnswerIsSound(r)'
  BY <1>2, NoAnswerIsSound DEF Becomes
<1>5. RunIsSound(r)'
  BY <1>1, <1>2, <1>4 DEF RunIsSound, CallsAreListed, Becomes, Stages
<1> QED BY <1>1, <1>2, <1>3, <1>5, WorkerStep DEF Becomes

LEMMA ReturnKeeps ==
  ASSUME RunsInv, NEW r \in RunIds, HandlerReturns(r) \/ DrainNext(r) \/ DrainEnds(r) \/ WorkerIsKilled(r)
  PROVE  RunsInv'
<1> DEFINE x == run[r]
<1>1. RunIsSound(r) /\ x.stage \in {"running", "draining"} /\ RunsAreRecords /\ UNCHANGED <<cache, ledgerVars>>
  BY DEF HandlerReturns, DrainNext, DrainEnds, WorkerIsKilled, RunsInv
<1>2. recording[r].phase = "none" /\ recording' = recording /\ x.answer.kind = "none"
  BY <1>1 DEF RunIsSound, ledgerVars, recorderVars
<1>3. CacheIsSound'
  BY <1>1 DEF RunsInv, CacheIsSound
<1>4. ASSUME run' = [run EXCEPT ![r].stage = "threw", ![r].response = None] PROVE RunsInv'
  BY <1>1, <1>4, SetResponse, ThrewKeeps
<1>5. ASSUME run' = [run EXCEPT ![r].stage = "threw"] PROVE RunsInv'
  BY <1>1, <1>5, SetStage, ThrewKeeps
<1>6. ASSUME x.stage = "running", NEW value \in dispatchResults(r),
             run' = [run EXCEPT ![r].stage = "draining", ![r].response = value]
      PROVE  RunsInv'
  <2>1. Becomes(r, "draining", x.request, x.worker, x.startedAt, x.calls, x.looked, x.made, value, x.outcome, x.answer)
    BY <1>1, <1>6, SetResponse
  <2>2. value.output = r
    BY DEF dispatchResults, Value
  <2>3. AnswerIsSound(r)'
    BY <1>2, <2>1, NoAnswerIsSound DEF Becomes
  <2>4. RunIsSound(r)'
    BY <1>1, <1>2, <2>1, <2>2, <2>3 DEF RunIsSound, CallsAreListed, Becomes, Stages
  <2> QED BY <1>1, <1>2, <1>3, <2>1, <2>4, WorkerStep DEF Becomes
<1>7. ASSUME DrainNext(r) PROVE RunsInv'
  <2> DEFINE i == x.looked + 1
  <2>1. /\ x.stage = "draining" /\ i \in DOMAIN x.calls /\ Settled(x.calls, i)
        /\ Calm(x.calls, x.looked) /\ CallsAreListed(x)
    BY <1>1, <1>7 DEF DrainNext, Awaited, RunIsSound, CallsAreListed
  <2>2. CASE Unhandled(x.calls, i)
    BY <1>4, <1>7, <2>2 DEF DrainNext
  <2>3. CASE ~Unhandled(x.calls, i)
    <3>1. run' = [run EXCEPT ![r].looked = i]
      BY <1>7, <2>3 DEF DrainNext
    <3>2. x.calls \in Seq(Calls) /\ x.looked \in Nat /\ Len(x.calls) \in Nat
      BY <2>1 DEF CallsAreListed
    <3>3. i \in 0..Len(x.calls)
      BY <2>1, <3>2
    <3>4. Calm(x.calls, i)
      <4> SUFFICES ASSUME NEW k \in DOMAIN x.calls, k <= i
                   PROVE  Settled(x.calls, k) /\ ~Unhandled(x.calls, k)
        BY DEF Calm
      <4>1. k = i \/ k <= x.looked
        BY <3>2
      <4> QED BY <2>1, <2>3, <4>1 DEF Calm
    <3> HIDE DEF i
    <3>5. Becomes(r, x.stage, x.request, x.worker, x.startedAt, x.calls, i, x.made, x.response, x.outcome, x.answer)
      BY <1>1, <3>1, SetLooked
    <3>6. AnswerIsSound(r)'
      BY <1>2, <3>5, NoAnswerIsSound DEF Becomes
    <3>7. RunIsSound(r)'
      BY <1>1, <1>2, <2>1, <3>3, <3>4, <3>5, <3>6 DEF RunIsSound, CallsAreListed, Becomes, Stages
    <3> QED BY <1>1, <1>2, <1>3, <3>5, <3>7, WorkerStep DEF Becomes
  <2> QED BY <2>2, <2>3
<1>8. ASSUME x.stage = "draining", x.looked >= Len(x.calls),
             run' = [run EXCEPT ![r].stage = "responded", ![r].made = Len(x.calls)]
      PROVE  RunsInv'
  <2> DEFINE n == Len(x.calls)
  <2>1. CallsAreListed(x) /\ Calm(x.calls, x.looked) /\ n \in Nat
    BY <1>1, <1>8 DEF RunIsSound, CallsAreListed
  <2>2. x.looked = n
    BY <1>8, <2>1 DEF CallsAreListed
  <2>3. Becomes(r, "responded", x.request, x.worker, x.startedAt, x.calls, x.looked, n, x.response, x.outcome, x.answer)
    BY <1>1, <1>8, SetMade
  <2>4. AnswerIsSound(r)'
    BY <1>2, <2>3, NoAnswerIsSound DEF Becomes
  <2>5. CallsAreListed(run'[r]) /\ Calm(run'[r].calls, run'[r].made)
    BY <2>1, <2>2, <2>3 DEF CallsAreListed, Becomes
  <2> HIDE DEF n
  <2>6. RunIsSound(r)'
    BY <1>1, <1>2, <1>8, <2>3, <2>4, <2>5 DEF RunIsSound, Becomes, Stages
  <2> QED BY <1>1, <1>2, <1>3, <2>3, <2>6, WorkerStep DEF Becomes
<1>9. CASE HandlerReturns(r)
  BY <1>5, <1>6, <1>9 DEF HandlerReturns
<1>10. CASE DrainEnds(r)
  BY <1>4, <1>8, <1>10 DEF DrainEnds
<1>11. CASE WorkerIsKilled(r)
  BY <1>1, <1>11, SetKilled, ThrewKeeps DEF WorkerIsKilled
<1> QED BY <1>7, <1>9, <1>10, <1>11

(* What the caller settles with.                                           *)
LEMMA SettleKeeps ==
  ASSUME RunsInv, NEW r \in RunIds, run[r].stage \notin {"idle", "settled", "recording", "done"},
         NEW outcome, OutcomeIsSound(r, outcome), Succeeded(outcome) => Calm(run[r].calls, run[r].made),
         Settle(r, outcome), UNCHANGED <<cache, ledgerVars>>
  PROVE  RunsInv'
<1> DEFINE x == run[r]
<1>1. RunIsSound(r) /\ RunsAreRecords /\ UNCHANGED ledgerVars /\ cache' = cache
  BY DEF RunsInv
<1>2. recording[r].phase = "none" /\ recording' = recording /\ x.answer.kind = "none"
  BY <1>1 DEF RunIsSound, ledgerVars, recorderVars
<1>3. CacheIsSound'
  BY <1>1 DEF RunsInv, CacheIsSound
<1>4. Becomes(r, "settled", x.request, x.worker, x.startedAt, x.calls, x.looked, x.made, None, outcome, x.answer)
  BY <1>1, SetOutcome DEF Settle
<1>5. AnswerIsSound(r)'
  BY <1>2, <1>4, NoAnswerIsSound DEF Becomes
<1>6. OutcomeIsSound(r, run'[r].outcome) /\ (Succeeded(run'[r].outcome) => Calm(run'[r].calls, run'[r].made))
  BY <1>4 DEF Becomes
<1>7. RunIsSound(r)'
  BY <1>1, <1>2, <1>4, <1>5, <1>6 DEF RunIsSound, CallsAreListed, Becomes, Stages
<1> QED BY <1>1, <1>2, <1>3, <1>4, <1>7, WorkerStep DEF Becomes

LEMMA Failures ==
  ASSUME NEW r, NEW code \in {"plugin_result_invalid", "runtime_unavailable"}
  PROVE  OutcomeIsSound(r, Failure(code)) /\ ~Succeeded(Failure(code))
  BY DEF OutcomeIsSound, Succeeded, Failure, NoOutcome, IsOutcome

LEMMA BudgetFailures ==
  ASSUME NEW r, NEW code \in BudgetCodes
  PROVE  LET o == [NoOutcome EXCEPT !.budget = TRUE, !.code = code] IN
         OutcomeIsSound(r, o) /\ ~Succeeded(o)
  BY DEF OutcomeIsSound, Succeeded, NoOutcome, IsOutcome

LEMMA CallerKeeps ==
  ASSUME RunsInv, NEW r \in RunIds, InvocationThrows(r) \/ ReadResponse(r) \/ TimerFires(r)
  PROVE  RunsInv'
<1> DEFINE x == run[r]
<1>1. RunIsSound(r) /\ UNCHANGED <<cache, ledgerVars>> /\ RunsAreRecords
  BY DEF InvocationThrows, ReadResponse, TimerFires, RunsInv
<1>2. CASE InvocationThrows(r)
  <2>1. x.stage = "threw"
    BY <1>2 DEF InvocationThrows
  <2>2. PICK code \in classifyInvocationError :
          Settle(r, IF code \in BudgetCodes THEN [NoOutcome EXCEPT !.budget = TRUE, !.code = code]
                    ELSE Failure(code))
    BY <1>2 DEF InvocationThrows
  <2>3. CASE code \in BudgetCodes
    <3> DEFINE o == [NoOutcome EXCEPT !.budget = TRUE, !.code = code]
    <3>1. OutcomeIsSound(r, o) /\ ~Succeeded(o)
      BY <2>3, BudgetFailures
    <3>2. Settle(r, o)
      BY <2>2, <2>3
    <3> HIDE DEF o
    <3> QED BY <1>1, <2>1, <3>1, <3>2, SettleKeeps
  <2>4. CASE code \notin BudgetCodes
    <3>1. OutcomeIsSound(r, Failure(code)) /\ ~Succeeded(Failure(code))
      BY <2>4, Failures DEF classifyInvocationError
    <3>2. Settle(r, Failure(code))
      BY <2>2, <2>4
    <3> QED BY <1>1, <2>1, <3>1, <3>2, SettleKeeps
  <2> QED BY <2>3, <2>4
<1>3. CASE ReadResponse(r)
  <2>1. x.stage = "responded" /\ x.response.output = r /\ Calm(x.calls, x.made)
    BY <1>1, <1>3 DEF ReadResponse, RunIsSound
  <2>2. CASE Settle(r, invocationOutcome(r))
    <3> DEFINE v == x.response
               o == [NoOutcome EXCEPT !.value = v]
    <3>1. CASE invocationOutcome(r) = Failure("plugin_result_invalid")
      BY <1>1, <2>1, <2>2, <3>1, Failures, SettleKeeps
    <3>2. CASE invocationOutcome(r) = o
      <4>1. OutcomeIsSound(r, o)
        <5> HIDE DEF v
        <5>1. v.output = r
          BY <2>1 DEF v
        <5> QED BY <5>1 DEF OutcomeIsSound, NoOutcome, IsOutcome, Succeeded
      <4> HIDE DEF o
      <4> QED BY <1>1, <2>1, <2>2, <3>2, <4>1, SettleKeeps
    <3> QED BY <3>1, <3>2 DEF invocationOutcome
  <2>3. CASE run' = [run EXCEPT ![r].stage = "threw", ![r].response = None]
    BY <1>1, <2>1, <2>3, SetResponse, ThrewKeeps
  <2> QED BY <1>3, <2>2, <2>3 DEF ReadResponse
<1>4. CASE TimerFires(r)
  <2> DEFINE o == [NoOutcome EXCEPT !.timedOut = TRUE]
  <2>1. OutcomeIsSound(r, o) /\ ~Succeeded(o)
    BY DEF OutcomeIsSound, Succeeded, NoOutcome, IsOutcome
  <2>2. Settle(r, o) /\ x.stage \in {"fetching", "running", "draining", "responded"}
    BY <1>4 DEF TimerFires
  <2> HIDE DEF o
  <2> QED BY <1>1, <2>1, <2>2, SettleKeeps
<1> QED BY <1>2, <1>3, <1>4

(* Updates of one recording.                                               *)
LEMMA SetRecording ==
  ASSUME RecordingsAreRecords, NEW r \in RunIds, NEW y, IsRecording(y), recording' = [recording EXCEPT ![r] = y]
  PROVE  /\ RecordingsAreRecords' /\ recording'[r] = y
         /\ \A p \in RunIds : p # r => recording'[p] = recording[p]
<1>1. /\ recording'[r] = y /\ recording' = [p \in RunIds |-> recording'[p]]
      /\ \A p \in RunIds : p # r => recording'[p] = recording[p]
  BY DEF RecordingsAreRecords
<1>2. \A p \in RunIds : IsRecording(recording'[p])
  <2> SUFFICES ASSUME NEW p \in RunIds PROVE IsRecording(recording'[p])
    OBVIOUS
  <2>1. CASE p = r
    BY <1>1, <2>1
  <2>2. CASE p # r
    <3>1. recording'[p] = recording[p] /\ IsRecording(recording[p])
      BY <1>1, <2>2 DEF RecordingsAreRecords
    <3> QED BY <3>1
  <2> QED BY <2>1, <2>2
<1>3. RecordingsAreRecords'
  BY <1>1, <1>2 DEF RecordingsAreRecords, IsRecording
<1> QED BY <1>1, <1>3

LEMMA SetRecordingPhase ==
  ASSUME RecordingsAreRecords, NEW r \in RunIds, NEW phase, recording' = [recording EXCEPT ![r].phase = phase]
  PROVE  /\ RecordingsAreRecords' /\ recording'[r].phase = phase /\ recording'[r].row = recording[r].row
         /\ \A p \in RunIds : p # r => recording'[p] = recording[p]
<1> DEFINE x == recording[r]
           y == [x EXCEPT !.phase = phase]
<1>1. recording' = [recording EXCEPT ![r] = y] /\ IsRecording(x)
  BY DEF RecordingsAreRecords
<1> HIDE DEF x
<1>2. IsRecording(y) /\ y.phase = phase /\ y.row = x.row
  BY <1>1 DEF IsRecording
<1> HIDE DEF y
<1> QED BY <1>1, <1>2, SetRecording DEF x

(* What the row says of the outcome.                                       *)
LEMMA OutcomeIsRecorded ==
  ASSUME NEW r, NEW o, OutcomeIsSound(r, o), NEW denied \in BOOLEAN
  PROVE  LET code == invocationFailureCode(o, denied)
             status == executionStatus(o, denied) IN
         /\ Agree(code, status)
         /\ code = None => o.value.output = r
         /\ status = "success" => Succeeded(o)
<1>1. CASE o.timedOut = TRUE
  BY <1>1, NoneIsNoCode DEF invocationFailureCode, executionStatus, Agree, FailureCodes
<1>2. CASE o.timedOut = FALSE /\ o.budget = TRUE /\ o.code \in BudgetCodes
  BY <1>2, NoneIsNoCode DEF invocationFailureCode, executionStatus, Agree, FailureCodes, BudgetCodes
<1>3. CASE /\ o.timedOut = FALSE /\ o.budget = FALSE /\ o.failed = TRUE
           /\ o.code \in {"plugin_result_invalid", "runtime_unavailable"}
  BY <1>3, NoneIsNoCode DEF invocationFailureCode, executionStatus, Agree, FailureCodes, BudgetCodes
<1>4. CASE Succeeded(o) /\ o.value.output = r
  BY <1>4, NoneIsNoCode DEF invocationFailureCode, executionStatus, Agree, FailureCodes, Succeeded
<1> QED BY <1>1, <1>2, <1>3, <1>4 DEF OutcomeIsSound

LEMMA RecordKeeps ==
  ASSUME RunsInv, NEW r \in RunIds, ReadEvidence(r) \/ EvidenceTimerFires(r)
  PROVE  RunsInv'
<1>1. PICK denied \in BOOLEAN : run[r].stage = "settled" /\ RecordRun(r, denied)
  BY DEF ReadEvidence, EvidenceTimerFires
<1> DEFINE x == run[r]
           code == invocationFailureCode(x.outcome, denied)
           status == executionStatus(x.outcome, denied)
           outcome == [x.outcome EXCEPT !.code = code]
<1>2. RunIsSound(r) /\ RunsAreRecords /\ RecordingsAreRecords
  BY DEF RunsInv
<1>3. /\ OutcomeIsSound(r, x.outcome) /\ (Succeeded(x.outcome) => Calm(x.calls, x.made))
      /\ x.answer.kind = "none" /\ x.startedAt \in 0..MaxClock /\ recording[r].phase = "none"
  BY <1>1, <1>2 DEF RunIsSound
<1>4. /\ Agree(code, status) /\ (code = None => x.outcome.value.output = r)
      /\ status = "success" => Calm(x.calls, x.made)
  BY <1>3, OutcomeIsRecorded
<1>5. PICK whole \in Durations :
        recording' = [recording EXCEPT ![r] =
          Recording("writing", ExecutionRow(r, status, code, whole, x.startedAt))]
  BY <1>1 DEF RecordRun
<1> DEFINE row == ExecutionRow(r, status, code, whole, x.startedAt)
<1>6. run' = [run EXCEPT ![r].stage = "recording", ![r].outcome.code = code]
  BY <1>1 DEF RecordRun
<1>7. row.id = r /\ row.status = status /\ row.createdAt = x.startedAt
  BY DEF ExecutionRow
<1>8. outcome.code = code /\ outcome.value = x.outcome.value
  <2> HIDE DEF code
  <2>1. IsOutcome(x.outcome)
    BY <1>3 DEF OutcomeIsSound
  <2> DEFINE o == x.outcome
  <2> HIDE DEF o
  <2>2. IsOutcome(o) => [o EXCEPT !.code = code].code = code /\ [o EXCEPT !.code = code].value = o.value
    BY DEF IsOutcome
  <2> QED BY <2>1, <2>2 DEF o
<1> HIDE DEF code, status, row
<1>9. Becomes(r, "recording", x.request, x.worker, x.startedAt, x.calls, x.looked, x.made, x.response, outcome, x.answer)
  BY <1>2, <1>6, SetCode
<1> DEFINE rec == Recording("writing", row)
<1>10. IsRecording(rec) /\ rec.phase = "writing" /\ rec.row = row
  BY DEF Recording, IsRecording
<1>11. recording' = [recording EXCEPT ![r] = rec]
  BY <1>5 DEF row
<1> HIDE DEF rec, outcome
<1>12. /\ RecordingsAreRecords' /\ recording'[r] = rec
       /\ \A p \in RunIds : p # r => recording'[p] = recording[p]
  BY <1>2, <1>10, <1>11, SetRecording
<1>13. cache' = cache /\ Written' = Written
  BY <1>1 DEF RecordRun, archiveVars, Written, Archived
<1>14. AnswerIsSound(r)'
  BY <1>3, <1>9, NoAnswerIsSound DEF Becomes
<1>15. RunIsSound(r)'
  <2>1. /\ run'[r].stage = "recording" /\ run'[r].answer.kind = "none"
        /\ run'[r].startedAt \in 0..MaxClock /\ IsRequest(run'[r].request)
        /\ run'[r].worker # None => Fits(run'[r].worker, run'[r].request)
        /\ CallsAreListed(run'[r])
    BY <1>1, <1>2, <1>3, <1>9 DEF Becomes, RunIsSound, CallsAreListed
  <2>2. /\ Agree(run'[r].outcome.code, recording'[r].row.status)
        /\ run'[r].outcome.code = None => run'[r].outcome.value.output = r
    BY <1>4, <1>7, <1>8, <1>9, <1>10, <1>12 DEF Becomes
  <2>3. /\ recording'[r].phase = "writing" /\ recording'[r].row.id = r
        /\ recording'[r].row.createdAt \in 0..MaxClock
        /\ recording'[r].row.status = "success" => Calm(run'[r].calls, run'[r].made)
    BY <1>3, <1>4, <1>7, <1>9, <1>10, <1>12 DEF Becomes
  <2> QED BY <1>14, <2>1, <2>2, <2>3 DEF RunIsSound, Stages
<1>16. CacheIsSound'
  BY <1>13 DEF RunsInv, CacheIsSound
<1> QED BY <1>3, <1>9, <1>12, <1>13, <1>15, <1>16, OneRun DEF Becomes

LEMMA AnswerKeeps ==
  ASSUME RunsInv, NEW r \in RunIds, AnswerRun(r)
  PROVE  RunsInv'
<1> DEFINE x == run[r]
           code == x.outcome.code
           a == answerOf(r)
<1>1. /\ RunIsSound(r) /\ RunsAreRecords /\ UNCHANGED <<cache, ledgerVars>>
      /\ x.stage = "recording" /\ recording[r].phase \in {"recorded", "failed"}
  BY DEF AnswerRun, RunsInv
<1>2. recording' = recording /\ Written' = Written
  BY <1>1 DEF ledgerVars, recorderVars, archiveVars, Written, Archived
<1>3. Becomes(r, "done", x.request, x.worker, x.startedAt, x.calls, x.looked, x.made, x.response, NoOutcome, a)
  BY <1>1, SetEnd DEF AnswerRun
<1>4. /\ Agree(code, recording[r].row.status) /\ recording[r].row.id = r
      /\ code = None => x.outcome.value.output = r
      /\ recording[r].phase = "recorded" => recording[r].row \in Written
  BY <1>1 DEF RunIsSound
<1>5. run'[r].answer.kind \in {"value", "error"} /\ AnswerIsSound(r)'
  <2>1. run'[r].answer = a
    BY <1>3 DEF Becomes
  <2>2. CASE recording[r].phase = "failed"
    <3>1. a = Throws("runtime_unavailable")
      BY <2>2 DEF answerOf
    <3> QED BY <2>1, <3>1, OtherErrorIsSound
  <2>3. CASE recording[r].phase # "failed" /\ code = None
    <3>1. a = Answer("value", None, x.outcome.value)
      BY <2>3 DEF answerOf
    <3>2. a.kind = "value" /\ a.value = x.outcome.value
      BY <3>1 DEF Answer
    <3>3. recording[r].row \in Written' /\ recording[r].row.status = "success"
      BY <1>1, <1>2, <1>4, <2>3, NoneIsNoCode DEF Agree, FailureCodes, BudgetCodes
    <3> HIDE DEF a
    <3> QED BY <1>4, <2>1, <2>3, <3>2, <3>3 DEF AnswerIsSound
  <2>4. CASE recording[r].phase # "failed" /\ code # None /\ x.request.hookType = "policy"
    <3>1. a = Answer("value", code, Value("deny", r))
      BY <2>4 DEF answerOf
    <3>2. a.kind = "value" /\ a.code = code /\ a.value.status = "deny" /\ a.value.output = r
      BY <3>1 DEF Answer, Value
    <3> HIDE DEF a
    <3> QED BY <2>1, <2>4, <3>2 DEF AnswerIsSound
  <2>5. CASE recording[r].phase # "failed" /\ code # None /\ x.request.hookType # "policy"
    <3>1. a = Throws(code)
      BY <2>5 DEF answerOf
    <3>2. a.kind = "error" /\ a.code = code
      BY <3>1 DEF Answer, Throws
    <3>3. recording[r].row \in Written'
      BY <1>1, <1>2, <1>4, <2>5
    <3>4. code \in {"egress_denied", "plugin_timeout"} =>
            recording[r].row.status \in {"egress_denied", "timeout"}
      BY <1>4, NoneIsNoCode DEF Agree, FailureCodes, BudgetCodes
    <3> HIDE DEF a
    <3> QED BY <1>4, <2>1, <3>2, <3>3, <3>4 DEF AnswerIsSound
  <2> QED BY <2>2, <2>3, <2>4, <2>5
<1> HIDE DEF a
<1>6. RunIsSound(r)'
  BY <1>1, <1>2, <1>3, <1>5 DEF RunIsSound, CallsAreListed, Becomes, Stages
<1>7. CacheIsSound'
  BY <1>1 DEF RunsInv, CacheIsSound
<1> QED BY <1>1, <1>3, <1>6, <1>7, WorkerStep DEF Becomes

(* The recorder's steps.                                                   *)
LEMMA RecorderKeeps ==
  ASSUME RunsInv, NEW r \in RunIds, UNCHANGED workerVars, WriteExecution(r) \/ MeterExecution(r)
  PROVE  RunsInv'
<1> DEFINE row == recording[r].row
<1>1. RunIsSound(r) /\ RunsAreRecords /\ RecordingsAreRecords /\ run' = run /\ cache' = cache
  BY DEF RunsInv, workerVars
<1>2. PICK phase \in {"metering", "failed", "recorded"} :
         /\ recording' = [recording EXCEPT ![r].phase = phase]
         /\ recording[r].phase \in {"writing", "metering"}
         /\ Written \subseteq Written' /\ Written' \subseteq Written \cup {row}
         /\ phase \in {"metering", "recorded"} => row \in Written'
  <2>1. CASE WriteExecution(r)
    <3>1. archives' = archives /\ recording[r].phase = "writing"
      BY <2>1 DEF WriteExecution, archiveVars
    <3>2. \/ executions' = executions \cup {row} /\ recording' = [recording EXCEPT ![r].phase = "metering"]
          \/ executions' = executions \cup {row} /\ recording' = [recording EXCEPT ![r].phase = "failed"]
          \/ executions' = executions /\ recording' = [recording EXCEPT ![r].phase = "failed"]
      BY <2>1 DEF WriteExecution
    <3> QED BY <3>1, <3>2 DEF Written, Archived
  <2>2. CASE MeterExecution(r)
    <3>1. Written' = Written /\ row \in Written
      BY <1>1, <2>2 DEF MeterExecution, RunIsSound, archiveVars, Written, Archived
    <3> QED BY <2>2, <3>1 DEF MeterExecution
  <2> QED BY <2>1, <2>2
<1>3. /\ RecordingsAreRecords' /\ recording'[r].phase = phase /\ recording'[r].row = row
      /\ \A p \in RunIds : p # r => recording'[p] = recording[p]
  BY <1>1, <1>2, SetRecordingPhase
<1>4. RunsAreRecords' /\ CacheIsSound'
  BY <1>1 DEF RunsInv, RunsAreRecords, IsRun, CacheIsSound
<1>5. AnswerIsSound(r)'
  BY <1>1, <1>2 DEF RunIsSound, AnswerIsSound
<1>6. RunIsSound(r)'
  BY <1>1, <1>2, <1>3, <1>5 DEF RunIsSound
<1>7. ASSUME NEW e \in Written', e = row PROVE RowIsSound(e)'
  <2>1. /\ e.id = r /\ e.createdAt \in 0..MaxClock
        /\ e.status = "success" => Calm(run[r].calls, run[r].made)
    BY <1>1, <1>2, <1>7 DEF RunIsSound
  <2>2. run'[e.id] = run[r] /\ recording'[e.id].phase # "none"
    BY <1>1, <1>2, <1>3, <2>1
  <2> QED BY <2>1, <2>2 DEF RowIsSound
<1> QED BY <1>1, <1>2, <1>3, <1>4, <1>6, <1>7, OneRun

(* Steps of the rest: rows are added, and runs are left as they are.       *)
LEMMA RowsGrow ==
  ASSUME RunsInv, UNCHANGED <<workerVars, recording>>, Written \subseteq Written',
         \A row \in Written' : row \in Written \/ RowIsSound(row)'
  PROVE  RunsInv'
<1>1. run' = run /\ cache' = cache /\ recording' = recording
  BY DEF workerVars
<1>2. RunsAreRecords' /\ RecordingsAreRecords' /\ CacheIsSound'
  BY <1>1 DEF RunsInv, RunsAreRecords, IsRun, RecordingsAreRecords, IsRecording, CacheIsSound
<1>3. ASSUME NEW r \in RunIds PROVE RunIsSound(r)'
  <2>1. RunIsSound(r)
    BY DEF RunsInv
  <2>2. AnswerIsSound(r)'
    BY <1>1, <2>1 DEF RunIsSound, AnswerIsSound
  <2> QED BY <1>1, <2>1, <2>2 DEF RunIsSound
<1>4. ASSUME NEW row \in Written PROVE RowIsSound(row)'
  BY <1>1 DEF RunsInv, RowIsSound
<1> QED BY <1>2, <1>3, <1>4 DEF RunsInv

(* A refused run is recorded as refused.                                   *)
LEMMA RefusalKeeps ==
  ASSUME ArchiveInv, RunsInv, NEW r \in RunIds, RecordRefusal(r)
  PROVE  RunsInv'
<1>1. UNCHANGED <<workerVars, recording>> /\ archives' = archives
  BY DEF RecordRefusal, archiveVars
<1>2. PICK row : row = ExecutionRow(r, "budget_exceeded", "message", TRUE, clock)
  OBVIOUS
<1>3. row.status = "budget_exceeded" /\ row.createdAt = clock
  BY <1>2 DEF ExecutionRow
<1>4. executions' = executions \cup {row} \/ executions' = executions
  BY <1>2 DEF RecordRefusal
<1>5. Written \subseteq Written' /\ Written' \subseteq Written \cup {row}
  BY <1>1, <1>4 DEF Written, Archived
<1>6. RowIsSound(row)'
  BY <1>3 DEF RowIsSound, ArchiveInv
<1> QED BY <1>1, <1>5, <1>6, RowsGrow

LEMMA InitRuns == Init => RunsInv
<1> SUFFICES ASSUME Init PROVE RunsInv
  OBVIOUS
<1>1. /\ run = [r \in RunIds |-> Idle] /\ cache = {} /\ executions = scenario.rows /\ archives = {}
      /\ recording = [r \in RunIds |-> NotRecording] /\ scenario \in Scenarios
  BY DEF Init, LedgerInit, WorkerInit
<1>2. /\ IsRun(Idle) /\ Idle.stage = "idle" /\ Idle.worker = None /\ Idle.startedAt = 0
      /\ Idle.answer = NoAnswer /\ CallsAreListed(Idle)
  BY DEF IsRun, Idle, CallsAreListed, Calm
<1>3. IsRecording(NotRecording) /\ NotRecording.phase = "none" /\ NoAnswer.kind = "none"
  BY DEF IsRecording, NotRecording, Recording, NoAnswer
<1>4. RunsAreRecords /\ RecordingsAreRecords /\ CacheIsSound
  BY <1>1, <1>2, <1>3 DEF RunsAreRecords, RecordingsAreRecords, CacheIsSound
<1>5. ASSUME NEW r \in RunIds PROVE RunIsSound(r)
  <2>1. 0 \in 0..MaxClock
    BY LedgerConstants
  <2> QED BY <1>1, <1>2, <1>3, <2>1 DEF RunIsSound, AnswerIsSound, Stages
<1>6. ASSUME NEW row \in Written PROVE RowIsSound(row)
  <2>1. row \in scenario.rows
    BY <1>1, <1>6 DEF Written, Archived
  <2>2. row.id \notin RunIds /\ row.createdAt \in 0..MaxClock
    BY <1>1, <2>1, ScenariosAreSound
  <2> QED BY <2>2 DEF RowIsSound
<1> QED BY <1>4, <1>5, <1>6 DEF RunsInv

(* The request a planned step makes.                                       *)
LEMMA RequestsAreRecords ==
  ASSUME NEW d, NEW i
  PROVE  IsRequest(RequestOf(d, i))
<1> DEFINE step == dispatch[d].plan.steps[i]
           wanted == scenario.dispatches[d]
           current == CHOOSE row \in Range(installations) : row.id = step.id
<1>1. RequestOf(d, i) =
        [hook |-> wanted.hook, hookType |-> wanted.type, lossless |-> wanted.lossless, asks |-> wanted.asks,
         installation |-> step.id, artifact |-> current.artifact, grantRevision |-> current.grantRevision]
  BY DEF RequestOf
<1> HIDE DEF step, wanted, current
<1> QED BY <1>1 DEF IsRequest

LEMMA NextRuns == ArchiveInv /\ RunsInv /\ [Next]_vars => RunsInv'
<1> SUFFICES ASSUME ArchiveInv, RunsInv, [Next]_vars PROVE RunsInv'
  OBVIOUS
<1>1. CASE UNCHANGED <<ledgerVars, workerVars>>
  <2>1. UNCHANGED <<workerVars, recording>> /\ Written' = Written
    BY <1>1 DEF ledgerVars, recorderVars, archiveVars, Written, Archived
  <2> QED BY <2>1, RowsGrow
<1>2. ASSUME NEW d \in Dispatches, NEW i \in 1..MaxSteps, CheckBudget(d, i) PROVE RunsInv'
  <2> DEFINE r == <<d, i>>
  <2>1. r \in RunIds /\ UNCHANGED ledgerVars
    BY <1>2, HostConstants DEF CheckBudget
  <2>2. UNCHANGED <<run, cache>> \/ BeginRun(r, RequestOf(d, i))
    BY <1>2 DEF CheckBudget
  <2>3. CASE UNCHANGED <<run, cache>>
    <3>1. UNCHANGED <<workerVars, recording>> /\ Written' = Written
      BY <2>1, <2>3 DEF ledgerVars, recorderVars, archiveVars, workerVars, Written, Archived
    <3> QED BY <3>1, RowsGrow
  <2>4. CASE BeginRun(r, RequestOf(d, i))
    <3>1. IsRequest(RequestOf(d, i))
      BY RequestsAreRecords
    <3> QED BY <2>1, <2>4, <3>1, BeginRunKeeps
  <2> QED BY <2>2, <2>3, <2>4
<1>3. ASSUME NEW r \in RunIds, RecordRefusal(r) PROVE RunsInv'
  BY <1>3, RefusalKeeps
<1>4. ASSUME NEW r \in RunIds,
             \/ CountRun(r)
             \/ (RecordInCounter(r) \/ PutCounter(r)) /\ UNCHANGED <<workerVars, hostVars>>
      PROVE  RunsInv'
  <2>1. UNCHANGED <<workerVars, recording>> /\ Written' = Written
    BY <1>4 DEF CountRun, RecordInCounter, PutCounter, recorderVars, archiveVars, Written, Archived
  <2> QED BY <2>1, RowsGrow
<1>5. ASSUME NEW r \in RunIds, RunStep(r) PROVE RunsInv'
  BY <1>5, LoadWorkerKeeps, CallsKeep, ReturnKeeps, CallerKeeps, RecordKeeps, AnswerKeeps, RecorderKeeps
     DEF RunStep
<1>6. CASE ArchiveStep /\ UNCHANGED <<workerVars, hostVars>>
  <2>1. Written' = Written
    <3>1. ASSUME UNCHANGED <<executions, archives>> PROVE Written' = Written
      BY <3>1 DEF Written, Archived
    <3>2. ASSUME NEW j \in Jobs, ReadExpired(j) \/ PutObject(j) \/ CommitArchive(j)
          PROVE  Written' = Written
      BY <3>1, <3>2, CommitKeepsRows DEF ReadExpired, PutObject, recorderVars
    <3>3. CASE \/ \E from, to \in 1..MaxClock : BeginSearch(from, to)
               \/ readHotExecutions \/ readArchiveManifests \/ MergeResults \/ DayPasses
      BY <3>1, <3>3 DEF BeginSearch, readHotExecutions, readArchiveManifests, MergeResults, DayPasses,
                        recorderVars, archiveVars
    <3> QED BY <1>6, <3>2, <3>3 DEF ArchiveStep
  <2>2. UNCHANGED <<workerVars, recording>>
    BY <1>6, ArchiveFrame
  <2> QED BY <2>1, <2>2, RowsGrow
<1>7. ASSUME NEW r \in RunIds,
             \/ RecordRefusal(r) \/ CountRun(r)
             \/ RunStep(r) /\ UNCHANGED hostVars
             \/ (RecordInCounter(r) \/ PutCounter(r)) /\ UNCHANGED <<workerVars, hostVars>>
      PROVE  RunsInv'
  <2>1. CASE RecordRefusal(r)
    BY <1>3, <2>1
  <2>2. CASE CountRun(r)
    BY <1>4, <2>2
  <2>3. CASE RunStep(r)
    BY <1>5, <2>3
  <2>4. CASE (RecordInCounter(r) \/ PutCounter(r)) /\ UNCHANGED <<workerVars, hostVars>>
    BY <1>4, <2>4
  <2> QED BY <1>7, <2>1, <2>2, <2>3, <2>4
<1> QED
  <2>1. CASE UNCHANGED <<ledgerVars, workerVars>>
    BY <1>1, <2>1
  <2>2. CASE \E d \in Dispatches, i \in 1..MaxSteps : CheckBudget(d, i)
    BY <1>2, <2>2
  <2>3. CASE \E r \in RunIds :
               \/ RecordRefusal(r) \/ CountRun(r)
               \/ RunStep(r) /\ UNCHANGED hostVars
               \/ (RecordInCounter(r) \/ PutCounter(r)) /\ UNCHANGED <<workerVars, hostVars>>
    BY <1>7, <2>3, Zenon
  <2>4. CASE ArchiveStep /\ UNCHANGED <<workerVars, hostVars>>
    BY <1>6, <2>4
  <2> QED BY <2>1, <2>2, <2>3, <2>4, NextCases, Zenon

LEMMA RunsAreInvariant == Spec => [](ArchiveInv /\ RunsInv)
<1>1. Init => ArchiveInv /\ RunsInv
  BY InitArchive, InitRuns
<1>2. ArchiveInv /\ RunsInv /\ [Next]_vars => (ArchiveInv /\ RunsInv)'
  BY NextArchive, NextRuns
<1> QED BY <1>1, <1>2, PTL DEF Spec

(* A run executes the artifact, and holds the bindings of the grant        *)
(* revision, its own request names (deriveWorkerId, getCode).              *)
THEOREM WorkersAreTheRequests == Spec => []WorkerIsTheRequests
<1>1. RunsInv => WorkerIsTheRequests
  BY DEF RunsInv, RunIsSound, Fits, WorkerIsTheRequests
<1> QED BY <1>1, RunsAreInvariant, PTL

(* A run answers what was recorded of it, and an execution recorded as a   *)
(* success left no capability call under way or failed unnoticed           *)
(* (createCloudflareDynamicWorkerCaller, the runtime's drain).             *)
THEOREM RunsEndHonestly == Spec => [](AnswerIsRecorded /\ SuccessIsSettled)
<1>1. RunsInv => AnswerIsRecorded
  <2> SUFFICES ASSUME RunsInv, NEW r \in RunIds
               PROVE  LET answer == run[r].answer
                          Row(status) == \E row \in Written : row.id = r /\ row.status = status IN
                      /\ answer.kind = "value" /\ answer.code = None => Row("success")
                      /\ answer.kind = "value" /\ answer.value.status # "deny" => Row("success")
                      /\ answer.kind = "error" /\ answer.code \in {"egress_denied", "plugin_timeout"} =>
                           \E status \in {"egress_denied", "timeout"} : Row(status)
    BY DEF AnswerIsRecorded
  <2>1. AnswerIsSound(r)
    BY DEF RunsInv, RunIsSound
  <2> QED BY <2>1 DEF AnswerIsSound
<1>2. RunsInv => SuccessIsSettled
  BY DEF RunsInv, RowIsSound, SuccessIsSettled, Calm
<1> QED BY <1>1, <1>2, RunsAreInvariant, PTL

-----------------------------------------------------------------------------
(* The archive and a search.                                               *)
LEMMA Smallest ==
  ASSUME NEW T \in SUBSET Nat, T # {}
  PROVE  \E t \in T : \A u \in T : t <= u
<1> DEFINE R == {ss \in Nat \X Nat : ss[1] < ss[2]}
<1>1. IsWellFoundedOn(R, Nat)
  BY NatLessThanWellFounded DEF OpToRel
<1> HIDE DEF R
<1>2. \E t \in T : \A u \in T : ~(<<u, t>> \in R)
  BY <1>1, WFMin
<1>3. PICK t \in T : \A u \in T : ~(<<u, t>> \in R)
  BY <1>2
<1>4. \A u \in T : t <= u
  <2> SUFFICES ASSUME NEW u \in T PROVE t <= u
    OBVIOUS
  <2>1. u \in Nat /\ t \in Nat /\ <<u, t>> \notin R
    BY <1>3
  <2> QED BY <2>1 DEF R
<1> QED BY <1>4

LEMMA Largest ==
  ASSUME NEW N \in Nat, NEW T \in SUBSET (0..N), T # {}
  PROVE  \E t \in T : \A u \in T : u <= t
<1> DEFINE M == {N - t : t \in T}
<1>1. M \in SUBSET Nat /\ M # {}
  <2>1. ASSUME NEW t \in T PROVE N - t \in Nat
    <3>1. t \in 0..N
      OBVIOUS
    <3> QED BY <3>1
  <2> QED BY <2>1
<1>2. PICK m \in M : \A n \in M : m <= n
  <2> HIDE DEF M
  <2> QED BY <1>1, Smallest
<1>3. PICK t \in T : m = N - t
  OBVIOUS
<1>4. \A u \in T : u <= t
  <2> SUFFICES ASSUME NEW u \in T PROVE u <= t
    OBVIOUS
  <2>1. N - t <= N - u
    BY <1>2, <1>3
  <2>2. u \in 0..N /\ t \in 0..N
    OBVIOUS
  <2> QED BY <2>1, <2>2
<1> QED BY <1>4

(* The times of an execution the ledger holds.                             *)
InTime(e) == e.createdAt \in 0..MaxClock

(* A manifest spans the rows of its object.                                *)
Spans(manifest) ==
  /\ manifest.from \in 0..MaxClock /\ manifest.to \in 0..MaxClock
  /\ \A e \in manifest.object : InTime(e) /\ manifest.from <= e.createdAt /\ e.createdAt <= manifest.to

LEMMA ManifestSpans ==
  ASSUME NEW batch, batch # {}, \A e \in batch : InTime(e)
  PROVE  Spans(Manifest(batch)) /\ Manifest(batch).object = batch
<1> DEFINE T == Times(batch)
           m == Manifest(batch)
<1>1. T \in SUBSET (0..MaxClock) /\ T # {}
  BY DEF Times, InTime
<1>2. \A e \in batch : e.createdAt \in T
  BY DEF Times
<1>3. MaxClock \in Nat
  BY LedgerConstants
<1>4. /\ m.object = batch /\ m.from = (CHOOSE t \in T : \A u \in T : t <= u)
      /\ m.to = (CHOOSE t \in T : \A u \in T : u <= t)
  BY DEF Manifest
<1> HIDE DEF T, m
<1>5. \E t \in T : \A u \in T : t <= u
  BY <1>1, Smallest
<1>6. \E t \in T : \A u \in T : u <= t
  BY <1>1, <1>3, Largest
<1>7. m.from \in T /\ \A u \in T : m.from <= u
  BY <1>4, <1>5
<1>8. m.to \in T /\ \A u \in T : u <= m.to
  BY <1>4, <1>6
<1>9. Spans(m)
  BY <1>1, <1>2, <1>4, <1>7, <1>8 DEF Spans, InTime
<1> QED BY <1>4, <1>9 DEF m

(* Where an execution that was due is while the search reads: a manifest   *)
(* it read, or has yet to read, names its object, or it was a hot row when *)
(* the hot rows were read, or is one still.                                *)
IsManifested(e) ==
  IF search.manifests = None THEN \E m \in archives : e \in m.object
  ELSE \E m \in search.manifests.found : e \in m.object
IsHot(e) == IF search.hot = None THEN e \in executions ELSE e \in search.hot.rows

SearchIsSound ==
  /\ IsSearch(search) /\ search.phase \in {"none", "reading", "answered", "failed"}
  /\ search.phase = "reading" =>
       /\ search.from \in 1..MaxClock /\ search.to \in 1..MaxClock
       /\ \A e \in search.due : /\ InTime(e) /\ search.from <= e.createdAt /\ e.createdAt <= search.to
                                /\ e \in search.moved \/ IsManifested(e) \/ IsHot(e)
  /\ search.phase = "answered" => search.due \subseteq search.result \cup search.moved

BatchesAreSound ==
  /\ \A j \in Jobs : job[j].phase \in {"putting", "committing"} => job[j].batch # {}
  /\ \A manifest \in archives : Spans(manifest)

SearchInv == SearchIsSound /\ BatchesAreSound

(* A step that leaves the archive as it is, and drops no row.              *)
LEMMA SearchIsLeft ==
  ASSUME SearchInv, UNCHANGED <<archives, job, search>>, executions \subseteq executions'
  PROVE  SearchInv'
<1>1. BatchesAreSound'
  BY DEF SearchInv, BatchesAreSound
<1>2. \A e : (IsManifested(e) => IsManifested(e)') /\ (IsHot(e) => IsHot(e)')
  BY DEF IsManifested, IsHot
<1>3. SearchIsSound'
  BY <1>2 DEF SearchInv, SearchIsSound, IsSearch
<1> QED BY <1>1, <1>3 DEF SearchInv

(* The jobs of the archive.                                                *)
LEMMA JobsKeepSearch ==
  ASSUME ArchiveInv, RunsInv, SearchInv, NEW j \in Jobs, ReadExpired(j) \/ PutObject(j)
  PROVE  SearchInv'
<1>1. UNCHANGED <<executions, archives, search>>
  BY DEF ReadExpired, PutObject, recorderVars
<1>2. PICK phase, batch : SetJob(j, phase, batch) /\ (phase \in {"putting", "committing"} => batch # {})
  <2>1. CASE ReadExpired(j)
    BY <2>1 DEF ReadExpired
  <2>2. CASE PutObject(j)
    <3>1. job[j].batch # {}
      BY <2>2 DEF PutObject, SearchInv, BatchesAreSound
    <3> QED BY <2>2, <3>1 DEF PutObject
  <2> QED BY <2>1, <2>2
<1>3. /\ job'[j].phase = phase /\ job'[j].batch = batch
      /\ \A i \in Jobs : i # j => job'[i] = job[i]
  BY <1>2, SetJobEffect DEF ArchiveInv, JobsAreSound
<1>4. BatchesAreSound'
  BY <1>1, <1>2, <1>3 DEF SearchInv, BatchesAreSound
<1>5. \A e : (IsManifested(e) => IsManifested(e)') /\ (IsHot(e) => IsHot(e)')
  BY <1>1 DEF IsManifested, IsHot
<1>6. SearchIsSound'
  BY <1>1, <1>5 DEF SearchInv, SearchIsSound, IsSearch
<1> QED BY <1>4, <1>6 DEF SearchInv

LEMMA CommitKeepsSearch ==
  ASSUME ArchiveInv, RunsInv, SearchInv, NEW j \in Jobs, CommitArchive(j)
  PROVE  SearchInv'
<1> DEFINE batch == job[j].batch
           m == Manifest(batch)
<1>1. batch # {} /\ \A e \in batch : InTime(e)
  <2>1. job[j].phase = "committing"
    BY DEF CommitArchive
  <2>2. batch \subseteq Written
    BY DEF ArchiveInv, JobsAreSound
  <2> QED BY <2>1, <2>2 DEF SearchInv, BatchesAreSound, RunsInv, RowIsSound, InTime
<1>2. Spans(m) /\ m.object = batch
  BY <1>1, ManifestSpans
<1>3. \E phase \in {"archived", "failed"} : SetJob(j, phase, {})
  BY DEF CommitArchive
<1>4. \A i \in Jobs : job'[i].phase \in {"archived", "failed"} \/ job'[i] = job[i]
  BY <1>3, SetJobEffect DEF ArchiveInv, JobsAreSound
<1>5. \/ /\ archives' = archives \cup {m} /\ executions' = executions \ batch
         /\ search' = [search EXCEPT !.moved = @ \cup batch]
      \/ UNCHANGED <<archives, executions, search>>
  BY DEF CommitArchive
<1> HIDE DEF m
<1>6. BatchesAreSound'
  BY <1>2, <1>4, <1>5 DEF SearchInv, BatchesAreSound
<1>7. IsSearch(search)
  BY DEF SearchInv, SearchIsSound
<1>8. CASE /\ archives' = archives \cup {m} /\ executions' = executions \ batch
           /\ search' = [search EXCEPT !.moved = @ \cup batch]
  <2> HIDE DEF batch
  <2>1. /\ IsSearch(search') /\ search'.phase = search.phase /\ search'.from = search.from
        /\ search'.to = search.to /\ search'.hot = search.hot /\ search'.manifests = search.manifests
        /\ search'.result = search.result /\ search'.due = search.due
        /\ search'.moved = search.moved \cup batch
    BY <1>7, <1>8 DEF IsSearch
  <2>2. \A e : IsManifested(e) => IsManifested(e)'
    BY <1>8, <2>1 DEF IsManifested
  <2>3. \A e : IsHot(e) => IsHot(e)' \/ e \in search'.moved
    BY <1>8, <2>1 DEF IsHot
  <2>4. SearchIsSound'
    <3>1. IsSearch(search)'
      BY <2>1 DEF IsSearch
    <3> QED BY <2>1, <2>2, <2>3, <3>1 DEF SearchInv, SearchIsSound
  <2> QED BY <1>6, <2>4 DEF SearchInv
<1>9. CASE UNCHANGED <<archives, executions, search>>
  <2>1. \A e : (IsManifested(e) => IsManifested(e)') /\ (IsHot(e) => IsHot(e)')
    BY <1>9 DEF IsManifested, IsHot
  <2>2. SearchIsSound'
    BY <1>9, <2>1 DEF SearchInv, SearchIsSound, IsSearch
  <2> QED BY <1>6, <2>2 DEF SearchInv
<1> QED BY <1>5, <1>8, <1>9

LEMMA BeginSearchIsSound ==
  ASSUME RunsInv, SearchInv, NEW from \in 1..MaxClock, NEW to \in 1..MaxClock, BeginSearch(from, to)
  PROVE  SearchInv'
<1> DEFINE due == {e \in Written : from <= e.createdAt /\ e.createdAt <= to}
<1>1. /\ IsSearch(NoSearch) /\ NoSearch.hot = None /\ NoSearch.manifests = None
      /\ search' = [NoSearch EXCEPT !.phase = "reading", !.from = from, !.to = to, !.due = due]
      /\ UNCHANGED <<executions, archives, job>>
  BY DEF IsSearch, NoSearch, BeginSearch, Written, recorderVars
<1>2. \A e \in due : InTime(e) /\ from <= e.createdAt /\ e.createdAt <= to
  BY DEF RunsInv, RowIsSound, InTime
<1>3. \A e \in due : e \in executions \/ \E m \in archives : e \in m.object
  BY DEF Written, Archived
<1> HIDE DEF due
<1>4. /\ IsSearch(search') /\ search'.phase = "reading" /\ search'.from = from /\ search'.to = to
      /\ search'.hot = None /\ search'.manifests = None /\ search'.due = due
  BY <1>1 DEF IsSearch
<1>5. \A e \in due : IsManifested(e)' \/ IsHot(e)'
  BY <1>1, <1>3, <1>4 DEF IsManifested, IsHot
<1>6. SearchIsSound'
  <2>1. IsSearch(search)'
    BY <1>4 DEF IsSearch
  <2> QED BY <1>2, <1>4, <1>5, <2>1 DEF SearchIsSound
<1>7. BatchesAreSound'
  BY <1>1 DEF SearchInv, BatchesAreSound
<1> QED BY <1>6, <1>7 DEF SearchInv

LEMMA HotRowsAreRead ==
  ASSUME SearchInv, readHotExecutions
  PROVE  SearchInv'
<1> DEFINE hot == [rows |-> matchesQuery(executions)]
<1>1. /\ IsSearch(search) /\ search.phase = "reading" /\ search.hot = None
      /\ search' = [search EXCEPT !.hot = hot] /\ UNCHANGED <<executions, archives, job>>
  BY DEF readHotExecutions, SearchInv, SearchIsSound, recorderVars
<1>2. hot.rows = {e \in executions : search.from <= e.createdAt /\ e.createdAt <= search.to}
  BY DEF matchesQuery
<1> HIDE DEF hot
<1>3. /\ IsSearch(search') /\ search'.phase = "reading" /\ search'.from = search.from /\ search'.to = search.to
      /\ search'.hot = hot /\ search'.manifests = search.manifests /\ search'.due = search.due
      /\ search'.moved = search.moved
  BY <1>1 DEF IsSearch
<1>4. \A e \in search.due : /\ IsManifested(e) => IsManifested(e)'
                            /\ IsHot(e) => IsHot(e)'
  <2> SUFFICES ASSUME NEW e \in search.due
               PROVE  (IsManifested(e) => IsManifested(e)') /\ (IsHot(e) => IsHot(e)')
    OBVIOUS
  <2>1. search.from <= e.createdAt /\ e.createdAt <= search.to
    BY <1>1 DEF SearchInv, SearchIsSound
  <2> QED BY <1>1, <1>2, <1>3, <2>1 DEF IsManifested, IsHot
<1>5. SearchIsSound'
  <2>1. IsSearch(search)'
    BY <1>3 DEF IsSearch
  <2> QED BY <1>1, <1>3, <1>4, <2>1 DEF SearchInv, SearchIsSound
<1>6. BatchesAreSound'
  BY <1>1 DEF SearchInv, BatchesAreSound
<1> QED BY <1>5, <1>6 DEF SearchInv

LEMMA ManifestsAreRead ==
  ASSUME SearchInv, readArchiveManifests
  PROVE  SearchInv'
<1> DEFINE manifests == [found |-> {m \in archives : Overlaps(m)}]
<1>1. /\ IsSearch(search) /\ search.phase = "reading" /\ search.manifests = None
      /\ search' = [search EXCEPT !.manifests = manifests] /\ UNCHANGED <<executions, archives, job>>
  BY DEF readArchiveManifests, SearchInv, SearchIsSound, recorderVars
<1>2. manifests.found = {m \in archives : Overlaps(m)}
  OBVIOUS
<1> HIDE DEF manifests
<1>3. /\ IsSearch(search') /\ search'.phase = "reading" /\ search'.from = search.from /\ search'.to = search.to
      /\ search'.hot = search.hot /\ search'.manifests = manifests /\ search'.due = search.due
      /\ search'.moved = search.moved
  BY <1>1 DEF IsSearch
<1>4. \A e \in search.due : /\ IsManifested(e) => IsManifested(e)'
                            /\ IsHot(e) => IsHot(e)'
  <2> SUFFICES ASSUME NEW e \in search.due
               PROVE  (IsManifested(e) => IsManifested(e)') /\ (IsHot(e) => IsHot(e)')
    OBVIOUS
  <2>1. /\ search.from <= e.createdAt /\ e.createdAt <= search.to
        /\ search.from \in Nat /\ search.to \in Nat
    BY <1>1, LedgerConstants DEF SearchInv, SearchIsSound
  <2>2. ASSUME NEW m \in archives, e \in m.object PROVE m \in manifests.found
    <3>1. Spans(m)
      BY DEF SearchInv, BatchesAreSound
    <3>2. /\ m.from \in Nat /\ m.to \in Nat /\ e.createdAt \in Nat
          /\ m.from <= e.createdAt /\ e.createdAt <= m.to
      BY <2>2, <3>1, LedgerConstants DEF Spans, InTime
    <3>3. Overlaps(m)
      BY <2>1, <3>2 DEF Overlaps
    <3> QED BY <1>2, <3>3
  <2> QED BY <1>1, <1>3, <2>2 DEF IsManifested, IsHot
<1>5. SearchIsSound'
  <2>1. IsSearch(search)'
    BY <1>3 DEF IsSearch
  <2> QED BY <1>1, <1>3, <1>4, <2>1 DEF SearchInv, SearchIsSound
<1>6. BatchesAreSound'
  BY <1>1 DEF SearchInv, BatchesAreSound
<1> QED BY <1>5, <1>6 DEF SearchInv

LEMMA MergeIsSound ==
  ASSUME SearchInv, MergeResults
  PROVE  SearchInv'
<1> DEFINE found == search.manifests.found
           result == search.hot.rows \cup matchesQuery(UNION {m.object : m \in found})
<1>1. /\ IsSearch(search) /\ search.phase = "reading" /\ search.hot # None /\ search.manifests # None
      /\ \/ search' = [search EXCEPT !.phase = "answered", !.result = result]
         \/ search' = [search EXCEPT !.phase = "failed"]
      /\ UNCHANGED <<archives, job>>
  BY DEF MergeResults, SearchInv, SearchIsSound
<1>2. ASSUME NEW e \in search.due PROVE e \in result \cup search.moved
  <2>1. /\ search.from <= e.createdAt /\ e.createdAt <= search.to
        /\ e \in search.moved \/ IsManifested(e) \/ IsHot(e)
    BY <1>1 DEF SearchInv, SearchIsSound
  <2>2. CASE IsManifested(e)
    BY <1>1, <2>1, <2>2 DEF IsManifested, matchesQuery
  <2>3. CASE IsHot(e)
    BY <1>1, <2>3 DEF IsHot
  <2> QED BY <2>1, <2>2, <2>3
<1> HIDE DEF result
<1>3. /\ IsSearch(search') /\ search'.phase \in {"answered", "failed"}
      /\ search'.due = search.due /\ search'.moved = search.moved
      /\ search'.phase = "answered" => search'.result = result
  BY <1>1 DEF IsSearch
<1>4. SearchIsSound'
  <2>1. IsSearch(search)'
    BY <1>3 DEF IsSearch
  <2> QED BY <1>2, <1>3, <2>1 DEF SearchIsSound
<1>5. BatchesAreSound'
  BY <1>1 DEF SearchInv, BatchesAreSound
<1> QED BY <1>4, <1>5 DEF SearchInv

LEMMA InitSearch == Init => SearchInv
  BY DEF Init, LedgerInit, SearchInv, SearchIsSound, BatchesAreSound, NoSearch, IsSearch

LEMMA NextSearch == ArchiveInv /\ RunsInv /\ SearchInv /\ [Next]_vars => SearchInv'
<1> SUFFICES ASSUME ArchiveInv, RunsInv, SearchInv, [Next]_vars PROVE SearchInv'
  OBVIOUS
<1>1. CASE UNCHANGED <<ledgerVars, workerVars>>
  BY <1>1, SearchIsLeft DEF ledgerVars, recorderVars, archiveVars
<1>2. ASSUME NEW d \in Dispatches, NEW i \in 1..MaxSteps, CheckBudget(d, i) PROVE SearchInv'
  BY <1>2, SearchIsLeft DEF CheckBudget, ledgerVars, recorderVars, archiveVars
<1>3. ASSUME NEW r \in RunIds,
             \/ RecordRefusal(r) \/ CountRun(r)
             \/ RunStep(r) /\ UNCHANGED hostVars
             \/ (RecordInCounter(r) \/ PutCounter(r)) /\ UNCHANGED <<workerVars, hostVars>>
      PROVE  SearchInv'
  <2>1. CASE RecordRefusal(r)
    BY <2>1, SearchIsLeft DEF RecordRefusal, archiveVars
  <2>2. CASE CountRun(r) \/ RecordInCounter(r) \/ PutCounter(r)
    BY <2>2, SearchIsLeft DEF CountRun, RecordInCounter, PutCounter, recorderVars, archiveVars
  <2>3. CASE RunStep(r)
    <3>1. UNCHANGED archiveVars /\ executions \subseteq executions'
      BY <2>3, RunFrame
    <3> QED BY <3>1, SearchIsLeft DEF archiveVars
  <2> QED BY <1>3, <2>1, <2>2, <2>3
<1>4. CASE ArchiveStep
  <2>1. ASSUME NEW j \in Jobs, ReadExpired(j) \/ PutObject(j) \/ CommitArchive(j) PROVE SearchInv'
    BY <2>1, JobsKeepSearch, CommitKeepsSearch
  <2>2. ASSUME NEW from \in 1..MaxClock, NEW to \in 1..MaxClock, BeginSearch(from, to) PROVE SearchInv'
    BY <2>2, BeginSearchIsSound
  <2>3. CASE readHotExecutions \/ readArchiveManifests \/ MergeResults
    BY <2>3, HotRowsAreRead, ManifestsAreRead, MergeIsSound
  <2>4. CASE DayPasses
    BY <2>4, SearchIsLeft DEF DayPasses, recorderVars, archiveVars
  <2> QED BY <1>4, <2>1, <2>2, <2>3, <2>4 DEF ArchiveStep
<1> QED
  <2>1. CASE \E d \in Dispatches, i \in 1..MaxSteps : CheckBudget(d, i)
    BY <1>2, <2>1
  <2>2. CASE \E r \in RunIds :
               \/ RecordRefusal(r) \/ CountRun(r)
               \/ RunStep(r) /\ UNCHANGED hostVars
               \/ (RecordInCounter(r) \/ PutCounter(r)) /\ UNCHANGED <<workerVars, hostVars>>
    BY <1>3, <2>2, Zenon
  <2>3. CASE ArchiveStep /\ UNCHANGED <<workerVars, hostVars>>
    BY <1>4, <2>3
  <2> QED BY <1>1, <2>1, <2>2, <2>3, NextCases, Zenon

(* Every execution that was written stays findable, and a search that      *)
(* answers returns what was due, but what a job archived between its two   *)
(* queries (archiveExpired, search).                                       *)
THEOREM ExecutionsAreKept == Spec => []NoExecutionIsLost
<1>1. Init => ArchiveInv /\ RunsInv /\ SearchInv
  BY InitArchive, InitRuns, InitSearch
<1>2. ArchiveInv /\ RunsInv /\ SearchInv /\ [Next]_vars => (ArchiveInv /\ RunsInv /\ SearchInv)'
  BY NextArchive, NextRuns, NextSearch
<1>3. ArchiveInv /\ RunsInv /\ SearchInv => NoExecutionIsLost
  <2> SUFFICES ASSUME ArchiveInv, RunsInv, SearchInv PROVE NoExecutionIsLost
    OBVIOUS
  <2>1. \A r \in RunIds : recording[r].phase \in {"metering", "recorded"} => recording[r].row \in Written
    BY DEF RunsInv, RunIsSound
  <2> QED BY <2>1 DEF ArchiveInv, ManifestsAreSound, SearchInv, SearchIsSound, NoExecutionIsLost
<1> QED BY <1>1, <1>2, <1>3, PTL DEF Spec

-----------------------------------------------------------------------------
(* What is counted.                                                        *)
LEMMA SetCounting ==
  ASSUME CountingsAreRecords, NEW r \in RunIds, NEW y, IsCounting(y), counting' = [counting EXCEPT ![r] = y]
  PROVE  /\ CountingsAreRecords' /\ counting'[r] = y
         /\ \A p \in RunIds : p # r => counting'[p] = counting[p]
<1>1. /\ counting'[r] = y /\ counting' = [p \in RunIds |-> counting'[p]]
      /\ \A p \in RunIds : p # r => counting'[p] = counting[p]
  BY DEF CountingsAreRecords
<1>2. \A p \in RunIds : IsCounting(counting'[p])
  <2> SUFFICES ASSUME NEW p \in RunIds PROVE IsCounting(counting'[p])
    OBVIOUS
  <2>1. CASE p = r
    BY <1>1, <2>1
  <2>2. CASE p # r
    <3>1. counting'[p] = counting[p] /\ IsCounting(counting[p])
      BY <1>1, <2>2 DEF CountingsAreRecords
    <3> QED BY <3>1
  <2> QED BY <2>1, <2>2
<1>3. CountingsAreRecords'
  BY <1>1, <1>2 DEF CountingsAreRecords, IsCounting
<1> QED BY <1>1, <1>3

LEMMA SetCountingPhase ==
  ASSUME CountingsAreRecords, NEW r \in RunIds, NEW phase, counting' = [counting EXCEPT ![r].phase = phase]
  PROVE  /\ CountingsAreRecords' /\ counting'[r].phase = phase
         /\ \A p \in RunIds : p # r => counting'[p] = counting[p]
<1> DEFINE x == counting[r]
           y == [x EXCEPT !.phase = phase]
<1>1. counting' = [counting EXCEPT ![r] = y] /\ IsCounting(x)
  BY DEF CountingsAreRecords
<1> HIDE DEF x
<1>2. IsCounting(y) /\ y.phase = phase
  BY <1>1 DEF IsCounting
<1> HIDE DEF y
<1> QED BY <1>1, <1>2, SetCounting

Counted == {r \in RunIds : counting[r].phase = "counted"}

(* The run that has read the counter holds its lock, and what it read is   *)
(* still there.                                                            *)
LockIsHeld ==
  \A r \in RunIds : counting[r].phase = "read" =>
    lockQueue # <<>> /\ lockQueue[1] = r /\ counting[r].usage = counter

(* A run past the check has room under the budget until it is counted: the *)
(* most that were past it at one time bounds what the counter can reach.   *)
CounterInv ==
  /\ CountingsAreRecords /\ gate = [r \in RunIds |-> gate[r]]
  /\ counter \in Nat /\ lockQueue \in Seq(RunIds) /\ concurrent \in 0..Cardinality(RunIds)
  /\ \A r \in RunIds :
       /\ gate[r] \in {"none", "admitted", "disabling", "recording", "refused", "threw"}
       /\ counting[r].phase \in {"none", "queued", "read", "counted", "failed"}
       /\ counting[r].phase # "none" => gate[r] = "admitted" /\ scenario.budgeted
  /\ LockIsHeld
  /\ scenario.budgeted => counter + Cardinality(InFlight) <= DailyBudget - 1 + concurrent
  /\ ~scenario.budgeted => counter = 0
  /\ counter >= Cardinality(Counted)

LEMMA FiniteRuns ==
  ASSUME NEW S \in SUBSET RunIds
  PROVE  IsFiniteSet(S) /\ Cardinality(S) \in Nat /\ Cardinality(S) <= Cardinality(RunIds)
  BY LedgerConstants, FS_Subset, FS_CardinalityType

(* A run that joins those past the check, or leaves them.                  *)
LEMMA InFlightGrows ==
  ASSUME NEW r \in RunIds, r \notin InFlight, InFlight' = InFlight \cup {r}
  PROVE  /\ Cardinality(InFlight)' = Cardinality(InFlight) + 1
         /\ Cardinality(InFlight) \in Nat /\ Cardinality(InFlight) + 1 <= Cardinality(RunIds)
<1>1. InFlight \in SUBSET RunIds /\ InFlight \cup {r} \in SUBSET RunIds
  BY DEF InFlight
<1> HIDE DEF InFlight
<1>2. Cardinality(InFlight \cup {r}) = Cardinality(InFlight) + 1
  BY <1>1, FiniteRuns, FS_AddElement
<1>3. Cardinality(InFlight \cup {r}) <= Cardinality(RunIds) /\ Cardinality(InFlight) \in Nat
  BY <1>1, FiniteRuns
<1> QED BY <1>2, <1>3

LEMMA InFlightShrinks ==
  ASSUME NEW r \in RunIds, r \in InFlight, InFlight' = InFlight \ {r}
  PROVE  Cardinality(InFlight)' = Cardinality(InFlight) - 1 /\ Cardinality(InFlight) \in Nat \ {0}
<1>1. InFlight \in SUBSET RunIds
  BY DEF InFlight
<1> HIDE DEF InFlight
<1>2. IsFiniteSet(InFlight) /\ Cardinality(InFlight) \in Nat
  BY <1>1, FiniteRuns
<1>3. Cardinality(InFlight \ {r}) = Cardinality(InFlight) - 1
  BY <1>2, FS_RemoveElement
<1>4. Cardinality(InFlight) # 0
  BY <1>2, FS_EmptySet
<1> QED BY <1>2, <1>3, <1>4

LEMMA CounterIsLeft ==
  ASSUME CounterInv, UNCHANGED <<counter, lockQueue, counting, gate, scenario, concurrent>>
  PROVE  CounterInv'
<1>1. InFlight' = InFlight /\ Counted' = Counted
  BY DEF InFlight, Counted
<1>2. CountingsAreRecords' /\ LockIsHeld'
  BY DEF CounterInv, CountingsAreRecords, IsCounting, LockIsHeld
<1> QED BY <1>1, <1>2 DEF CounterInv

(* The gate of a run that is refused, or was.                              *)
LEMMA RefusedGate ==
  ASSUME CounterInv, UNCHANGED <<counter, lockQueue, counting, scenario, concurrent>>,
         NEW r \in RunIds, gate[r] # "admitted",
         NEW phase \in {"disabling", "recording", "refused", "threw"}, gate' = [gate EXCEPT ![r] = phase]
  PROVE  CounterInv'
<1>1. /\ gate' = [p \in RunIds |-> gate'[p]] /\ gate'[r] = phase
      /\ \A p \in RunIds : p # r => gate'[p] = gate[p]
  BY DEF CounterInv
<1>2. InFlight' = InFlight /\ Counted' = Counted
  BY <1>1 DEF InFlight, Counted
<1>3. CountingsAreRecords' /\ LockIsHeld'
  BY DEF CounterInv, CountingsAreRecords, IsCounting, LockIsHeld
<1>4. \A p \in RunIds :
        /\ gate'[p] \in {"none", "admitted", "disabling", "recording", "refused", "threw"}
        /\ counting[p].phase # "none" => gate'[p] = "admitted"
  BY <1>1 DEF CounterInv
<1> QED BY <1>1, <1>2, <1>3, <1>4 DEF CounterInv

LEMMA CheckKeepsCounter ==
  ASSUME CounterInv, NEW d \in Dispatches, NEW i \in 1..MaxSteps, CheckBudget(d, i)
  PROVE  CounterInv'
<1> DEFINE r == <<d, i>>
<1>1. r \in RunIds /\ gate[r] = "none" /\ UNCHANGED <<counter, lockQueue, counting, scenario>>
  BY HostConstants DEF CheckBudget, ledgerVars, counterVars
<1>2. counting[r].phase = "none" /\ r \notin InFlight
  BY <1>1 DEF CounterInv, InFlight
<1>3. CASE gate' = [gate EXCEPT ![r] = "disabling"] /\ UNCHANGED concurrent
  BY <1>1, <1>3, RefusedGate
<1>4. CASE /\ ~(scenario.budgeted /\ isBudgetExceeded(counter))
           /\ gate' = [gate EXCEPT ![r] = "admitted"]
           /\ concurrent' = AtLeast(concurrent, Cardinality(InFlight) + 1)
  <2> HIDE DEF r
  <2>1. /\ gate' = [p \in RunIds |-> gate'[p]] /\ gate'[r] = "admitted"
        /\ \A p \in RunIds : p # r => gate'[p] = gate[p]
    BY <1>1, <1>4 DEF CounterInv
  <2>2. InFlight' = InFlight \cup {r} /\ Counted' = Counted
    BY <1>1, <1>2, <2>1 DEF InFlight, Counted
  <2>3. /\ Cardinality(InFlight)' = Cardinality(InFlight) + 1
        /\ Cardinality(InFlight) \in Nat /\ Cardinality(InFlight) + 1 <= Cardinality(RunIds)
    BY <1>1, <1>2, <2>2, InFlightGrows
  <2>4. /\ concurrent' \in 0..Cardinality(RunIds)
        /\ concurrent' >= Cardinality(InFlight) + 1
    <3>1. concurrent \in 0..Cardinality(RunIds) /\ Cardinality(RunIds) \in Nat
      BY FiniteRuns DEF CounterInv
    <3> QED BY <1>4, <2>3, <3>1 DEF AtLeast
  <2>5. scenario.budgeted => counter + Cardinality(InFlight)' <= DailyBudget - 1 + concurrent'
    <3> SUFFICES ASSUME scenario.budgeted PROVE counter + Cardinality(InFlight)' <= DailyBudget - 1 + concurrent'
      OBVIOUS
    <3>1. counter < DailyBudget /\ counter \in Nat /\ DailyBudget \in Nat
      BY <1>4, HostConstants DEF isBudgetExceeded, CounterInv
    <3> HIDE DEF InFlight
    <3> QED BY <2>3, <2>4, <3>1
  <2>6. CountingsAreRecords' /\ LockIsHeld'
    BY <1>1 DEF CounterInv, CountingsAreRecords, IsCounting, LockIsHeld
  <2> QED BY <1>1, <1>2, <2>1, <2>2, <2>4, <2>5, <2>6 DEF CounterInv
<1> QED BY <1>3, <1>4 DEF CheckBudget

LEMMA CountRunKeeps ==
  ASSUME CounterInv, NEW r \in RunIds, CountRun(r)
  PROVE  CounterInv'
<1>1. /\ scenario.budgeted /\ gate[r] = "admitted" /\ counting[r].phase = "none"
      /\ counting' = [counting EXCEPT ![r].phase = "queued"] /\ lockQueue' = Append(lockQueue, r)
      /\ UNCHANGED <<counter, gate, scenario, concurrent>>
  BY DEF CountRun, hostVars
<1>2. /\ CountingsAreRecords' /\ counting'[r].phase = "queued"
      /\ \A p \in RunIds : p # r => counting'[p] = counting[p]
  BY <1>1, SetCountingPhase DEF CounterInv
<1>3. InFlight' = InFlight /\ Counted' = Counted
  BY <1>1, <1>2 DEF InFlight, Counted
<1>4. lockQueue' \in Seq(RunIds) /\ (lockQueue # <<>> => lockQueue' # <<>> /\ lockQueue'[1] = lockQueue[1])
  <2>1. lockQueue \in Seq(RunIds)
    BY DEF CounterInv
  <2> QED BY <1>1, <2>1
<1>5. LockIsHeld'
  BY <1>1, <1>2, <1>4 DEF CounterInv, LockIsHeld
<1> QED BY <1>1, <1>2, <1>3, <1>4, <1>5 DEF CounterInv

(* The run that leaves the lock was the only one that had read.            *)
LEMMA ReleaseKeepsLock ==
  ASSUME CounterInv, NEW r \in RunIds, lockQueue # <<>>, lockQueue[1] = r, release,
         counting'[r].phase \in {"counted", "failed"}, \A p \in RunIds : p # r => counting'[p] = counting[p]
  PROVE  lockQueue' \in Seq(RunIds) /\ LockIsHeld'
<1>1. lockQueue \in Seq(RunIds)
  BY DEF CounterInv
<1>2. lockQueue' \in Seq(RunIds)
  BY <1>1 DEF release
<1>3. \A p \in RunIds : counting'[p].phase # "read"
  BY DEF CounterInv, LockIsHeld
<1> QED BY <1>2, <1>3 DEF LockIsHeld

LEMMA RecordInCounterKeeps ==
  ASSUME CounterInv, NEW r \in RunIds, RecordInCounter(r), UNCHANGED hostVars
  PROVE  CounterInv'
<1>1. /\ counting[r].phase = "queued" /\ lockQueue # <<>> /\ lockQueue[1] = r
      /\ UNCHANGED <<counter, gate, scenario, concurrent>>
  BY DEF RecordInCounter, withUsageLock, hostVars
<1>2. gate[r] = "admitted" /\ scenario.budgeted /\ r \in InFlight /\ CountingsAreRecords
  BY <1>1 DEF CounterInv, InFlight
<1>3. CASE counting' = [counting EXCEPT ![r] = [phase |-> "read", usage |-> counter]] /\ UNCHANGED lockQueue
  <2> DEFINE y == [phase |-> "read", usage |-> counter]
  <2>1. IsCounting(y) /\ y.phase = "read" /\ y.usage = counter
    BY DEF IsCounting
  <2>2. counting' = [counting EXCEPT ![r] = y]
    BY <1>3
  <2> HIDE DEF y
  <2>3. /\ CountingsAreRecords' /\ counting'[r] = y
        /\ \A p \in RunIds : p # r => counting'[p] = counting[p]
    BY <1>2, <2>1, <2>2, SetCounting
  <2>4. InFlight' = InFlight /\ Counted' = Counted
    BY <1>1, <2>1, <2>3 DEF InFlight, Counted
  <2>5. LockIsHeld'
    BY <1>1, <1>3, <2>1, <2>3 DEF CounterInv, LockIsHeld
  <2> QED BY <1>1, <1>2, <1>3, <2>1, <2>3, <2>4, <2>5 DEF CounterInv
<1>4. CASE counting' = [counting EXCEPT ![r].phase = "failed"] /\ release
  <2>1. /\ CountingsAreRecords' /\ counting'[r].phase = "failed"
        /\ \A p \in RunIds : p # r => counting'[p] = counting[p]
    BY <1>2, <1>4, SetCountingPhase
  <2>2. InFlight' = InFlight \ {r} /\ Counted' = Counted
    BY <1>1, <2>1 DEF InFlight, Counted
  <2>3. Cardinality(InFlight)' = Cardinality(InFlight) - 1 /\ Cardinality(InFlight) \in Nat \ {0}
    BY <1>2, <2>2, InFlightShrinks
  <2>4. lockQueue' \in Seq(RunIds) /\ LockIsHeld'
    BY <1>1, <1>4, <2>1, ReleaseKeepsLock
  <2>5. counter + Cardinality(InFlight)' <= DailyBudget - 1 + concurrent
    <3>1. /\ counter + Cardinality(InFlight) <= DailyBudget - 1 + concurrent
          /\ counter \in Nat /\ DailyBudget \in Nat /\ concurrent \in Nat
      BY <1>2, HostConstants, FiniteRuns DEF CounterInv
    <3> HIDE DEF InFlight
    <3> QED BY <2>3, <3>1
  <2> QED BY <1>1, <1>2, <2>1, <2>2, <2>4, <2>5 DEF CounterInv
<1> QED BY <1>3, <1>4 DEF RecordInCounter

LEMMA PutCounterKeeps ==
  ASSUME CounterInv, NEW r \in RunIds, PutCounter(r), UNCHANGED hostVars
  PROVE  CounterInv'
<1>1. /\ counting[r].phase = "read" /\ release /\ UNCHANGED <<gate, scenario, concurrent>>
  BY DEF PutCounter, hostVars
<1>2. /\ gate[r] = "admitted" /\ scenario.budgeted /\ r \in InFlight /\ CountingsAreRecords
      /\ lockQueue # <<>> /\ lockQueue[1] = r /\ counting[r].usage = counter /\ counter \in Nat
  BY <1>1 DEF CounterInv, LockIsHeld, InFlight
<1>3. PICK phase \in {"counted", "failed"} :
        /\ counting' = [counting EXCEPT ![r].phase = phase]
        /\ counter' = counter + 1 \/ (counter' = counter /\ phase = "failed")
  BY <1>2 DEF PutCounter
<1>4. /\ CountingsAreRecords' /\ counting'[r].phase = phase
      /\ \A p \in RunIds : p # r => counting'[p] = counting[p]
  BY <1>2, <1>3, SetCountingPhase
<1>5. InFlight' = InFlight \ {r}
  BY <1>1, <1>4 DEF InFlight
<1>6. Cardinality(InFlight)' = Cardinality(InFlight) - 1 /\ Cardinality(InFlight) \in Nat \ {0}
  BY <1>2, <1>5, InFlightShrinks
<1>7. lockQueue' \in Seq(RunIds) /\ LockIsHeld'
  BY <1>1, <1>2, <1>4, ReleaseKeepsLock
<1>8. counter' \in Nat /\ counter' + Cardinality(InFlight)' <= DailyBudget - 1 + concurrent
  <2>1. /\ counter + Cardinality(InFlight) <= DailyBudget - 1 + concurrent
        /\ counter \in Nat /\ DailyBudget \in Nat /\ concurrent \in Nat
    BY <1>2, HostConstants, FiniteRuns DEF CounterInv
  <2> HIDE DEF InFlight
  <2> QED BY <1>3, <1>6, <2>1
<1>9. counter' >= Cardinality(Counted')
  <2>1. Counted \in SUBSET RunIds /\ r \notin Counted
    BY <1>1 DEF Counted
  <2>2. counter >= Cardinality(Counted) /\ Cardinality(Counted) \in Nat
    BY <2>1, FiniteRuns DEF CounterInv
  <2>3. CASE phase = "counted"
    <3>1. Counted' = Counted \cup {r}
      BY <1>4, <2>3 DEF Counted
    <3>2. Cardinality(Counted \cup {r}) = Cardinality(Counted) + 1
      BY <2>1, FiniteRuns, FS_AddElement
    <3>3. counter' = counter + 1
      BY <1>3, <2>3
    <3> HIDE DEF Counted
    <3> QED BY <1>2, <2>2, <3>1, <3>2, <3>3
  <2>4. CASE phase = "failed"
    <3>1. Counted' = Counted
      BY <1>1, <1>4, <2>4 DEF Counted
    <3> HIDE DEF Counted
    <3> QED BY <1>2, <1>3, <2>2, <3>1
  <2> QED BY <2>3, <2>4
<1> QED BY <1>1, <1>2, <1>4, <1>7, <1>8, <1>9 DEF CounterInv

LEMMA InitCounter == Init => CounterInv
<1> SUFFICES ASSUME Init PROVE CounterInv
  OBVIOUS
<1>1. /\ counting = [r \in RunIds |-> [phase |-> "none", usage |-> 0]] /\ counter = 0 /\ lockQueue = <<>>
      /\ gate = [r \in RunIds |-> "none"] /\ concurrent = 0
  BY DEF Init, LedgerInit
<1>2. InFlight = {} /\ Counted = {}
  BY <1>1 DEF InFlight, Counted
<1>3. Cardinality({}) = 0 /\ Cardinality(RunIds) \in Nat
  BY FS_EmptySet, FiniteRuns
<1>4. CountingsAreRecords /\ LockIsHeld
  BY <1>1 DEF CountingsAreRecords, IsCounting, LockIsHeld
<1> QED BY <1>1, <1>2, <1>3, <1>4, HostConstants DEF CounterInv

(* The steps of Next, for the host.                                        *)
LEMMA HostCases ==
  ASSUME [Next]_vars
  PROVE  \/ UNCHANGED vars
         \/ \E d \in Dispatches : FindMapping(d) \/ PlanDispatch(d) \/ FinishChain(d) \/ Forward(d)
         \/ \E d \in Dispatches, i \in 1..MaxSteps : CheckBudget(d, i)
         \/ \E r \in RunIds : DisableInstallation(r) \/ RecordRefusal(r) \/ CountRun(r)
         \/ \E r \in RunIds : RunStep(r) /\ UNCHANGED hostVars
         \/ \E r \in RunIds : (RecordInCounter(r) \/ PutCounter(r)) /\ UNCHANGED <<workerVars, hostVars>>
         \/ ArchiveStep /\ UNCHANGED <<workerVars, hostVars>>
         \/ UpsertMapping \/ DeleteMapping
         \/ \E i \in DOMAIN installations : Reconfigure(i) \/ ReEnable(i)
  BY Zenon DEF Next

LEMMA NextCounter == CounterInv /\ [Next]_vars => CounterInv'
<1> SUFFICES ASSUME CounterInv, [Next]_vars PROVE CounterInv'
  OBVIOUS
<1>1. CASE UNCHANGED vars
  BY <1>1, CounterIsLeft DEF vars, ledgerVars, counterVars, hostVars
<1>2. ASSUME NEW d \in Dispatches, FindMapping(d) \/ PlanDispatch(d) \/ FinishChain(d) \/ Forward(d)
      PROVE  CounterInv'
  BY <1>2, CounterIsLeft DEF FindMapping, PlanDispatch, FinishChain, Forward, ledgerVars, counterVars
<1>3. ASSUME NEW d \in Dispatches, NEW i \in 1..MaxSteps, CheckBudget(d, i) PROVE CounterInv'
  BY <1>3, CheckKeepsCounter
<1>4. ASSUME NEW r \in RunIds, DisableInstallation(r) \/ RecordRefusal(r) \/ CountRun(r) PROVE CounterInv'
  <2>1. CASE DisableInstallation(r)
    <3>1. gate[r] = "disabling" /\ UNCHANGED <<counter, lockQueue, counting, scenario, concurrent>>
      BY <2>1 DEF DisableInstallation, ledgerVars, counterVars
    <3>2. \E phase \in {"recording", "threw"} : gate' = [gate EXCEPT ![r] = phase]
      BY <2>1 DEF DisableInstallation, Gate
    <3> QED BY <3>1, <3>2, RefusedGate
  <2>2. CASE RecordRefusal(r)
    <3>1. gate[r] = "recording" /\ UNCHANGED <<counter, lockQueue, counting, scenario, concurrent>>
      BY <2>2 DEF RecordRefusal, counterVars
    <3>2. \E phase \in {"refused", "threw"} : gate' = [gate EXCEPT ![r] = phase]
      BY <2>2 DEF RecordRefusal, Gate
    <3> QED BY <3>1, <3>2, RefusedGate
  <2> QED BY <1>4, <2>1, <2>2, CountRunKeeps
<1>5. ASSUME NEW r \in RunIds, RunStep(r), UNCHANGED hostVars PROVE CounterInv'
  BY <1>5, RunFrame, CounterIsLeft DEF counterVars, hostVars
<1>6. ASSUME NEW r \in RunIds, RecordInCounter(r) \/ PutCounter(r), UNCHANGED hostVars PROVE CounterInv'
  BY <1>6, RecordInCounterKeeps, PutCounterKeeps
<1>7. CASE ArchiveStep /\ UNCHANGED <<workerVars, hostVars>>
  BY <1>7, ArchiveFrame, CounterIsLeft DEF counterVars, hostVars
<1>8. CASE UpsertMapping \/ DeleteMapping
           \/ \E i \in DOMAIN installations : Reconfigure(i) \/ ReEnable(i)
  BY <1>8, CounterIsLeft DEF UpsertMapping, DeleteMapping, Reconfigure, ReEnable, Operates, ledgerVars, counterVars
<1> QED
  <2>1. CASE \E d \in Dispatches : FindMapping(d) \/ PlanDispatch(d) \/ FinishChain(d) \/ Forward(d)
    BY <1>2, <2>1
  <2>2. CASE \E d \in Dispatches, i \in 1..MaxSteps : CheckBudget(d, i)
    BY <1>3, <2>2
  <2>3. CASE \E r \in RunIds : DisableInstallation(r) \/ RecordRefusal(r) \/ CountRun(r)
    BY <1>4, <2>3
  <2>4. CASE \E r \in RunIds : RunStep(r) /\ UNCHANGED hostVars
    BY <1>5, <2>4
  <2>5. CASE \E r \in RunIds : (RecordInCounter(r) \/ PutCounter(r)) /\ UNCHANGED <<workerVars, hostVars>>
    BY <1>6, <2>5
  <2> QED BY <1>1, <1>7, <1>8, <2>1, <2>2, <2>3, <2>4, <2>5, HostCases, Zenon

(* The daily summary: a run is recorded once, and its usage is metered at  *)
(* most once.                                                              *)
Recorded == {r \in RunIds : recording[r].phase = "recorded"}

UsageInv == metered \in Nat /\ metered <= Cardinality(Recorded)

LEMMA UsageIsLeft ==
  ASSUME UsageInv, metered' = metered, Recorded' = Recorded
  PROVE  UsageInv'
  BY DEF UsageInv

(* The steps of a run that the recorder takes part in.                     *)
LEMMA RecordingSteps ==
  ASSUME NEW r \in RunIds, RunStep(r)
  PROVE  \/ UNCHANGED <<recording, metered>>
         \/ run[r].stage = "settled" /\ \E denied \in BOOLEAN : RecordRun(r, denied)
         \/ WriteExecution(r)
         \/ MeterExecution(r)
<1>1. CASE \/ LoadWorker(r) \/ CallCapability(r) \/ CapabilitySettles(r) \/ HandlerReturns(r)
           \/ DrainNext(r) \/ DrainEnds(r) \/ WorkerIsKilled(r) \/ InvocationThrows(r)
           \/ ReadResponse(r) \/ TimerFires(r) \/ AnswerRun(r)
  BY <1>1 DEF LoadWorker, CallCapability, CapabilitySettles, HandlerReturns, DrainNext, DrainEnds,
              WorkerIsKilled, InvocationThrows, ReadResponse, TimerFires, AnswerRun, ledgerVars, recorderVars
<1>2. CASE ReadEvidence(r) \/ EvidenceTimerFires(r)
  BY <1>2 DEF ReadEvidence, EvidenceTimerFires
<1> QED BY <1>1, <1>2 DEF RunStep

LEMMA MeterKeepsUsage ==
  ASSUME RunsInv, UsageInv, NEW r \in RunIds, MeterExecution(r)
  PROVE  UsageInv'
<1>1. /\ recording[r].phase = "metering" /\ recording' = [recording EXCEPT ![r].phase = "recorded"]
      /\ metered' = metered + 1 \/ metered' = metered
  BY DEF MeterExecution, recordExecutionUsage
<1>2. /\ recording'[r].phase = "recorded"
      /\ \A p \in RunIds : p # r => recording'[p] = recording[p]
  BY <1>1, SetRecordingPhase DEF RunsInv
<1>3. Recorded' = Recorded \cup {r} /\ r \notin Recorded /\ Recorded \in SUBSET RunIds
  BY <1>1, <1>2 DEF Recorded
<1> HIDE DEF Recorded
<1>4. Cardinality(Recorded \cup {r}) = Cardinality(Recorded) + 1 /\ Cardinality(Recorded) \in Nat
  BY <1>3, FiniteRuns, FS_AddElement
<1> QED BY <1>1, <1>3, <1>4 DEF UsageInv

LEMMA InitUsage == Init => UsageInv
<1> SUFFICES ASSUME Init PROVE UsageInv
  OBVIOUS
<1>1. recording = [r \in RunIds |-> NotRecording] /\ metered = 0
  BY DEF Init, LedgerInit
<1>2. Recorded = {}
  BY <1>1 DEF Recorded, NotRecording, Recording
<1> QED BY <1>1, <1>2, FS_EmptySet DEF UsageInv

LEMMA NextUsage == RunsInv /\ UsageInv /\ [Next]_vars => UsageInv'
<1> SUFFICES ASSUME RunsInv, UsageInv, [Next]_vars PROVE UsageInv'
  OBVIOUS
<1>1. ASSUME UNCHANGED <<recording, metered>> PROVE UsageInv'
  BY <1>1, UsageIsLeft DEF Recorded
<1>2. CASE UNCHANGED <<ledgerVars, workerVars>>
  BY <1>1, <1>2 DEF ledgerVars, recorderVars
<1>3. ASSUME NEW d \in Dispatches, NEW i \in 1..MaxSteps, CheckBudget(d, i) PROVE UsageInv'
  BY <1>1, <1>3 DEF CheckBudget, ledgerVars, recorderVars
<1>4. ASSUME NEW r \in RunIds, RecordRefusal(r) \/ CountRun(r) \/ RecordInCounter(r) \/ PutCounter(r)
      PROVE  UsageInv'
  BY <1>1, <1>4 DEF RecordRefusal, CountRun, RecordInCounter, PutCounter, recorderVars
<1>5. ASSUME NEW r \in RunIds, RunStep(r) PROVE UsageInv'
  <2>1. CASE run[r].stage = "settled" /\ \E denied \in BOOLEAN : RecordRun(r, denied)
    <3>1. recording[r].phase = "none" /\ RecordingsAreRecords /\ metered' = metered
      BY <2>1 DEF RunsInv, RunIsSound, RecordRun
    <3>2. PICK row : recording' = [recording EXCEPT ![r] = Recording("writing", row)]
      BY <2>1 DEF RecordRun
    <3> DEFINE y == Recording("writing", row)
    <3>3. IsRecording(y) /\ y.phase = "writing"
      BY DEF IsRecording, Recording
    <3> HIDE DEF y
    <3>4. recording'[r] = y /\ \A p \in RunIds : p # r => recording'[p] = recording[p]
      BY <3>1, <3>2, <3>3, SetRecording DEF y
    <3>5. Recorded' = Recorded
      BY <3>1, <3>3, <3>4 DEF Recorded
    <3> QED BY <3>1, <3>5, UsageIsLeft
  <2>2. CASE WriteExecution(r)
    <3>1. recording[r].phase = "writing" /\ RecordingsAreRecords /\ metered' = metered
      BY <2>2 DEF WriteExecution, RunsInv
    <3>2. PICK phase \in {"metering", "failed"} : recording' = [recording EXCEPT ![r].phase = phase]
      BY <2>2 DEF WriteExecution
    <3>3. recording'[r].phase = phase /\ \A p \in RunIds : p # r => recording'[p] = recording[p]
      BY <3>1, <3>2, SetRecordingPhase
    <3>4. Recorded' = Recorded
      BY <3>1, <3>3 DEF Recorded
    <3> QED BY <3>1, <3>4, UsageIsLeft
  <2> QED BY <1>1, <1>5, <2>1, <2>2, RecordingSteps, MeterKeepsUsage
<1>6. CASE ArchiveStep
  BY <1>1, <1>6, ArchiveFrame
<1> QED
  <2>1. CASE \E d \in Dispatches, i \in 1..MaxSteps : CheckBudget(d, i)
    BY <1>3, <2>1
  <2>2. CASE \E r \in RunIds :
               \/ RecordRefusal(r) \/ CountRun(r)
               \/ RunStep(r) /\ UNCHANGED hostVars
               \/ (RecordInCounter(r) \/ PutCounter(r)) /\ UNCHANGED <<workerVars, hostVars>>
    BY <1>4, <1>5, <2>2
  <2>3. CASE ArchiveStep /\ UNCHANGED <<workerVars, hostVars>>
    BY <1>6, <2>3
  <2> QED BY <1>2, <2>1, <2>2, <2>3, NextCases, Zenon

-----------------------------------------------------------------------------
(* The host.                                                               *)
Valid(m) == validateProxyMapping(m, AllowedOrigins)

DispatchBecomes(d, ph, pl, mp, pd) ==
  /\ DispatchesAreRecords'
  /\ \A e \in Dispatches : e # d => dispatch'[e] = dispatch[e]
  /\ dispatch'[d].phase = ph /\ dispatch'[d].plan = pl
  /\ dispatch'[d].mapping = mp /\ dispatch'[d].payload = pd

LEMMA DispatchBecomesRecord ==
  ASSUME DispatchesAreRecords, NEW d \in Dispatches, NEW y, IsDispatch(y), dispatch' = [dispatch EXCEPT ![d] = y]
  PROVE  DispatchBecomes(d, y.phase, y.plan, y.mapping, y.payload)
<1>1. /\ dispatch'[d] = y /\ dispatch' = [e \in Dispatches |-> dispatch'[e]]
      /\ \A e \in Dispatches : e # d => dispatch'[e] = dispatch[e]
  BY DEF DispatchesAreRecords
<1>2. \A e \in Dispatches : IsDispatch(dispatch'[e])
  <2> SUFFICES ASSUME NEW e \in Dispatches PROVE IsDispatch(dispatch'[e])
    OBVIOUS
  <2>1. CASE e = d
    BY <1>1, <2>1
  <2>2. CASE e # d
    <3>1. dispatch'[e] = dispatch[e] /\ IsDispatch(dispatch[e])
      BY <1>1, <2>2 DEF DispatchesAreRecords
    <3> QED BY <3>1
  <2> QED BY <2>1, <2>2
<1>3. DispatchesAreRecords'
  BY <1>1, <1>2 DEF DispatchesAreRecords, IsDispatch
<1> QED BY <1>1, <1>3 DEF DispatchBecomes

LEMMA EndsEffect ==
  ASSUME DispatchesAreRecords, NEW d \in Dispatches, NEW phase, Ends(d, phase)
  PROVE  LET x == dispatch[d] IN DispatchBecomes(d, phase, x.plan, x.mapping, x.payload)
<1> DEFINE x == dispatch[d]
           y == [x EXCEPT !.phase = phase]
<1>1. dispatch' = [dispatch EXCEPT ![d] = y] /\ IsDispatch(x)
  BY DEF Ends, DispatchesAreRecords
<1> HIDE DEF x
<1>2. IsDispatch(y) /\ y.phase = phase /\ y.plan = x.plan /\ y.mapping = x.mapping /\ y.payload = x.payload
  BY <1>1 DEF IsDispatch
<1> HIDE DEF y
<1>3. DispatchBecomes(d, y.phase, y.plan, y.mapping, y.payload)
  BY <1>1, <1>2, DispatchBecomesRecord
<1> QED BY <1>2, <1>3 DEF x

LEMMA MappedEffect ==
  ASSUME DispatchesAreRecords, NEW d \in Dispatches, NEW m,
         dispatch' = [dispatch EXCEPT ![d].phase = "mapped", ![d].mapping = m]
  PROVE  LET x == dispatch[d] IN DispatchBecomes(d, "mapped", x.plan, m, x.payload)
<1> DEFINE x == dispatch[d]
           y == [x EXCEPT !.phase = "mapped", !.mapping = m]
<1>1. dispatch' = [dispatch EXCEPT ![d] = y] /\ IsDispatch(x)
  BY DEF DispatchesAreRecords
<1> HIDE DEF x
<1>2. IsDispatch(y) /\ y.phase = "mapped" /\ y.plan = x.plan /\ y.mapping = m /\ y.payload = x.payload
  BY <1>1 DEF IsDispatch
<1> HIDE DEF y
<1>3. DispatchBecomes(d, y.phase, y.plan, y.mapping, y.payload)
  BY <1>1, <1>2, DispatchBecomesRecord
<1> QED BY <1>2, <1>3 DEF x

LEMMA PlannedEffect ==
  ASSUME DispatchesAreRecords, NEW d \in Dispatches, NEW plan,
         dispatch' = [dispatch EXCEPT ![d].phase = "planned", ![d].plan = plan]
  PROVE  LET x == dispatch[d] IN DispatchBecomes(d, "planned", plan, x.mapping, x.payload)
<1> DEFINE x == dispatch[d]
           y == [x EXCEPT !.phase = "planned", !.plan = plan]
<1>1. dispatch' = [dispatch EXCEPT ![d] = y] /\ IsDispatch(x)
  BY DEF DispatchesAreRecords
<1> HIDE DEF x
<1>2. IsDispatch(y) /\ y.phase = "planned" /\ y.plan = plan /\ y.mapping = x.mapping /\ y.payload = x.payload
  BY <1>1 DEF IsDispatch
<1> HIDE DEF y
<1>3. DispatchBecomes(d, y.phase, y.plan, y.mapping, y.payload)
  BY <1>1, <1>2, DispatchBecomesRecord
<1> QED BY <1>2, <1>3 DEF x

LEMMA ForwardingEffect ==
  ASSUME DispatchesAreRecords, NEW d \in Dispatches, NEW payload,
         dispatch' = [dispatch EXCEPT ![d].phase = "forwarding", ![d].payload = payload]
  PROVE  LET x == dispatch[d] IN DispatchBecomes(d, "forwarding", x.plan, x.mapping, payload)
<1> DEFINE x == dispatch[d]
           y == [x EXCEPT !.phase = "forwarding", !.payload = payload]
<1>1. dispatch' = [dispatch EXCEPT ![d] = y] /\ IsDispatch(x)
  BY DEF DispatchesAreRecords
<1> HIDE DEF x
<1>2. IsDispatch(y) /\ y.phase = "forwarding" /\ y.plan = x.plan /\ y.mapping = x.mapping /\ y.payload = payload
  BY <1>1 DEF IsDispatch
<1> HIDE DEF y
<1>3. DispatchBecomes(d, y.phase, y.plan, y.mapping, y.payload)
  BY <1>1, <1>2, DispatchBecomesRecord
<1> QED BY <1>2, <1>3 DEF x

(* A dispatch of the proxy holds a mapping operators may make; its plan    *)
(* fails closed and has a step; what it is about to forward is the output  *)
(* of its own run, which was recorded as a success.                        *)
DispatchIsSound(d) ==
  LET x == dispatch[d] IN
  /\ x.phase \in {"idle", "mapped", "planned", "forwarding", "done", "refused"}
  /\ x.mapping # None => Valid(x.mapping) /\ scenario.dispatches[d].hook = "webhook.outbound"
  /\ x.phase = "planned" /\ x.mapping # None => x.plan.failurePolicy = "fail-closed" /\ x.plan.steps # <<>>
  /\ x.phase = "forwarding" =>
       /\ x.mapping # None
       /\ \E row \in Written : row.id = x.payload /\ row.id[1] = d /\ row.status = "success"
  /\ \A i \in 1..MaxSteps : gate[<<d, i>>] # "none" => x.phase \notin {"idle", "mapped"}

SentIsSound(sent) ==
  /\ sent.to.origin \in AllowedOrigins /\ isPublicHttpUrl(sent.to)
  /\ \E row \in Written : row.id = sent.body /\ row.id[1] = sent.dispatch /\ row.status = "success"

(* Unless an operator changed something, the installation of a refused run *)
(* is disabled.                                                            *)
RefusedIsDisabled(r) ==
  gate[r] \in {"recording", "refused"} /\ operations = 0 =>
    \A i \in DOMAIN installations :
      installations[i].id = dispatch[r[1]].plan.steps[r[2]].id => installations[i].enabled = FALSE

InstallationsAreRows ==
  \A i \in DOMAIN installations : "id" \in DOMAIN installations[i] /\ "enabled" \in DOMAIN installations[i]

HostInv ==
  /\ DispatchesAreRecords /\ InstallationsAreRows
  /\ mapping # None => Valid(mapping)
  /\ operations \in 0..MaxOperations
  /\ \A d \in Dispatches : DispatchIsSound(d)
  /\ \A sent \in forwarded : SentIsSound(sent)
  /\ \A r \in RunIds : RefusedIsDisabled(r)

LEMMA HostIsLeft ==
  ASSUME HostInv, UNCHANGED hostVars, Written \subseteq Written'
  PROVE  HostInv'
<1>1. UNCHANGED <<scenario, installations, mapping, dispatch, gate, forwarded, operations>>
  BY DEF hostVars
<1>2. DispatchesAreRecords' /\ InstallationsAreRows'
  BY <1>1 DEF HostInv, DispatchesAreRecords, IsDispatch, InstallationsAreRows
<1>3. ASSUME NEW d \in Dispatches PROVE DispatchIsSound(d)'
  <2>1. DispatchIsSound(d)
    BY DEF HostInv
  <2> QED BY <1>1, <2>1 DEF DispatchIsSound
<1>4. ASSUME NEW sent \in forwarded' PROVE SentIsSound(sent)'
  <2>1. SentIsSound(sent)
    BY <1>1 DEF HostInv
  <2> QED BY <2>1 DEF SentIsSound
<1>5. ASSUME NEW r \in RunIds PROVE RefusedIsDisabled(r)'
  BY <1>1 DEF HostInv, RefusedIsDisabled
<1> QED BY <1>1, <1>2, <1>3, <1>4, <1>5 DEF HostInv

(* A step of one dispatch: what is left to show is about it.               *)
LEMMA OneDispatch ==
  ASSUME HostInv, NEW d \in Dispatches, NEW ph, NEW pl, NEW mp, NEW pd, DispatchBecomes(d, ph, pl, mp, pd),
         UNCHANGED <<ledgerVars, scenario, installations, mapping, gate, operations>>,
         pl = dispatch[d].plan \/ dispatch[d].phase \in {"idle", "mapped"},
         ph \in {"mapped", "planned", "forwarding", "done", "refused"},
         ph = "mapped" => dispatch[d].phase = "idle",
         mp # None => Valid(mp) /\ scenario.dispatches[d].hook = "webhook.outbound",
         ph = "planned" /\ mp # None => pl.failurePolicy = "fail-closed" /\ pl.steps # <<>>,
         ph = "forwarding" =>
           mp # None /\ \E row \in Written : row.id = pd /\ row.id[1] = d /\ row.status = "success",
         \A sent \in forwarded' : sent \in forwarded \/ SentIsSound(sent)
  PROVE  HostInv'
<1>1. Written' = Written
  BY DEF ledgerVars, recorderVars, archiveVars, Written, Archived
<1>2. ASSUME NEW i \in 1..MaxSteps, gate[<<d, i>>] # "none" PROVE dispatch[d].phase \notin {"idle", "mapped"}
  BY <1>2 DEF HostInv, DispatchIsSound
<1>3. DispatchIsSound(d)'
  BY <1>1, <1>2 DEF DispatchIsSound, DispatchBecomes
<1>4. ASSUME NEW e \in Dispatches, e # d PROVE DispatchIsSound(e)'
  <2>1. DispatchIsSound(e) /\ dispatch'[e] = dispatch[e]
    BY <1>4 DEF HostInv, DispatchBecomes
  <2> QED BY <1>1, <2>1 DEF DispatchIsSound
<1>5. ASSUME NEW r \in RunIds PROVE RefusedIsDisabled(r)'
  <2>1. RefusedIsDisabled(r)
    BY DEF HostInv
  <2>2. r[1] \in Dispatches /\ r[2] \in 1..MaxSteps /\ r = <<r[1], r[2]>>
    BY HostConstants
  <2>3. CASE r[1] # d
    <3>1. dispatch'[r[1]] = dispatch[r[1]]
      BY <2>2, <2>3 DEF DispatchBecomes
    <3> QED BY <2>1, <3>1 DEF RefusedIsDisabled
  <2>4. CASE r[1] = d /\ gate[r] = "none"
    BY <2>4 DEF RefusedIsDisabled
  <2>5. CASE r[1] = d /\ gate[r] # "none"
    <3>1. dispatch[d].phase \notin {"idle", "mapped"}
      BY <1>2, <2>2, <2>5
    <3>2. dispatch'[r[1]].plan = dispatch[r[1]].plan
      BY <2>5, <3>1 DEF DispatchBecomes
    <3> QED BY <2>1, <3>2 DEF RefusedIsDisabled
  <2> QED BY <2>3, <2>4, <2>5
<1>6. ASSUME NEW sent \in forwarded' PROVE SentIsSound(sent)'
  <2>1. SentIsSound(sent)
    BY DEF HostInv
  <2> QED BY <1>1, <2>1 DEF SentIsSound
<1>7. DispatchesAreRecords' /\ InstallationsAreRows'
  BY DEF HostInv, DispatchBecomes, InstallationsAreRows
<1> QED BY <1>3, <1>4, <1>5, <1>6, <1>7 DEF HostInv

(* A transform of the proxy has one step and fails closed.                 *)
LEMMA ProxyPlan ==
  ASSUME NEW type, NEW rows, planExecution("webhook.outbound", type, "default", rows).ok
  PROVE  LET plan == planExecution("webhook.outbound", type, "default", rows) IN
         plan.failurePolicy = "fail-closed" /\ plan.steps # <<>>
<1> DEFINE policy == failurePolicyOf(type, "default")
           steps == Listening(rows, "webhook.outbound")
           plan == planExecution("webhook.outbound", type, "default", rows)
           made == [ok |-> TRUE, failurePolicy |-> policy,
                    mode |-> IF type = "event" THEN "parallel" ELSE "serial",
                    steps |-> IF type = "event" THEN steps ELSE ByPriority(steps)]
<1>1. Invalid.ok = FALSE
  BY DEF Invalid
<1>2. /\ isValidHookConfiguration("webhook.outbound", type, policy)
      /\ ~(type = "transform" /\ Len(steps) # 1)
      /\ plan = made
  BY <1>1 DEF planExecution
<1>3. type = "transform" /\ policy = "fail-closed" /\ Len(steps) = 1
  <2> HIDE DEF policy, steps
  <2>1. isValidHookConfiguration("webhook.outbound", type, policy)
    BY <1>2
  <2>2. type = "transform" /\ policy = "fail-closed"
    BY <2>1, Zenon DEF isValidHookConfiguration
  <2> QED BY <1>2, <2>2
<1>4. plan.failurePolicy = "fail-closed" /\ plan.steps = ByPriority(steps)
  <2> HIDE DEF policy, steps, plan
  <2> QED BY <1>2, <1>3
<1>5. ByPriority(steps) # <<>>
  <2> HIDE DEF steps
  <2>1. DOMAIN ByPriority(steps) = 1..1
    BY <1>3 DEF ByPriority
  <2>2. DOMAIN <<>> # 1..1
    OBVIOUS
  <2> QED BY <2>1, <2>2
<1> QED BY <1>4, <1>5

LEMMA FindMappingKeeps ==
  ASSUME HostInv, NEW d \in Dispatches, FindMapping(d)
  PROVE  HostInv'
<1>1. /\ DispatchIsSound(d) /\ DispatchesAreRecords /\ dispatch[d].phase = "idle"
      /\ UNCHANGED <<ledgerVars, scenario, installations, mapping, gate, operations>> /\ forwarded' = forwarded
      /\ scenario.dispatches[d].hook = "webhook.outbound"
  BY DEF HostInv, FindMapping
<1>2. CASE Ends(d, "refused")
  <2>1. LET x == dispatch[d] IN DispatchBecomes(d, "refused", x.plan, x.mapping, x.payload)
    BY <1>1, <1>2, EndsEffect
  <2> QED BY <1>1, <2>1, OneDispatch DEF DispatchIsSound
<1>3. CASE mapping # None /\ dispatch' = [dispatch EXCEPT ![d].phase = "mapped", ![d].mapping = mapping]
  <2>1. LET x == dispatch[d] IN DispatchBecomes(d, "mapped", x.plan, mapping, x.payload)
    BY <1>1, <1>3, MappedEffect
  <2>2. Valid(mapping)
    BY <1>3 DEF HostInv
  <2> QED BY <1>1, <2>1, <2>2, OneDispatch
<1> QED BY <1>2, <1>3 DEF FindMapping

LEMMA PlanDispatchKeeps ==
  ASSUME HostInv, NEW d \in Dispatches, PlanDispatch(d)
  PROVE  HostInv'
<1> DEFINE wanted == scenario.dispatches[d]
           plan == planExecution(wanted.hook, wanted.type, "default", installations)
<1>1. /\ DispatchIsSound(d) /\ DispatchesAreRecords /\ dispatch[d].phase \in {"idle", "mapped"}
      /\ UNCHANGED <<ledgerVars, scenario, installations, mapping, gate, operations>> /\ forwarded' = forwarded
  BY DEF HostInv, PlanDispatch
<1>2. CASE Ends(d, "refused")
  <2>1. LET x == dispatch[d] IN DispatchBecomes(d, "refused", x.plan, x.mapping, x.payload)
    BY <1>1, <1>2, EndsEffect
  <2> QED BY <1>1, <2>1, OneDispatch DEF DispatchIsSound
<1>3. CASE plan.ok /\ dispatch' = [dispatch EXCEPT ![d].phase = "planned", ![d].plan = plan]
  <2>1. wanted.hook = "webhook.outbound" => plan.failurePolicy = "fail-closed" /\ plan.steps # <<>>
    BY <1>3, ProxyPlan
  <2>2. dispatch[d].mapping # None => Valid(dispatch[d].mapping) /\ wanted.hook = "webhook.outbound"
    BY <1>1 DEF DispatchIsSound
  <2>3. dispatch' = [dispatch EXCEPT ![d].phase = "planned", ![d].plan = plan]
    BY <1>3
  <2> HIDE DEF plan
  <2>4. LET x == dispatch[d] IN DispatchBecomes(d, "planned", plan, x.mapping, x.payload)
    BY <1>1, <2>3, PlannedEffect
  <2> QED BY <1>1, <2>1, <2>2, <2>4, OneDispatch
<1> QED BY <1>2, <1>3 DEF PlanDispatch

(* A chain that fails closed yields the output of a run that succeeded.    *)
LEMMA ChainIsTransformed ==
  ASSUME NEW r \in RunIds, RunIsSound(r), NEW plan, plan.failurePolicy = "fail-closed",
         runTransformChain(plan, Original, Ran(r)).ok
  PROVE  /\ runTransformChain(plan, Original, Ran(r)).payload = r
         /\ \E row \in Written : row.id = r /\ row.status = "success"
<1> DEFINE ran == Ran(r)
           chain == runTransformChain(plan, Original, ran)
           answer == run[r].answer
<1>1. CASE ran.ok /\ isCanonicalTransformResult(ran.value)
  <2>1. ran = [ok |-> TRUE, value |-> answer.value] /\ answer.kind = "value"
    <3>1. [ok |-> FALSE, code |-> "plugin_result_invalid"].ok = FALSE
      OBVIOUS
    <3>2. [ok |-> FALSE, code |-> answer.code].ok = FALSE
      OBVIOUS
    <3>3. \/ ran = [ok |-> FALSE, code |-> "plugin_result_invalid"]
          \/ ran = [ok |-> TRUE, value |-> answer.value] /\ answer.kind = "value"
          \/ ran = [ok |-> FALSE, code |-> answer.code]
      BY DEF Ran
    <3> HIDE DEF ran
    <3> QED BY <1>1, <3>1, <3>2, <3>3
  <2>2. ran.value = answer.value
    <3> HIDE DEF ran
    <3> QED BY <2>1
  <2>3. answer.value.output = r /\ answer.value.status = "transformed"
    BY <1>1, <2>1, <2>2 DEF isCanonicalTransformResult, RunIsSound, AnswerIsSound
  <2>4. \E row \in Written : row.id = r /\ row.status = "success"
    BY <2>1, <2>3 DEF RunIsSound, AnswerIsSound
  <2>5. chain = [ok |-> TRUE, payload |-> ran.value.output]
    BY <1>1 DEF runTransformChain
  <2>6. chain.payload = ran.value.output
    <3> HIDE DEF chain, ran
    <3> QED BY <2>5
  <2> QED BY <2>2, <2>3, <2>4, <2>6
<1>2. CASE ~(ran.ok /\ isCanonicalTransformResult(ran.value))
  <2>1. \/ chain = [ok |-> FALSE, code |-> ran.code]
        \/ chain = [ok |-> FALSE, code |-> "plugin_result_invalid"]
    BY <1>2 DEF runTransformChain
  <2>2. chain.ok = FALSE
    <3> HIDE DEF chain, ran
    <3> QED BY <2>1
  <2> QED BY <2>2
<1> QED BY <1>1, <1>2

LEMMA FinishChainKeeps ==
  ASSUME RunsInv, HostInv, NEW d \in Dispatches, FinishChain(d)
  PROVE  HostInv'
<1> DEFINE x == dispatch[d]
           r == <<d, 1>>
           chain == runTransformChain(x.plan, Original, Ran(r))
<1>1. /\ DispatchIsSound(d) /\ DispatchesAreRecords /\ x.phase = "planned" /\ x.mapping # None
      /\ UNCHANGED <<ledgerVars, scenario, installations, mapping, gate, operations>> /\ forwarded' = forwarded
  BY DEF HostInv, FinishChain
<1>2. x.plan.failurePolicy = "fail-closed" /\ x.plan.steps # <<>>
  BY <1>1 DEF DispatchIsSound
<1>3. CASE Ends(d, "refused")
  <2>1. DispatchBecomes(d, "refused", x.plan, x.mapping, x.payload)
    BY <1>1, <1>3, EndsEffect
  <2> QED BY <1>1, <2>1, OneDispatch DEF DispatchIsSound
<1>4. CASE chain.ok /\ dispatch' = [dispatch EXCEPT ![d].phase = "forwarding", ![d].payload = chain.payload]
  <2>1. r \in RunIds /\ RunIsSound(r) /\ r[1] = d
    BY HostConstants DEF RunsInv
  <2>2. chain.payload = r /\ \E row \in Written : row.id = r /\ row.status = "success"
    <3> HIDE DEF r
    <3> QED BY <1>2, <1>4, <2>1, ChainIsTransformed
  <2>3. DispatchBecomes(d, "forwarding", x.plan, x.mapping, r)
    <3>1. dispatch' = [dispatch EXCEPT ![d].phase = "forwarding", ![d].payload = r]
      BY <1>4, <2>2
    <3> QED BY <1>1, <3>1, ForwardingEffect
  <2> QED BY <1>1, <2>1, <2>2, <2>3, OneDispatch DEF DispatchIsSound
<1> QED BY <1>2, <1>3, <1>4 DEF FinishChain

LEMMA ForwardKeeps ==
  ASSUME HostInv, NEW d \in Dispatches, Forward(d)
  PROVE  HostInv'
<1> DEFINE x == dispatch[d]
           sent == [dispatch |-> d, to |-> x.mapping.destination, body |-> x.payload]
<1>1. /\ DispatchIsSound(d) /\ DispatchesAreRecords /\ x.phase = "forwarding"
      /\ UNCHANGED <<ledgerVars, scenario, installations, mapping, gate, operations>>
      /\ forwarded' = forwarded \cup {sent}
  BY DEF HostInv, Forward
<1>2. SentIsSound(sent)
  <2>1. Valid(x.mapping) /\ \E row \in Written : row.id = x.payload /\ row.id[1] = d /\ row.status = "success"
    BY <1>1 DEF DispatchIsSound
  <2>2. sent.dispatch = d /\ sent.to = x.mapping.destination /\ sent.body = x.payload
    OBVIOUS
  <2> HIDE DEF sent
  <2> QED BY <2>1, <2>2 DEF SentIsSound, Valid, validateProxyMapping
<1>3. PICK phase \in {"done", "refused"} : Ends(d, phase)
  BY DEF Forward
<1>4. DispatchBecomes(d, phase, x.plan, x.mapping, x.payload)
  BY <1>1, <1>3, EndsEffect
<1> HIDE DEF sent
<1>5. \A s \in forwarded' : s \in forwarded \/ SentIsSound(s)
  BY <1>1, <1>2
<1> QED BY <1>1, <1>3, <1>4, <1>5, OneDispatch DEF DispatchIsSound

(* The gate of one run moves; the installations may be disabled.           *)
LEMMA GateKeeps ==
  ASSUME HostInv, NEW r \in RunIds, NEW phase \in {"admitted", "disabling", "recording", "refused", "threw"},
         gate = [p \in RunIds |-> gate[p]], gate' = [gate EXCEPT ![r] = phase],
         dispatch[r[1]].phase \notin {"idle", "mapped"},
         UNCHANGED <<scenario, mapping, dispatch, forwarded, operations>>, Written \subseteq Written',
         InstallationsAreRows', DOMAIN installations' = DOMAIN installations,
         \A i \in DOMAIN installations : /\ installations'[i].id = installations[i].id
                                         /\ installations[i].enabled = FALSE => installations'[i].enabled = FALSE,
         RefusedIsDisabled(r)'
  PROVE  HostInv'
<1>1. gate'[r] = phase /\ \A p \in RunIds : p # r => gate'[p] = gate[p]
  OBVIOUS
<1>2. DispatchesAreRecords'
  BY DEF HostInv, DispatchesAreRecords, IsDispatch
<1>3. ASSUME NEW d \in Dispatches PROVE DispatchIsSound(d)'
  <2>1. DispatchIsSound(d)
    BY DEF HostInv
  <2>2. ASSUME NEW i \in 1..MaxSteps, gate'[<<d, i>>] # "none" PROVE dispatch[d].phase \notin {"idle", "mapped"}
    <3>1. <<d, i>> \in RunIds
      BY HostConstants
    <3>2. CASE <<d, i>> = r
      <4>1. r[1] = d
        BY <3>2
      <4> QED BY <4>1
    <3>3. CASE <<d, i>> # r
      <4>1. gate[<<d, i>>] # "none"
        BY <1>1, <2>2, <3>1, <3>3
      <4> QED BY <2>1, <4>1 DEF DispatchIsSound
    <3> QED BY <3>2, <3>3
  <2> QED BY <2>1, <2>2 DEF DispatchIsSound
<1>4. ASSUME NEW sent \in forwarded' PROVE SentIsSound(sent)'
  <2>1. SentIsSound(sent)
    BY DEF HostInv
  <2> QED BY <2>1 DEF SentIsSound
<1>5. ASSUME NEW p \in RunIds, p # r PROVE RefusedIsDisabled(p)'
  <2>1. RefusedIsDisabled(p) /\ gate'[p] = gate[p]
    BY <1>1, <1>5 DEF HostInv
  <2> QED BY <2>1 DEF RefusedIsDisabled
<1> QED BY <1>2, <1>3, <1>4, <1>5 DEF HostInv

LEMMA SetEnabledEffect ==
  ASSUME InstallationsAreRows, NEW id, NEW value, SetEnabled(id, value)
  PROVE  /\ InstallationsAreRows' /\ DOMAIN installations' = DOMAIN installations
         /\ \A i \in DOMAIN installations :
              /\ installations'[i].id = installations[i].id
              /\ installations'[i].enabled =
                   IF installations[i].id = id THEN value ELSE installations[i].enabled
<1>1. DOMAIN installations' = DOMAIN installations
  BY DEF SetEnabled
<1>2. ASSUME NEW i \in DOMAIN installations
      PROVE  /\ "id" \in DOMAIN installations'[i] /\ "enabled" \in DOMAIN installations'[i]
             /\ installations'[i].id = installations[i].id
             /\ installations'[i].enabled =
                  IF installations[i].id = id THEN value ELSE installations[i].enabled
  <2> DEFINE x == installations[i]
             y == [x EXCEPT !.enabled = value]
  <2>1. "id" \in DOMAIN x /\ "enabled" \in DOMAIN x
    BY DEF InstallationsAreRows
  <2>2. installations'[i] = IF x.id = id THEN y ELSE x
    BY DEF SetEnabled
  <2> HIDE DEF x
  <2>3. /\ "id" \in DOMAIN y /\ "enabled" \in DOMAIN y
        /\ y.id = x.id /\ y.enabled = value
    BY <2>1
  <2> HIDE DEF y
  <2>4. CASE x.id = id
    BY <2>2, <2>3, <2>4 DEF x
  <2>5. CASE x.id # id
    BY <2>1, <2>2, <2>5 DEF x
  <2> QED BY <2>4, <2>5
<1>3. InstallationsAreRows'
  BY <1>1, <1>2 DEF InstallationsAreRows
<1> QED BY <1>1, <1>2, <1>3

LEMMA CheckKeepsHost ==
  ASSUME CounterInv, HostInv, NEW d \in Dispatches, NEW i \in 1..MaxSteps, CheckBudget(d, i)
  PROVE  HostInv'
<1> DEFINE r == <<d, i>>
<1>1. /\ r \in RunIds /\ r[1] = d /\ dispatch[d].phase = "planned"
      /\ UNCHANGED <<ledgerVars, scenario, installations, mapping, dispatch, forwarded, operations>>
      /\ gate = [p \in RunIds |-> gate[p]]
  BY HostConstants DEF CheckBudget, CounterInv
<1>2. PICK phase \in {"disabling", "admitted"} : gate' = [gate EXCEPT ![r] = phase]
  BY DEF CheckBudget
<1> HIDE DEF r
<1>3. RefusedIsDisabled(r)' /\ InstallationsAreRows'
  BY <1>1, <1>2 DEF RefusedIsDisabled, HostInv, InstallationsAreRows
<1>4. Written' = Written
  BY <1>1 DEF ledgerVars, recorderVars, archiveVars, Written, Archived
<1> QED BY <1>1, <1>2, <1>3, <1>4, GateKeeps

LEMMA DisableKeeps ==
  ASSUME CounterInv, HostInv, NEW r \in RunIds, DisableInstallation(r)
  PROVE  HostInv'
<1> DEFINE id == dispatch[r[1]].plan.steps[r[2]].id
<1>1. /\ gate[r] = "disabling" /\ gate = [p \in RunIds |-> gate[p]] /\ InstallationsAreRows
      /\ UNCHANGED <<ledgerVars, scenario, mapping, dispatch, forwarded, operations>>
  BY DEF DisableInstallation, CounterInv, HostInv
<1>2. dispatch[r[1]].phase \notin {"idle", "mapped"}
  <2>1. r[1] \in Dispatches /\ r[2] \in 1..MaxSteps /\ r = <<r[1], r[2]>>
    BY HostConstants
  <2>2. DispatchIsSound(r[1])
    BY <2>1 DEF HostInv
  <2> QED BY <1>1, <2>1, <2>2 DEF DispatchIsSound
<1>3. Written' = Written
  BY <1>1 DEF ledgerVars, recorderVars, archiveVars, Written, Archived
<1>4. CASE SetEnabled(id, FALSE) /\ \E phase \in {"recording", "threw"} : Gate(r, phase)
  <2>1. /\ InstallationsAreRows' /\ DOMAIN installations' = DOMAIN installations
        /\ \A i \in DOMAIN installations :
             /\ installations'[i].id = installations[i].id
             /\ installations'[i].enabled =
                  IF installations[i].id = id THEN FALSE ELSE installations[i].enabled
    <3>1. SetEnabled(id, FALSE)
      BY <1>4
    <3> HIDE DEF id
    <3> QED BY <1>1, <3>1, SetEnabledEffect
  <2>2. PICK phase \in {"recording", "threw"} : gate' = [gate EXCEPT ![r] = phase]
    BY <1>4 DEF Gate
  <2>3. RefusedIsDisabled(r)'
    BY <1>1, <2>1 DEF RefusedIsDisabled
  <2>4. /\ \A i \in DOMAIN installations : installations'[i].id = installations[i].id
        /\ \A i \in DOMAIN installations :
             ~installations[i].enabled => ~installations'[i].enabled
    BY <2>1
  <2>5. /\ UNCHANGED <<scenario, mapping, dispatch, forwarded, operations>>
        /\ Written \subseteq Written'
    BY <1>1, <1>3
  <2> QED BY <1>1, <1>2, <2>1, <2>2, <2>3, <2>4, <2>5, GateKeeps
<1>5. CASE Gate(r, "threw") /\ UNCHANGED installations
  <2>1. gate' = [gate EXCEPT ![r] = "threw"]
    BY <1>5 DEF Gate
  <2>2. RefusedIsDisabled(r)' /\ InstallationsAreRows'
    BY <1>1, <1>5, <2>1 DEF RefusedIsDisabled, InstallationsAreRows
  <2> QED BY <1>1, <1>2, <1>3, <1>5, <2>1, <2>2, GateKeeps
<1> QED BY <1>4, <1>5 DEF DisableInstallation

LEMMA RefusalKeepsHost ==
  ASSUME CounterInv, HostInv, Written \subseteq Written', NEW r \in RunIds, RecordRefusal(r)
  PROVE  HostInv'
<1>1. /\ gate[r] = "recording" /\ gate = [p \in RunIds |-> gate[p]] /\ InstallationsAreRows
      /\ UNCHANGED <<scenario, installations, mapping, dispatch, forwarded, operations>>
  BY DEF RecordRefusal, CounterInv, HostInv
<1>2. dispatch[r[1]].phase \notin {"idle", "mapped"}
  <2>1. r[1] \in Dispatches /\ r[2] \in 1..MaxSteps /\ r = <<r[1], r[2]>>
    BY HostConstants
  <2>2. DispatchIsSound(r[1])
    BY <2>1 DEF HostInv
  <2> QED BY <1>1, <2>1, <2>2 DEF DispatchIsSound
<1>3. PICK phase \in {"refused", "threw"} : gate' = [gate EXCEPT ![r] = phase]
  BY DEF RecordRefusal, Gate
<1>4. RefusedIsDisabled(r)' /\ InstallationsAreRows'
  <2>1. RefusedIsDisabled(r)
    BY DEF HostInv
  <2> QED BY <1>1, <2>1 DEF RefusedIsDisabled, InstallationsAreRows
<1> QED BY <1>1, <1>2, <1>3, <1>4, GateKeeps

(* The operator's steps.                                                   *)
LEMMA OperatorKeeps ==
  ASSUME HostInv, \/ UpsertMapping \/ DeleteMapping
                  \/ \E i \in DOMAIN installations : Reconfigure(i) \/ ReEnable(i)
  PROVE  HostInv'
<1>1. /\ operations' \in 1..MaxOperations
      /\ UNCHANGED <<ledgerVars, scenario, dispatch, gate, forwarded>>
  <2>1. operations \in 0..MaxOperations /\ MaxOperations \in Nat
    BY HostConstants DEF HostInv
  <2>2. /\ operations < MaxOperations /\ operations' = operations + 1
        /\ UNCHANGED <<ledgerVars, scenario, dispatch, gate, forwarded>>
    BY DEF UpsertMapping, DeleteMapping, Reconfigure, ReEnable, Operates
  <2> QED BY <2>1, <2>2
<1>2. Written' = Written
  BY <1>1 DEF ledgerVars, recorderVars, archiveVars, Written, Archived
<1>3. mapping' # None => Valid(mapping')
  <2>1. CASE UpsertMapping
    BY <2>1 DEF UpsertMapping, Valid
  <2>2. CASE DeleteMapping \/ \E i \in DOMAIN installations : Reconfigure(i) \/ ReEnable(i)
    BY <2>2 DEF DeleteMapping, Reconfigure, ReEnable, HostInv, Valid
  <2> QED BY <2>1, <2>2
<1>4. InstallationsAreRows'
  <2>0. InstallationsAreRows
    BY DEF HostInv
  <2>1. CASE UpsertMapping \/ DeleteMapping
    BY <2>0, <2>1 DEF UpsertMapping, DeleteMapping, InstallationsAreRows
  <2>2. ASSUME NEW i \in DOMAIN installations, ReEnable(i) PROVE InstallationsAreRows'
    BY <2>0, <2>2, SetEnabledEffect DEF ReEnable
  <2>3. ASSUME NEW i \in DOMAIN installations, Reconfigure(i) PROVE InstallationsAreRows'
    <3>1. PICK artifact :
            installations' = [installations EXCEPT ![i].artifact = artifact, ![i].grantRevision = @ + 1]
      BY <2>3 DEF Reconfigure
    <3>2. DOMAIN installations' = DOMAIN installations
      BY <3>1
    <3>3. ASSUME NEW k \in DOMAIN installations PROVE DOMAIN installations'[k] = DOMAIN installations[k]
      <4>1. CASE k = i
        BY <3>1, <4>1
      <4>2. CASE k # i
        BY <3>1, <4>2
      <4> QED BY <4>1, <4>2
    <3> QED BY <2>0, <3>2, <3>3 DEF InstallationsAreRows
  <2> QED BY <2>1, <2>2, <2>3
<1>5. DispatchesAreRecords'
  BY <1>1 DEF HostInv, DispatchesAreRecords, IsDispatch
<1>6. ASSUME NEW d \in Dispatches PROVE DispatchIsSound(d)'
  <2>1. DispatchIsSound(d)
    BY DEF HostInv
  <2> QED BY <1>1, <1>2, <2>1 DEF DispatchIsSound
<1>7. ASSUME NEW sent \in forwarded' PROVE SentIsSound(sent)'
  <2>1. SentIsSound(sent)
    BY <1>1 DEF HostInv
  <2> QED BY <1>2, <2>1 DEF SentIsSound
<1>8. operations' # 0 /\ operations' \in 0..MaxOperations
  BY <1>1
<1>9. ASSUME NEW r \in RunIds PROVE RefusedIsDisabled(r)'
  BY <1>8 DEF RefusedIsDisabled
<1> QED BY <1>3, <1>4, <1>5, <1>6, <1>7, <1>8, <1>9 DEF HostInv, Valid

LEMMA InitHost == Init => HostInv
<1> SUFFICES ASSUME Init PROVE HostInv
  OBVIOUS
<1>1. /\ dispatch = [d \in Dispatches |-> NoDispatch] /\ gate = [r \in RunIds |-> "none"]
      /\ forwarded = {} /\ operations = 0 /\ installations = scenario.installations
      /\ scenario \in Scenarios /\ validateProxyMapping(mapping, AllowedOrigins)
  BY DEF Init
<1>2. /\ IsDispatch(NoDispatch) /\ NoDispatch.phase = "idle" /\ NoDispatch.mapping = None
  BY DEF IsDispatch, NoDispatch
<1>3. DispatchesAreRecords /\ \A d \in Dispatches : DispatchIsSound(d)
  <2>1. \A d \in Dispatches, i \in 1..MaxSteps : gate[<<d, i>>] = "none"
    BY <1>1, HostConstants
  <2> QED BY <1>1, <1>2, <2>1 DEF DispatchesAreRecords, DispatchIsSound
<1>4. InstallationsAreRows
  BY <1>1, ScenariosAreSound DEF InstallationsAreRows
<1>5. \A r \in RunIds : RefusedIsDisabled(r)
  BY <1>1 DEF RefusedIsDisabled
<1> QED BY <1>1, <1>3, <1>4, <1>5, HostConstants DEF HostInv, Valid

LEMMA NextHost == ArchiveInv /\ RunsInv /\ CounterInv /\ HostInv /\ [Next]_vars => HostInv'
<1> SUFFICES ASSUME ArchiveInv, RunsInv, CounterInv, HostInv, [Next]_vars PROVE HostInv'
  OBVIOUS
<1>1. Written \subseteq Written'
  BY WrittenGrows
<1>2. CASE UNCHANGED vars
  BY <1>1, <1>2, HostIsLeft DEF vars
<1>3. ASSUME NEW d \in Dispatches, FindMapping(d) \/ PlanDispatch(d) \/ FinishChain(d) \/ Forward(d)
      PROVE  HostInv'
  BY <1>3, FindMappingKeeps, PlanDispatchKeeps, FinishChainKeeps, ForwardKeeps
<1>4. ASSUME NEW d \in Dispatches, NEW i \in 1..MaxSteps, CheckBudget(d, i) PROVE HostInv'
  BY <1>4, CheckKeepsHost
<1>5. ASSUME NEW r \in RunIds, DisableInstallation(r) \/ RecordRefusal(r) \/ CountRun(r) PROVE HostInv'
  <2>1. CASE CountRun(r)
    BY <1>1, <2>1, HostIsLeft DEF CountRun
  <2> QED BY <1>1, <1>5, <2>1, DisableKeeps, RefusalKeepsHost
<1>6. ASSUME UNCHANGED hostVars PROVE HostInv'
  BY <1>1, <1>6, HostIsLeft
<1> QED
  <2>1. CASE \E d \in Dispatches : FindMapping(d) \/ PlanDispatch(d) \/ FinishChain(d) \/ Forward(d)
    BY <1>3, <2>1
  <2>2. CASE \E d \in Dispatches, i \in 1..MaxSteps : CheckBudget(d, i)
    BY <1>4, <2>2
  <2>3. CASE \E r \in RunIds : DisableInstallation(r) \/ RecordRefusal(r) \/ CountRun(r)
    BY <1>5, <2>3
  <2>4. CASE \/ \E r \in RunIds : RunStep(r) /\ UNCHANGED hostVars
             \/ \E r \in RunIds : (RecordInCounter(r) \/ PutCounter(r)) /\ UNCHANGED <<workerVars, hostVars>>
             \/ ArchiveStep /\ UNCHANGED <<workerVars, hostVars>>
    BY <1>6, <2>4
  <2>5. CASE UpsertMapping \/ DeleteMapping \/ \E i \in DOMAIN installations : Reconfigure(i) \/ ReEnable(i)
    BY <2>5, OperatorKeeps
  <2> QED BY <1>2, <2>1, <2>2, <2>3, <2>4, <2>5, HostCases, Zenon

-----------------------------------------------------------------------------
(* The whole invariant, and what it shows.                                 *)
IInv == ArchiveInv /\ RunsInv /\ SearchInv /\ CounterInv /\ UsageInv /\ HostInv

LEMMA ExecutionIsSound == Spec => []IInv
<1>1. Init => IInv
  BY InitArchive, InitRuns, InitSearch, InitCounter, InitUsage, InitHost DEF IInv
<1>2. IInv /\ [Next]_vars => IInv'
  BY NextArchive, NextRuns, NextSearch, NextCounter, NextUsage, NextHost DEF IInv
<1> QED BY <1>1, <1>2, PTL DEF Spec

(* Every variable keeps its type, whatever is dispatched and whoever       *)
(* interferes.                                                             *)
THEOREM ExecutionTypes == Spec => []TypeOK
<1>1. IInv => TypeOK
  <2> SUFFICES ASSUME IInv PROVE TypeOK
    OBVIOUS
  <2>1. LedgerTypeOK
    <3>1. Range(lockQueue) \subseteq RunIds
      <4>1. lockQueue \in Seq(RunIds)
        BY DEF IInv, CounterInv
      <4> QED BY <4>1 DEF Range
    <3>2. \A r \in RunIds : recording[r].phase \in {"none", "writing", "metering", "recorded", "failed"}
      BY DEF IInv, RunsInv, RunIsSound
    <3> QED BY <3>1, <3>2 DEF IInv, ArchiveInv, JobsAreSound, UsageInv, CounterInv, SearchInv,
                              SearchIsSound, LedgerTypeOK
  <2>2. \A r \in RunIds :
          /\ run[r].stage \in Stages
          /\ run[r].answer.kind \in IF run[r].stage = "done" THEN {"value", "error"} ELSE {"none"}
    BY DEF IInv, RunsInv, RunIsSound
  <2>3. \A r \in RunIds : gate[r] \in {"none", "admitted", "disabling", "recording", "refused", "threw"}
    BY DEF IInv, CounterInv
  <2>4. \A d \in Dispatches :
          dispatch[d].phase \in {"idle", "mapped", "planned", "forwarding", "done", "refused"}
    BY DEF IInv, HostInv, DispatchIsSound
  <2> QED BY <2>1, <2>2, <2>3, <2>4 DEF IInv, CounterInv, HostInv, TypeOK, Stages
<1> QED BY <1>1, ExecutionIsSound, PTL

(* What a destination receives is the recorded output of that webhook's    *)
(* own transform, and goes where operators may map (handleWebhookProxy).   *)
THEOREM ForwardsAreTransformed == Spec => []ForwardedIsTransformed
<1>1. IInv => ForwardedIsTransformed
  BY DEF IInv, HostInv, SentIsSound, ForwardedIsTransformed
<1> QED BY <1>1, ExecutionIsSound, PTL

(* The daily budget is passed by no more than the runs under way at one    *)
(* time, a refused run leaves its installation disabled, and each run is   *)
(* counted once (enforceBudgetBeforeExecution, withUsageLock, record).     *)
THEOREM BudgetIsRespected == Spec => []BudgetIsKept
<1>1. IInv => BudgetHolds
  <2> SUFFICES ASSUME IInv PROVE BudgetHolds
    OBVIOUS
  <2>1. counter <= DailyBudget - 1 + concurrent
    <3>1. /\ counter \in Nat /\ concurrent \in Nat /\ DailyBudget \in Nat \ {0}
          /\ Cardinality(InFlight) \in Nat
      <4>1. InFlight \in SUBSET RunIds
        BY DEF InFlight
      <4>2. Cardinality(InFlight) \in Nat
        BY <4>1, FiniteRuns
      <4>3. concurrent \in Nat
        BY FiniteRuns DEF IInv, CounterInv
      <4> QED BY <4>2, <4>3, HostConstants DEF IInv, CounterInv
    <3>2. CASE scenario.budgeted
      <4>1. counter + Cardinality(InFlight) <= DailyBudget - 1 + concurrent
        BY <3>2 DEF IInv, CounterInv
      <4> HIDE DEF InFlight
      <4> QED BY <3>1, <4>1
    <3>3. CASE ~scenario.budgeted
      <4>1. counter = 0
        BY <3>3 DEF IInv, CounterInv
      <4> QED BY <3>1, <4>1
    <3> QED BY <3>2, <3>3
  <2>2. ASSUME NEW r \in RunIds, gate[r] \in {"recording", "refused"}, operations = 0,
               NEW row \in Range(installations), row.id = dispatch[r[1]].plan.steps[r[2]].id
        PROVE  ~row.enabled
    <3>1. PICK i \in DOMAIN installations : row = installations[i]
      BY DEF Range
    <3>2. RefusedIsDisabled(r)
      BY DEF IInv, HostInv
    <3>3. installations[i].enabled = FALSE
      BY <2>2, <3>1, <3>2 DEF RefusedIsDisabled
    <3> QED BY <3>1, <3>3
  <2> QED BY <2>1, <2>2 DEF BudgetHolds
<1>2. IInv => UsageIsCountedOnce
  <2> SUFFICES ASSUME IInv PROVE UsageIsCountedOnce
    OBVIOUS
  <2> DEFINE Kept == {r \in RunIds : recording[r].phase = "recorded" /\ recording[r].row \in Written}
  <2>1. Kept = Recorded
    BY DEF IInv, RunsInv, RunIsSound, Recorded
  <2> QED BY <2>1 DEF IInv, UsageInv, UsageIsCountedOnce
<1>3. IInv => CounterKeepsIncrements
  BY DEF IInv, CounterInv, Counted, CounterKeepsIncrements
<1>4. IInv => BudgetIsKept
  BY <1>1, <1>2, <1>3 DEF BudgetIsKept
<1> QED BY <1>4, ExecutionIsSound, PTL

-----------------------------------------------------------------------------
(* The runaway guard.                                                      *)

(* A guard row names a reason only while it is quarantined.                *)
ReasonWithQuarantine ==
  guard # Absent => (guard.reason = Absent <=> ~guard.quarantined)

(* What a guard call recorded and has yet to act on: a reason, taken from  *)
(* the thresholds unless the row was quarantined already; and one that was *)
(* still is, unless the installation was recovered since.                  *)
PendingRecord ==
  \A x \in Executions :
    /\ epoch[x] <= recoveries
    /\ pc[x] \in {"quarantine", "publish"} => guard # Absent /\ state[x] # Absent /\ reasonOf(state[x]) # Absent
    /\ pc[x] = "quarantine" /\ state[x].reason # Absent /\ epoch[x] = recoveries => Quarantined

(* What a guard call that made the transition has yet to publish: an       *)
(* incident of its own, with counters at a threshold when it is fresh.     *)
PendingPublication ==
  \A x \in Executions : pc[x] = "publish" =>
    /\ cause[x] # Absent /\ cause[x].incident \in 1..incidents
    /\ cause[x].fresh => state[x].reason = Absent
    /\ \A y \in Executions : pc[y] = "publish" /\ cause[y].incident = cause[x].incident => x = y
    /\ \A n \in notified : n.cause.incident # cause[x].incident

GuardInv ==
  /\ GuardTypeOK /\ ReasonWithQuarantine /\ PendingRecord /\ PendingPublication
  /\ QuarantineIsSound

-----------------------------------------------------------------------------
(* The UPSERT of an outcome yields a row whose quarantine and reason are   *)
(* those of the row it replaces.                                           *)
LEMMA OutcomeKeepsQuarantine ==
  ASSUME NEW g \in Guard \cup {Absent}, NEW outcome \in Outcomes
  PROVE  /\ outcomeStatement(g, outcome) \in Guard
         /\ g # Absent => /\ outcomeStatement(g, outcome).quarantined = g.quarantined
                        /\ outcomeStatement(g, outcome).reason = g.reason
         /\ g = Absent => /\ ~outcomeStatement(g, outcome).quarantined
                        /\ outcomeStatement(g, outcome).reason = Absent
<1> DEFINE old == IF g = Absent THEN [failures |-> 0, timeouts |-> 0, quarantined |-> FALSE, reason |-> Absent]
                  ELSE g
           failures == IF outcome = "success" THEN 0 ELSE old.failures + 1
           timeouts == IF outcome = "timeout" THEN old.timeouts + 1 ELSE 0
<1>1. old \in Guard /\ failures \in Nat /\ timeouts \in Nat
  BY DEF Guard
<1>2. outcomeStatement(g, outcome) = [[old EXCEPT !.failures = failures] EXCEPT !.timeouts = timeouts]
  BY DEF outcomeStatement
<1>3. g # Absent => old = g
  OBVIOUS
<1>4. g = Absent => ~old.quarantined /\ old.reason = Absent
  OBVIOUS
<1> HIDE DEF old, failures, timeouts
<1>5. outcomeStatement(g, outcome) =
        [failures |-> failures, timeouts |-> timeouts, quarantined |-> old.quarantined, reason |-> old.reason]
  BY <1>1, <1>2 DEF Guard
<1> QED
  BY <1>1, <1>3, <1>4, <1>5 DEF Guard

(* The reason of a row: the stored one, else the threshold it has reached, *)
(* timeouts first.                                                         *)
LEMMA ReasonOfRow ==
  ASSUME NEW s \in Guard
  PROVE  /\ reasonOf(s) \in Reasons \cup {Absent}
         /\ s.reason # Absent => reasonOf(s) = s.reason
         /\ s.reason = Absent /\ reasonOf(s) = "consecutive_timeouts" => s.timeouts >= TimeoutThreshold
         /\ s.reason = Absent /\ reasonOf(s) = "consecutive_failures" =>
              s.failures >= FailureThreshold /\ s.timeouts < TimeoutThreshold
         /\ reasonOf(s) = Absent => s.failures < FailureThreshold /\ s.timeouts < TimeoutThreshold
BY PolicyAssumption DEF reasonOf, quarantineReason, Guard, Reasons

LEMMA InitGuard == GuardInit => GuardInv
<1> SUFFICES ASSUME GuardInit PROVE GuardInv
  OBVIOUS
<1>1. GuardTypeOK
  BY DEF GuardInit, GuardTypeOK, Phases
<1>2. ReasonWithQuarantine /\ PendingRecord /\ PendingPublication
  BY DEF GuardInit, ReasonWithQuarantine, PendingRecord, PendingPublication
<1>3. QuarantineIsSound
  BY DEF GuardInit, QuarantineIsSound, OneNotificationPerIncident, NotifiedAtThreshold, NoMissedThreshold,
         QuarantineDisables, Quarantined
<1> QED
  BY <1>1, <1>2, <1>3 DEF GuardInv

(* A step of x that only moves its pc, to a phase that neither records nor *)
(* publishes, keeps the invariant.                                         *)
LEMMA QuietKeepsGuard ==
  ASSUME GuardInv, NEW x \in Executions, NEW p \in {"running", "ok", "quarantined", "rejected"},
         pc' = [pc EXCEPT ![x] = p], pc[x] = "quarantine" => p = "rejected" \/ Quarantined,
         UNCHANGED <<enabled, revision, guard, state, notified, incidents, recoveries, reenabled, epoch, cause>>,
         pc[x] # "rejected"
  PROVE  GuardInv'
<1>1. GuardTypeOK' /\ ReasonWithQuarantine' /\ PendingRecord' /\ PendingPublication'
  BY DEF GuardInv, GuardTypeOK, ReasonWithQuarantine, PendingRecord, PendingPublication, Phases, Quarantined
<1>2. OneNotificationPerIncident' /\ NotifiedAtThreshold' /\ QuarantineDisables'
  BY DEF GuardInv, QuarantineIsSound, OneNotificationPerIncident, NotifiedAtThreshold, QuarantineDisables, Quarantined
<1>3. NoMissedThreshold'
  BY DEF GuardInv, QuarantineIsSound, NoMissedThreshold, Quarantined, GuardTypeOK
<1> QED
  BY <1>1, <1>2, <1>3 DEF GuardInv, QuarantineIsSound

LEMMA RecordKeepsGuard ==
  ASSUME GuardInv, NEW x \in Executions, NEW outcome \in Outcomes, recordOutcome(x, outcome)
  PROVE  GuardInv'
<1> DEFINE new == outcomeStatement(guard, outcome)
<1>1. /\ new \in Guard /\ guard' = new
      /\ guard # Absent => new.quarantined = guard.quarantined /\ new.reason = guard.reason
      /\ guard = Absent => ~new.quarantined /\ new.reason = Absent
  BY OutcomeKeepsQuarantine DEF GuardInv, GuardTypeOK, recordOutcome
<1>2. Quarantined' <=> Quarantined
  BY <1>1, PolicyAssumption DEF Quarantined
<1>3. /\ state' = [state EXCEPT ![x] = new] /\ epoch' = [epoch EXCEPT ![x] = recoveries]
      /\ \/ pc' = [pc EXCEPT ![x] = "quarantine"] /\ reasonOf(new) # Absent
         \/ pc' = [pc EXCEPT ![x] = "ok"] /\ reasonOf(new) = Absent
         \/ pc' = [pc EXCEPT ![x] = "rejected"]
      /\ UNCHANGED <<enabled, revision, notified, incidents, recoveries, reenabled, cause>>
      /\ pc[x] = "running"
  BY DEF recordOutcome
<1> HIDE DEF new
<1>4. GuardTypeOK'
  BY <1>1, <1>3 DEF GuardInv, GuardTypeOK, Phases
<1>5. ReasonWithQuarantine'
  BY <1>1, PolicyAssumption DEF GuardInv, ReasonWithQuarantine
<1>6. PendingRecord'
  <2> SUFFICES ASSUME NEW y \in Executions
               PROVE  /\ epoch'[y] <= recoveries'
                      /\ pc'[y] \in {"quarantine", "publish"} =>
                           guard' # Absent /\ state'[y] # Absent /\ reasonOf(state'[y]) # Absent
                      /\ pc'[y] = "quarantine" /\ state'[y].reason # Absent /\ epoch'[y] = recoveries' => Quarantined'
    BY DEF PendingRecord, reasonOf, quarantineReason
  <2>1. CASE y = x
    BY <2>1, <1>1, <1>2, <1>3, PolicyAssumption DEF GuardInv, GuardTypeOK, ReasonWithQuarantine, Quarantined, Guard
  <2>2. CASE y # x
    BY <2>2, <1>1, <1>2, <1>3, PolicyAssumption DEF GuardInv, GuardTypeOK, PendingRecord
  <2> QED BY <2>1, <2>2
<1>7. PendingPublication'
  BY <1>3 DEF GuardInv, GuardTypeOK, PendingPublication
<1>8. OneNotificationPerIncident' /\ NotifiedAtThreshold' /\ QuarantineDisables'
  BY <1>2, <1>3 DEF GuardInv, QuarantineIsSound, OneNotificationPerIncident, NotifiedAtThreshold, QuarantineDisables
<1>9. NoMissedThreshold'
  <2>1. CASE reasonOf(new) = Absent
    BY <2>1, <1>1, ReasonOfRow, PolicyAssumption, <1>3 DEF NoMissedThreshold, Guard
  <2>2. CASE reasonOf(new) # Absent
    <3>1. pc'[x] \in {"quarantine", "rejected"}
      BY <2>2, <1>3 DEF GuardInv, GuardTypeOK
    <3> QED
      BY <3>1 DEF NoMissedThreshold
  <2> QED BY <2>1, <2>2
<1> QED
  BY <1>4, <1>5, <1>6, <1>7, <1>8, <1>9 DEF GuardInv, QuarantineIsSound

LEMMA TransitionKeepsGuard ==
  ASSUME GuardInv, NEW x \in Executions, quarantineIfEnabled(x), ~Quarantined
  PROVE  GuardInv'
<1>1. /\ pc[x] = "quarantine" /\ guard # Absent /\ guard \in Guard
      /\ state[x] \in Guard /\ reasonOf(state[x]) \in Reasons
  BY ReasonOfRow DEF GuardInv, GuardTypeOK, PendingRecord, quarantineIfEnabled
<1>2. /\ guard' = [guard EXCEPT !.quarantined = TRUE, !.reason = reasonOf(state[x])]
      /\ enabled' = FALSE /\ revision' \in {revision, revision + 1}
      /\ incidents' = incidents + 1 /\ reenabled' = FALSE
      /\ cause' = [cause EXCEPT ![x] = [incident |-> incidents + 1, fresh |-> epoch[x] = recoveries]]
      /\ pc' = [pc EXCEPT ![x] = "publish"] \/ pc' = [pc EXCEPT ![x] = "rejected"]
      /\ UNCHANGED <<state, notified, recoveries, epoch>>
  BY DEF quarantineIfEnabled, quarantineTrigger
<1>3. Quarantined' /\ guard' \in Guard /\ guard'.reason \in Reasons
  <2> DEFINE why == reasonOf(state[x])
             new == [guard EXCEPT !.quarantined = TRUE, !.reason = why]
  <2>1. why \in Reasons /\ guard' = new
    BY <1>1, <1>2
  <2> HIDE DEF why
  <2>2. new \in Guard /\ new.quarantined = TRUE /\ new.reason = why
    BY <1>1, <2>1 DEF Guard
  <2> HIDE DEF new
  <2>3. guard' # Absent
    BY <2>1, <2>2, PolicyAssumption
  <2> QED
    BY <2>1, <2>2, <2>3 DEF Quarantined
<1> DEFINE made == [incident |-> incidents + 1, fresh |-> epoch[x] = recoveries]
<1>a. made \in Cause /\ made.incident = incidents + 1 /\ (made.fresh => epoch[x] = recoveries)
  <2> DEFINE now == epoch[x] = recoveries
  <2>1. now \in BOOLEAN
    OBVIOUS
  <2>2. incidents + 1 \in Nat
    BY DEF GuardInv, GuardTypeOK
  <2>3. made = [incident |-> incidents + 1, fresh |-> now]
    OBVIOUS
  <2>4. made.fresh = now /\ made.incident = incidents + 1
    BY Zenon
  <2> HIDE DEF now, made
  <2>5. made \in Cause
    BY <2>1, <2>2, <2>3, Zenon DEF Cause
  <2> QED
    BY <2>4, <2>5, Zenon DEF now
<1>b. cause' = [cause EXCEPT ![x] = made]
  BY <1>2
<1> HIDE DEF made
<1>4. GuardTypeOK'
  <2>1. enabled' \in BOOLEAN /\ reenabled' \in BOOLEAN
    BY <1>2
  <2>2. revision' \in Nat /\ incidents' \in Nat
    BY <1>2 DEF GuardInv, GuardTypeOK
  <2>3. pc' \in [Executions -> Phases]
    BY <1>2 DEF GuardInv, GuardTypeOK, Phases
  <2>4. cause' \in [Executions -> Cause \cup {Absent}]
    BY <1>a, <1>b DEF GuardInv, GuardTypeOK
  <2> QED
    BY <2>1, <2>2, <2>3, <2>4, <1>2, <1>3 DEF GuardInv, GuardTypeOK
<1>5. ReasonWithQuarantine'
  BY <1>3, PolicyAssumption DEF ReasonWithQuarantine, Quarantined
<1>6. PendingRecord'
  BY <1>1, <1>2, <1>3, PolicyAssumption DEF GuardInv, GuardTypeOK, PendingRecord
<1>7. PendingPublication'
  <2> SUFFICES ASSUME NEW y \in Executions, pc'[y] = "publish"
               PROVE  /\ cause'[y] # Absent /\ cause'[y].incident \in 1..incidents'
                      /\ cause'[y].fresh => state'[y].reason = Absent
                      /\ \A z \in Executions : pc'[z] = "publish" /\ cause'[z].incident = cause'[y].incident => y = z
                      /\ \A n \in notified' : n.cause.incident # cause'[y].incident
    BY DEF PendingPublication
  <2>1. \A z \in Executions : z # x => cause'[z] = cause[z] /\ pc'[z] = pc[z]
    BY <1>2 DEF GuardInv, GuardTypeOK
  <2>2. \A z \in Executions : z # x /\ pc'[z] = "publish" => cause[z].incident \in 1..incidents
    BY <2>1 DEF GuardInv, PendingPublication
  <2>3. cause'[x] = made /\ incidents \in Nat /\ incidents' = incidents + 1
    BY <1>b, <1>2 DEF GuardInv, GuardTypeOK
  <2>4. \A n \in notified : n.cause.incident \in 1..incidents
    BY DEF GuardInv, QuarantineIsSound, OneNotificationPerIncident
  <2>5. CASE y = x
    <3>1. made.fresh => state[x].reason = Absent
      BY <1>a, <1>1 DEF GuardInv, PendingRecord
    <3> QED
      BY <2>5, <3>1, <1>a, <1>2, <2>1, <2>2, <2>3, <2>4, PolicyAssumption
  <2>6. CASE y # x
    <3>1. /\ cause[y] # Absent /\ cause[y].incident \in 1..incidents /\ (cause[y].fresh => state[y].reason = Absent)
          /\ \A z \in Executions : pc[z] = "publish" /\ cause[z].incident = cause[y].incident => y = z
          /\ \A n \in notified : n.cause.incident # cause[y].incident
      BY <2>1, <2>6 DEF GuardInv, PendingPublication
    <3> QED
      BY <2>6, <3>1, <1>a, <1>2, <2>1, <2>3
  <2> QED BY <2>5, <2>6
<1>8. OneNotificationPerIncident' /\ NotifiedAtThreshold' /\ QuarantineDisables' /\ NoMissedThreshold'
  BY <1>2, <1>3 DEF GuardInv, GuardTypeOK, QuarantineIsSound, OneNotificationPerIncident, NotifiedAtThreshold,
                    QuarantineDisables, NoMissedThreshold
<1> QED
  BY <1>4, <1>5, <1>6, <1>7, <1>8 DEF GuardInv, QuarantineIsSound

LEMMA PublishKeepsGuard ==
  ASSUME GuardInv, NEW x \in Executions, publish(x)
  PROVE  GuardInv'
<1> DEFINE n == notificationOf(x)
<1>1. /\ pc[x] = "publish" /\ state[x] \in Guard /\ reasonOf(state[x]) \in Reasons
      /\ cause[x] \in Cause /\ cause[x].incident \in 1..incidents
      /\ cause[x].fresh => state[x].reason = Absent
  BY ReasonOfRow DEF GuardInv, GuardTypeOK, PendingRecord, PendingPublication, publish
<1>2. /\ notified' = notified \cup {n} /\ pc' = [pc EXCEPT ![x] = "quarantined"]
      /\ UNCHANGED <<enabled, revision, guard, state, incidents, recoveries, reenabled, epoch, cause>>
  BY DEF publish
<1>3. n \in Notification /\ n.cause = cause[x] /\ n.reason = reasonOf(state[x])
      /\ n.failures = state[x].failures /\ n.timeouts = state[x].timeouts
  BY <1>1 DEF notificationOf, Notification, Guard
<1> HIDE DEF n
<1>4. GuardTypeOK'
  BY <1>2, <1>3 DEF GuardInv, GuardTypeOK, Phases
<1>5. ReasonWithQuarantine' /\ PendingRecord'
  BY <1>2 DEF GuardInv, GuardTypeOK, ReasonWithQuarantine, PendingRecord, Quarantined
<1>6. PendingPublication'
  BY <1>1, <1>2, <1>3 DEF GuardInv, GuardTypeOK, PendingPublication
<1>7. OneNotificationPerIncident'
  BY <1>1, <1>2, <1>3 DEF GuardInv, PendingPublication, QuarantineIsSound, OneNotificationPerIncident
<1>8. NotifiedAtThreshold'
  BY <1>1, <1>2, <1>3, ReasonOfRow DEF GuardInv, QuarantineIsSound, NotifiedAtThreshold, Reasons
<1>9. QuarantineDisables' /\ NoMissedThreshold'
  BY <1>1, <1>2 DEF GuardInv, GuardTypeOK, QuarantineIsSound, QuarantineDisables, NoMissedThreshold, Quarantined
<1> QED
  BY <1>4, <1>5, <1>6, <1>7, <1>8, <1>9 DEF GuardInv, QuarantineIsSound

LEMMA OperatorKeepsGuard ==
  ASSUME GuardInv, recover \/ \E value \in BOOLEAN : setEnabled(value)
  PROVE  GuardInv'
<1>1. CASE recover
  <2>1. /\ guard # Absent /\ ~Quarantined' /\ guard' \in Guard /\ guard' # Absent /\ guard'.reason = Absent
        /\ guard'.failures = 0 /\ guard'.timeouts = 0
        /\ enabled' \in BOOLEAN /\ revision' \in {revision, revision + 1} /\ reenabled' = FALSE
        /\ recoveries' = recoveries + 1 /\ UNCHANGED <<pc, state, notified, incidents, epoch, cause>>
    <3>1. revision' \in {revision, revision + 1} /\ enabled' \in BOOLEAN
      BY <1>1 DEF recover, recoveryTrigger
    <3>2. guard' = [failures |-> 0, timeouts |-> 0, quarantined |-> FALSE, reason |-> Absent] /\ guard # Absent
      BY <1>1 DEF recover, Quarantined
    <3>3. guard' \in Guard
      BY <3>2 DEF Guard
    <3>4. guard' # Absent
      BY <3>3, PolicyAssumption
    <3>5. guard'.reason = Absent /\ guard'.failures = 0 /\ guard'.timeouts = 0 /\ ~guard'.quarantined
      BY <3>2
    <3> QED
      BY <1>1, <3>1, <3>2, <3>3, <3>4, <3>5 DEF recover, Quarantined
  <2>2. GuardTypeOK'
    <3>1. revision' \in Nat /\ recoveries' \in Nat
      BY <2>1 DEF GuardInv, GuardTypeOK
    <3>2. enabled' \in BOOLEAN /\ reenabled' \in BOOLEAN
      BY <2>1
    <3> QED
      BY <2>1, <3>1, <3>2 DEF GuardInv, GuardTypeOK
  <2>5. ReasonWithQuarantine'
    BY <2>1 DEF ReasonWithQuarantine, Quarantined
  <2>3. PendingRecord' /\ PendingPublication'
    BY <2>1 DEF GuardInv, GuardTypeOK, PendingRecord, PendingPublication
  <2>4. OneNotificationPerIncident' /\ NotifiedAtThreshold' /\ QuarantineDisables' /\ NoMissedThreshold'
    BY <2>1, PolicyAssumption DEF GuardInv, QuarantineIsSound, OneNotificationPerIncident, NotifiedAtThreshold,
       QuarantineDisables, NoMissedThreshold
  <2> QED
    BY <2>2, <2>3, <2>4, <2>5 DEF GuardInv, QuarantineIsSound
<1>2. ASSUME NEW value \in BOOLEAN, setEnabled(value) PROVE GuardInv'
  BY <1>2 DEF setEnabled, GuardInv, GuardTypeOK, ReasonWithQuarantine, PendingRecord, PendingPublication,
     QuarantineIsSound, OneNotificationPerIncident, NotifiedAtThreshold, QuarantineDisables, NoMissedThreshold,
     Quarantined
<1> QED
  BY <1>1, <1>2

LEMMA NextKeepsGuard == GuardInv /\ [GuardNext]_guardVars => GuardInv'
<1> SUFFICES ASSUME GuardInv, [GuardNext]_guardVars PROVE GuardInv'
  OBVIOUS
<1>1. ASSUME NEW x \in Executions, StartExecution(x) PROVE GuardInv'
  BY <1>1, QuietKeepsGuard DEF StartExecution
<1>2. ASSUME NEW x \in Executions, NEW outcome \in Outcomes, recordOutcome(x, outcome) PROVE GuardInv'
  BY <1>2, RecordKeepsGuard
<1>3. ASSUME NEW x \in Executions, quarantineIfEnabled(x) PROVE GuardInv'
  <2>1. CASE ~Quarantined
    BY <1>3, <2>1, TransitionKeepsGuard
  <2>2. CASE Quarantined
    BY <1>3, <2>2, QuietKeepsGuard DEF quarantineIfEnabled
  <2> QED BY <2>1, <2>2
<1>4. ASSUME NEW x \in Executions, publish(x) PROVE GuardInv'
  BY <1>4, PublishKeepsGuard
<1>5. ASSUME NEW x \in Executions, reject(x) PROVE GuardInv'
  BY <1>5, QuietKeepsGuard DEF reject
<1>6. CASE recover \/ \E value \in BOOLEAN : setEnabled(value)
  BY <1>6, OperatorKeepsGuard
<1>7. CASE UNCHANGED guardVars
  BY <1>7 DEF guardVars, GuardInv, GuardTypeOK, ReasonWithQuarantine, PendingRecord, PendingPublication,
     QuarantineIsSound, OneNotificationPerIncident, NotifiedAtThreshold, QuarantineDisables, NoMissedThreshold,
     Quarantined
<1> QED
  BY <1>1, <1>2, <1>3, <1>4, <1>5, <1>6, <1>7 DEF GuardNext, Guarding

LEMMA GuardInvariance == GuardSpec => []GuardInv
BY InitGuard, NextKeepsGuard, PTL DEF GuardSpec

-----------------------------------------------------------------------------
(* The guard's row, its counters and the history of each call keep their   *)
(* types (runaway-guard.ts, migration 0013).                               *)
THEOREM GuardTypes == GuardSpec => []GuardTypeOK
<1>1. GuardInv => GuardTypeOK
  BY DEF GuardInv
<1> QED
  BY <1>1, GuardInvariance, PTL

(* However many executions finish together, and whatever fails between two *)
(* D1 calls: one transition publishes at most once, a fresh notification   *)
(* reports counters at the threshold it names, counters at a threshold are *)
(* quarantined or some guard call still has to or failed to, and a         *)
(* quarantined installation is disabled unless another writer enabled it.  *)
THEOREM GuardIsSound == GuardSpec => []QuarantineIsSound
<1>1. GuardInv => QuarantineIsSound
  BY DEF GuardInv
<1> QED
  BY <1>1, GuardInvariance, PTL

(* recoverRunawayInstallation is the only statement that ends a            *)
(* quarantine: outcomes in flight and other writers of the enabled flag    *)
(* leave it.                                                               *)
THEOREM RecoveryAloneReleases == GuardSpec => OnlyRecoveryReleases
<1>1. GuardTypeOK /\ [GuardNext]_guardVars => [Quarantined /\ ~Quarantined' => recoveries' = recoveries + 1]_guardVars
  <2> SUFFICES ASSUME GuardTypeOK, GuardNext, Quarantined, ~Quarantined'
               PROVE  recoveries' = recoveries + 1
    OBVIOUS
  <2>1. guard \in Guard /\ guard # Absent /\ guard.quarantined /\ guard' # guard
    BY DEF GuardTypeOK, Quarantined
  <2>2. ASSUME NEW x \in Executions, NEW outcome \in Outcomes, recordOutcome(x, outcome) PROVE FALSE
    BY <2>1, <2>2, OutcomeKeepsQuarantine, PolicyAssumption DEF recordOutcome, Quarantined
  <2>3. ASSUME NEW x \in Executions, quarantineIfEnabled(x) PROVE FALSE
    BY <2>1, <2>3 DEF quarantineIfEnabled, Quarantined
  <2>4. ASSUME NEW x \in Executions, StartExecution(x) \/ publish(x) \/ reject(x) PROVE FALSE
    BY <2>1, <2>4 DEF StartExecution, publish, reject
  <2>5. ASSUME NEW value \in BOOLEAN, setEnabled(value) PROVE FALSE
    BY <2>1, <2>5 DEF setEnabled
  <2> QED
    BY <2>2, <2>3, <2>4, <2>5 DEF GuardNext, Guarding, recover
<1> QED
  BY <1>1, GuardTypes, PTL DEF GuardSpec, OnlyRecoveryReleases
=============================================================================
