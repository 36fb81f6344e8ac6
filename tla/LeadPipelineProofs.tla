-------------------------- MODULE LeadPipelineProofs --------------------------
(***************************************************************************)
(* The lead pipeline keeps its invariants and implements LeadLedger for    *)
(* any number of workspaces, posts, requests and worker runs, any attempt  *)
(* and stall limits and any retention.                                     *)
(***************************************************************************)
EXTENDS LeadPipeline, FiniteSetTheorems, TLAPS

\* The local states an idle process has are of their types.
LEMMA IdleTypes == IdleIngest \in IngestRecord /\ IdleRun \in RunRecord
                   /\ NoJob \in JobRecord /\ FreshJob \in JobRecord
<1>1. IdleIngest \in IngestRecord
  BY SourceAssumption DEF IdleIngest, IngestRecord
<1>2. IdleRun \in RunRecord
  BY SourceAssumption DEF IdleRun, RunRecord
<1>3. NoJob \in JobRecord /\ FreshJob \in JobRecord
  BY DEF NoJob, FreshJob, JobRecord, JobState
<1> QED
  BY <1>1, <1>2, <1>3

\* IInv holds initially.
LEMMA InitIInv == Init => IInv
<1> SUFFICES ASSUME Init PROVE IInv
  OBVIOUS
<1>1. TypeOK
  <2>1. classified \in [Pair -> Seq(Verdict)]
    BY DEF Init
  <2>2. finished \in Seq(Pair) /\ dead \in Seq(Pair)
    BY DEF Init
  <2> QED
    BY <2>1, <2>2, IdleTypes, BoundAssumption DEF Init, TypeOK
<1>2. /\ \A r \in Run : run[r].pc = "idle"
      /\ \A k \in Pair : job[k].state = "absent" /\ job[k].holder = NoRun /\ leads[k] = NoLead
  BY DEF Init, IdleRun, NoJob
<1> QED
  BY <1>1, <1>2
     DEF IInv, WorkIsQueued, RunsAreBacked, JobsHaveBudget, LeadBacked,
         CompletedResultIsStored, FailedIsExhausted

\* The types of the request side.
IngestTypes ==
  /\ sources \subseteq Source /\ posts \subseteq Post
  /\ discoveries \subseteq Workspace \X Post \X Source
  /\ dropped \subseteq Workspace \X Post \X Source
  /\ ingest \in [Caller -> IngestRecord]
  /\ requests \in Nat

\* The types of the queue.
QueueTypes ==
  /\ job \in [Pair -> JobRecord]
  /\ finished \in Seq(Pair) /\ dead \in Seq(Pair)
  /\ queued \subseteq Pair /\ hung \subseteq Pair
  /\ generations \in [Pair -> Nat]

\* The types of the worker side.
WorkerTypes ==
  /\ classified \in [Pair -> Seq(Verdict)]
  /\ leads \in [Pair -> LeadRecord \cup {NoLead}]
  /\ run \in [Run -> RunRecord]

\* Requests keep the types of their rows and local states.
LEMMA IngestTypeStep == IInv /\ [Next]_vars => IngestTypes'
<1> SUFFICES ASSUME IngestTypes, [Next]_vars PROVE IngestTypes'
  BY DEF IInv, TypeOK, IngestTypes
<1> USE DEF IngestTypes
<1>1. ASSUME NEW c \in Caller, NextPost(c) PROVE ingest' \in [Caller -> IngestRecord]
  BY <1>1, IdleTypes DEF NextPost, IngestRecord
<1>2. ASSUME NEW c \in Caller
      PROVE  Discovery(c) \in Workspace \X Post \X Source
  BY DEF Discovery, IngestRecord
<1>3. ASSUME NEW c \in Caller, StartBatch(c) PROVE IngestTypes'
  <2>1. PICK s \in sources, batch \in SUBSET Post :
          ingest' = [ingest EXCEPT ![c].pc = "post", ![c].ws = WorkspaceOf[s],
                                   ![c].src = s, ![c].todo = batch]
    BY <1>3 DEF StartBatch
  <2>2. ingest' \in [Caller -> IngestRecord]
    <3>1. WorkspaceOf[s] \in Workspace /\ s \in Source
      BY SourceAssumption
    <3>2. [ingest[c] EXCEPT !.pc = "post", !.ws = WorkspaceOf[s],
                            !.src = s, !.todo = batch] \in IngestRecord
      BY <3>1 DEF IngestRecord
    <3> QED
      BY <2>1, <3>2
  <2> QED
    BY <1>3, <2>2 DEF StartBatch, CountRequest, dbVars
<1>4. ASSUME NEW c \in Caller, UpsertPost(c) PROVE IngestTypes'
  <2>1. PICK p \in ingest[c].todo :
          /\ posts' = posts \cup {p}
          /\ ingest' = [ingest EXCEPT ![c].pc = "find", ![c].post = p]
    BY <1>4 DEF UpsertPost
  <2>2. p \in Post
    BY <2>1 DEF IngestRecord
  <2>3. [ingest[c] EXCEPT !.pc = "find", !.post = p] \in IngestRecord
    BY <2>2 DEF IngestRecord
  <2> QED
    BY <1>4, <2>1, <2>2, <2>3 DEF UpsertPost, historyVars
<1>5. ASSUME NEW c \in Caller, FindDiscovery(c) PROVE IngestTypes'
  <2>1. [ingest[c] EXCEPT !.pc = "discover", !.existing = Discovery(c) \in discoveries]
          \in IngestRecord
    <3>1. ASSUME NEW b \in BOOLEAN
          PROVE  [ingest[c] EXCEPT !.pc = "discover", !.existing = b] \in IngestRecord
      BY DEF IngestRecord
    <3>2. (Discovery(c) \in discoveries) \in BOOLEAN
      OBVIOUS
    <3> QED
      BY <3>1, <3>2
  <2> QED
    BY <1>5, <2>1 DEF FindDiscovery, dbVars, historyVars
<1>6. ASSUME NEW c \in Caller, UpsertDiscovery(c) PROVE IngestTypes'
  <2>1. ingest' \in [Caller -> IngestRecord]
    BY <1>1, <1>6 DEF UpsertDiscovery, IngestRecord
  <2> QED
    BY <1>2, <1>6, <2>1 DEF UpsertDiscovery, historyVars
<1>7. ASSUME NEW c \in Caller, EnqueueDiscovered(c) PROVE IngestTypes'
  BY <1>1, <1>7 DEF EnqueueDiscovered, dbVars
<1>8. ASSUME NEW c \in Caller, StartManual(c) PROVE IngestTypes'
  <2>1. PICK w \in Workspace, s \in Source, p \in Post :
          ingest' = [ingest EXCEPT ![c] = [IdleIngest EXCEPT !.pc = "commit",
                       !.ws = w, !.src = s, !.post = p, !.todo = {p}]]
    BY <1>8 DEF StartManual
  <2>2. [IdleIngest EXCEPT !.pc = "commit", !.ws = w, !.src = s, !.post = p, !.todo = {p}]
          \in IngestRecord
    BY IdleTypes DEF IngestRecord
  <2> QED
    BY <1>8, <2>1, <2>2 DEF StartManual, CountRequest, dbVars
<1>9. ASSUME NEW c \in Caller, CommitManual(c) PROVE IngestTypes'
  <2>1. ingest[c].src \in Source /\ ingest[c].post \in Post
    BY DEF IngestRecord
  <2>2. ingest' \in [Caller -> IngestRecord]
    BY <1>9 DEF CommitManual, IngestRecord
  <2> QED
    BY <1>2, <1>9, <2>1, <2>2 DEF CommitManual, historyVars
<1>10. ASSUME NEW c \in Caller, IngestFails(c) PROVE IngestTypes'
  BY <1>2, <1>10, IdleTypes DEF IngestFails, dbVars
<1>11. ASSUME NEW s \in Source, RemoveSource(s) PROVE IngestTypes'
  BY <1>11 DEF RemoveSource, historyVars
<1>12. CASE UNCHANGED <<sources, posts, discoveries, dropped, ingest>>
            /\ (requests' = requests \/ CountRequest)
  BY <1>12 DEF CountRequest
<1> QED
  <2>1. CASE \E r \in Run : RunStep(r) \/ RunCrashes(r)
    BY <1>12, <2>1
       DEF RunStep, Classify, Record, Publish, Finish, RunFails, RunCrashes, dbVars, historyVars
  <2>2. CASE \E k \in Pair : \/ ClassifyPost(k) \/ UpdateLeadStatus(k) \/ PromoteDelayed(k)
                             \/ Stall(k) \/ \E r \in Run : Take(r, k)
    BY <1>12, <2>2
       DEF ClassifyPost, UpdateLeadStatus, PromoteDelayed, Stall, Take, dbVars, historyVars
  <2>3. CASE OthersComplete \/ OthersFail \/ UNCHANGED vars
    BY <1>12, <2>3 DEF OthersComplete, OthersFail, vars, dbVars, historyVars
  <2> QED
    BY <1>3, <1>4, <1>5, <1>6, <1>7, <1>8, <1>9, <1>10, <1>11, <2>1, <2>2, <2>3
       DEF Next, CallerStep

\* A job that lost its holder is a job.
LEMMA ReleasedJob ==
  ASSUME NEW j \in JobRecord, NEW state \in JobState, NEW n \in Nat, NEW m \in Nat
  PROVE  /\ [j EXCEPT !.state = state, !.made = n, !.holder = NoRun] \in JobRecord
         /\ [j EXCEPT !.state = state, !.stalls = n, !.holder = NoRun] \in JobRecord
         /\ [j EXCEPT !.state = state, !.made = n, !.holder = NoRun, !.result = m] \in JobRecord
<1>1. ASSUME NEW i \in JobRecord
      PROVE  /\ [i EXCEPT !.state = state] \in JobRecord /\ [i EXCEPT !.made = n] \in JobRecord
             /\ [i EXCEPT !.stalls = n] \in JobRecord /\ [i EXCEPT !.result = m] \in JobRecord
             /\ [i EXCEPT !.holder = NoRun] \in JobRecord
  BY DEF JobRecord
<1> QED
  BY <1>1

\* The queue keeps the types of its jobs and lists.
LEMMA QueueTypeStep == IInv /\ [Next]_vars => QueueTypes'
<1> SUFFICES ASSUME QueueTypes, IngestTypes, WorkerTypes, WorkIsQueued, [Next]_vars
             PROVE  QueueTypes'
  BY DEF IInv, TypeOK, QueueTypes, IngestTypes, WorkerTypes
<1> USE IdleTypes DEF QueueTypes
<1>1. ASSUME NEW k \in Pair, Enqueue(k), UNCHANGED <<finished, dead, hung>>
      PROVE  QueueTypes'
  <2>1. CASE job[k].state = "absent"
    <3>1. job' \in [Pair -> JobRecord]
      BY <1>1, <2>1 DEF Enqueue
    <3>2. generations' \in [Pair -> Nat]
      BY <1>1, <2>1, SMTT(30) DEF Enqueue
    <3> QED
      BY <1>1, <3>1, <3>2 DEF Enqueue
  <2>2. CASE job[k].state # "absent"
    BY <1>1, <2>2 DEF Enqueue
  <2> QED
    BY <2>1, <2>2
<1>2. ASSUME NEW list \in Seq(Pair), NEW k \in Pair, NEW keep \in Nat \ {0}
      PROVE  Retain(list, k, keep) \in Seq(Pair)
  <2>1. CASE Len(list) >= keep
    <3>1. list # <<>> /\ Tail(list) \in Seq(Pair)
      BY <2>1
    <3> QED
      BY <2>1, <3>1 DEF Retain
  <2>2. CASE ~(Len(list) >= keep)
    BY <2>2 DEF Retain
  <2> QED
    BY <2>1, <2>2
<1>3. ASSUME NEW k \in Pair, NEW record \in JobRecord, NEW evicted, SettleJob(k, record, evicted)
      PROVE  job' \in [Pair -> JobRecord]
  BY <1>3 DEF SettleJob
<1>4. ASSUME NEW k \in Pair, NEW made \in Nat, Bury(k, made),
             UNCHANGED <<queued, generations>>, hung' \subseteq Pair
      PROVE  QueueTypes'
  <2>1. [job[k] EXCEPT !.state = "failed", !.made = made, !.holder = NoRun] \in JobRecord
    BY DEF JobRecord, JobState
  <2>2. job' \in [Pair -> JobRecord]
    BY <1>3, <1>4, <2>1 DEF Bury
  <2> QED
    BY <1>2, <1>4, <2>2, BoundAssumption DEF Bury
<1>5. ASSUME NEW k \in Pair, NEW r \in Run, Take(r, k) PROVE QueueTypes'
  <2>1. [job[k] EXCEPT !.state = "active", !.holder = r] \in JobRecord
    BY DEF JobRecord, JobState
  <2> QED
    BY <1>5, <2>1 DEF Take, historyVars
<1>6. ASSUME NEW r \in Run, Finish(r) PROVE QueueTypes'
  <2> DEFINE k == run[r].pair
  <2>1. k \in Pair /\ run[r].row \in Nat
    BY <1>6 DEF Finish, WorkIsQueued, WorkerTypes, RunRecord
  <2>2. CASE job[k].holder = r
    <3>1. [job[k] EXCEPT !.state = "completed", !.made = @ + 1, !.holder = NoRun,
                         !.result = run[r].row] \in JobRecord
      <4>1. job[k] \in JobRecord /\ job[k].made + 1 \in Nat /\ run[r].row \in Nat
        BY <2>1, SMTT(30) DEF JobRecord
      <4> QED
        BY <4>1, ReleasedJob DEF JobState
    <3>2. job' \in [Pair -> JobRecord]
      BY <1>3, <1>6, <2>1, <2>2, <3>1 DEF Finish
    <3>3. finished' = Retain(finished, k, KeepCompleted)
      BY <1>6, <2>2 DEF Finish
    <3> QED
      BY <1>2, <1>6, <2>1, <2>2, <3>2, <3>3, BoundAssumption DEF Finish, historyVars
  <2>3. CASE job[k].holder # r
    BY <1>6, <2>3 DEF Finish, queueVars, historyVars
  <2> QED
    BY <2>2, <2>3
<1>7. ASSUME NEW r \in Run, RunFails(r) PROVE QueueTypes'
  <2> DEFINE k == run[r].pair
  <2>1. k \in Pair /\ job[k].made + 1 \in Nat
    <3>1. k \in Pair
      BY <1>7 DEF RunFails, WorkIsQueued
    <3>2. job[k] \in JobRecord
      BY <3>1
    <3>3. \A j \in JobRecord : j.made + 1 \in Nat
      BY DEF JobRecord
    <3> QED
      BY <3>1, <3>2, <3>3
  <2>2. CASE job[k].holder # r
    BY <1>7, <2>2 DEF RunFails, queueVars, historyVars
  <2>3. CASE job[k].holder = r /\ job[k].made + 1 < MaxAttempts
    <3>1. [job[k] EXCEPT !.state = "delayed", !.made = @ + 1, !.holder = NoRun] \in JobRecord
      BY <2>1 DEF JobRecord, JobState
    <3> QED
      BY <1>7, <2>1, <2>3, <3>1 DEF RunFails, historyVars
  <2>4. CASE job[k].holder = r /\ ~(job[k].made + 1 < MaxAttempts)
    <3>1. Bury(k, job[k].made + 1)
      BY <1>7, <2>4 DEF RunFails
    <3> QED
      BY <1>4, <1>7, <2>1, <3>1 DEF RunFails, historyVars
  <2> QED
    BY <2>2, <2>3, <2>4
<1>8. ASSUME NEW r \in Run, RunCrashes(r) PROVE QueueTypes'
  BY <1>8 DEF RunCrashes, historyVars, WorkIsQueued, JobRecord
<1>9. ASSUME NEW k \in Pair, PromoteDelayed(k) PROVE QueueTypes'
  BY <1>9 DEF PromoteDelayed, historyVars, JobRecord, JobState
<1>10. ASSUME NEW k \in Pair, Stall(k) PROVE QueueTypes'
  <2>1. hung' \subseteq Pair
    BY <1>10 DEF Stall
  <2>2. CASE job[k].stalls < MaxStalls
    <3>1. [job[k] EXCEPT !.state = "waiting", !.stalls = @ + 1, !.holder = NoRun] \in JobRecord
      <4>1. job[k] \in JobRecord /\ job[k].stalls + 1 \in Nat
        BY DEF JobRecord
      <4> QED
        BY <4>1, ReleasedJob DEF JobState
    <3> QED
      BY <1>10, <2>1, <2>2, <3>1 DEF Stall
  <2>3. CASE ~(job[k].stalls < MaxStalls)
    <3>1. job[k].made \in Nat
      BY DEF JobRecord
    <3> QED
      BY <1>4, <1>10, <2>1, <2>3, <3>1 DEF Stall
  <2> QED
    BY <2>2, <2>3
<1>11. ASSUME NEW c \in Caller, EnqueueDiscovered(c) PROVE QueueTypes'
  <2>1. IngestPair(c) \in Pair
    BY DEF IngestPair, Pair, IngestTypes, IngestRecord
  <2> QED
    BY <1>1, <1>11, <2>1 DEF EnqueueDiscovered
<1>12. CASE UNCHANGED <<job, finished, dead, queued, hung, generations>>
  BY <1>12
<1>14. CASE OthersComplete
  <2>1. /\ job' = [job EXCEPT ![Head(finished)] = NoJob] /\ finished' = Tail(finished)
        /\ finished # <<>> /\ UNCHANGED <<dead, queued, hung, generations>>
    BY <1>14 DEF OthersComplete, historyVars
  <2> QED
    BY <2>1
<1>15. CASE OthersFail
  <2>1. /\ job' = [job EXCEPT ![Head(dead)] = NoJob] /\ dead' = Tail(dead)
        /\ dead # <<>> /\ UNCHANGED <<finished, queued, hung, generations>>
    BY <1>15 DEF OthersFail, historyVars
  <2> QED
    BY <2>1
<1>13. ASSUME NEW k \in Pair, ClassifyPost(k) PROVE QueueTypes'
  BY <1>1, <1>13 DEF ClassifyPost
<1> QED
  <2>1. CASE \E c \in Caller : CallerStep(c)
    BY <1>11, <1>12, <2>1
       DEF CallerStep, StartBatch, UpsertPost, FindDiscovery, UpsertDiscovery, StartManual,
           CommitManual, IngestFails, queueVars, historyVars
  <2>2. CASE \E r \in Run : Classify(r) \/ Record(r) \/ Publish(r)
    BY <1>12, <2>2 DEF Classify, Record, Publish, queueVars, historyVars
  <2>3. CASE \/ \E s \in Source : RemoveSource(s)
             \/ \E k \in Pair : UpdateLeadStatus(k)
             \/ UNCHANGED vars
    BY <1>12, <2>3 DEF RemoveSource, UpdateLeadStatus, vars, queueVars, historyVars
  <2> QED
    BY <1>5, <1>6, <1>7, <1>8, <1>9, <1>10, <1>13, <1>14, <1>15, <2>1, <2>2, <2>3 DEF Next, RunStep

\* The worker keeps the types of its rows, leads and runs.
LEMMA WorkerTypeStep == IInv /\ [Next]_vars => WorkerTypes'
<1> SUFFICES ASSUME WorkerTypes, WorkIsQueued, [Next]_vars PROVE WorkerTypes'
  BY DEF IInv, TypeOK, WorkerTypes
<1> USE IdleTypes DEF WorkerTypes
<1>1. ASSUME NEW k \in Pair, NEW r \in Run, Take(r, k) PROVE WorkerTypes'
  <2>1. [IdleRun EXCEPT !.pc = "classify", !.pair = k] \in RunRecord
    BY DEF RunRecord
  <2> QED
    BY <1>1, <2>1 DEF Take, dbVars
<1>2. ASSUME NEW r \in Run, Classify(r) PROVE WorkerTypes'
  <2>1. PICK v \in Verdict : run' = [run EXCEPT ![r].pc = "record", ![r].verdict = v]
    BY <1>2 DEF Classify
  <2>2. [run[r] EXCEPT !.pc = "record", !.verdict = v] \in RunRecord
    BY DEF RunRecord
  <2> QED
    BY <1>2, <2>1, <2>2 DEF Classify, dbVars
<1>3. ASSUME NEW r \in Run, Record(r) PROVE WorkerTypes'
  <2> DEFINE k == run[r].pair
  <2>1. k \in Pair /\ run[r].verdict \in Verdict
    BY <1>3 DEF Record, WorkIsQueued, RunRecord
  <2>2. /\ Append(classified[k], run[r].verdict) \in Seq(Verdict)
        /\ Len(classified[k]) + 1 \in Nat
    BY <2>1
  <2>3. ASSUME NEW pc \in {"publish", "finish"}
        PROVE  [run[r] EXCEPT !.row = Len(classified[k]) + 1, !.pc = pc] \in RunRecord
    BY <2>2 DEF RunRecord
  <2>4. run' \in [Run -> RunRecord]
    <3>1. PICK pc \in {"publish", "finish"} :
            run' = [run EXCEPT ![r].row = Len(classified[k]) + 1, ![r].pc = pc]
      BY <1>3 DEF Record
    <3> QED
      BY <2>3, <3>1
  <2> QED
    BY <1>3, <2>1, <2>2, <2>4 DEF Record
<1>4. ASSUME NEW r \in Run, Publish(r) PROVE WorkerTypes'
  <2> DEFINE k == run[r].pair
  <2>1. k \in Pair /\ run[r].verdict \in Verdict /\ run[r].row \in Nat
    BY <1>4 DEF Publish, WorkIsQueued, RunRecord
  <2>2. run[r].verdict.priorityScore \in Nat
    BY <2>1, VerdictAssumption
  <2>3. (IF leads[k] = NoLead THEN "NEW" ELSE leads[k].status) \in LeadStatus
    BY <2>1, StatusAssumption DEF LeadRecord
  <2>4. run' \in [Run -> RunRecord]
    BY <1>4 DEF Publish, RunRecord
  <2> QED
    BY <1>4, <2>1, <2>2, <2>3, <2>4 DEF Publish, LeadRecord
<1>5. ASSUME NEW k \in Pair, UpdateLeadStatus(k) PROVE WorkerTypes'
  BY <1>5 DEF UpdateLeadStatus, LeadRecord
<1>6. CASE \E r \in Run : Finish(r) \/ RunFails(r) \/ RunCrashes(r)
  BY <1>6 DEF Finish, RunFails, RunCrashes, dbVars
<1>7. CASE UNCHANGED <<classified, leads, run>>
  BY <1>7
<1> QED
  <2>1. CASE \E c \in Caller : CallerStep(c)
    BY <1>7, <2>1
       DEF CallerStep, StartBatch, UpsertPost, FindDiscovery, UpsertDiscovery,
           EnqueueDiscovered, StartManual, CommitManual, IngestFails, dbVars
  <2>2. CASE \/ \E s \in Source : RemoveSource(s)
             \/ \E k \in Pair : ClassifyPost(k) \/ PromoteDelayed(k) \/ Stall(k)
             \/ OthersComplete \/ OthersFail \/ UNCHANGED vars
    BY <1>7, <2>2 DEF OthersComplete, OthersFail, RemoveSource, ClassifyPost, PromoteDelayed,
       Stall, vars, dbVars
  <2> QED
    BY <1>1, <1>2, <1>3, <1>4, <1>5, <1>6, <2>1, <2>2 DEF Next, RunStep

\* Every step preserves the types.
LEMMA TypeStep == IInv /\ [Next]_vars => TypeOK'
BY IngestTypeStep, QueueTypeStep, WorkerTypeStep
   DEF TypeOK, IngestTypes, QueueTypes, WorkerTypes

\* Nothing leaves the queue's history.
LEMMA QueuedStep == [Next]_vars => queued \subseteq queued'
BY DEF Next, CallerStep, RunStep, StartBatch, UpsertPost, FindDiscovery, UpsertDiscovery,
       EnqueueDiscovered, StartManual, CommitManual, IngestFails, RemoveSource, ClassifyPost,
       UpdateLeadStatus, Take, Classify, Record, Publish, Finish, RunFails, RunCrashes,
       PromoteDelayed, Stall, OthersComplete, OthersFail, Enqueue, vars, historyVars

\* Only Take starts a run, and on a waiting job; a run keeps its pair.
LEMMA RunStarts ==
  ASSUME IInv, [Next]_vars, NEW r \in Run, run'[r].pc # "idle"
  PROVE  \/ run[r].pc # "idle" /\ run'[r].pair = run[r].pair
         \/ \E k \in Pair : /\ run'[r] = [IdleRun EXCEPT !.pc = "classify", !.pair = k]
                            /\ job[k].state = "waiting"
<1>0. run \in [Run -> RunRecord] /\ IdleRun.pc = "idle"
  BY DEF IInv, TypeOK, IdleRun
<1>1. ASSUME NEW q \in Run, NEW k \in Pair, Take(q, k)
      PROVE  \/ run'[r] = run[r]
             \/ /\ run'[r] = [IdleRun EXCEPT !.pc = "classify", !.pair = k]
                /\ job[k].state = "waiting"
  BY <1>0, <1>1 DEF Take
<1>2. ASSUME NEW q \in Run, Classify(q)
      PROVE  run[r].pc # "idle" /\ run'[r].pair = run[r].pair
  <2>1. PICK v \in Verdict : run' = [run EXCEPT ![q].pc = "record", ![q].verdict = v]
    BY <1>2 DEF Classify
  <2>2. run'[q] = [run[q] EXCEPT !.pc = "record", !.verdict = v] /\ run[q].pc = "classify"
    BY <1>0, <1>2, <2>1 DEF Classify
  <2>3. run'[q].pair = run[q].pair /\ (r # q => run'[r] = run[r])
    BY <1>0, <2>1, <2>2 DEF RunRecord
  <2> QED
    BY <2>2, <2>3
<1>3. ASSUME NEW q \in Run, Record(q)
      PROVE  run[r].pc # "idle" /\ run'[r].pair = run[r].pair
  <2>1. PICK pc \in {"publish", "finish"} :
          run' = [run EXCEPT ![q].row = Len(classified[run[q].pair]) + 1, ![q].pc = pc]
    BY <1>3 DEF Record
  <2>2. run'[q] = [run[q] EXCEPT !.row = Len(classified[run[q].pair]) + 1, !.pc = pc]
        /\ run[q].pc = "record"
    BY <1>0, <1>3, <2>1 DEF Record
  <2>3. run'[q].pair = run[q].pair /\ (r # q => run'[r] = run[r])
    BY <1>0, <2>1, <2>2 DEF RunRecord
  <2> QED
    BY <2>2, <2>3
<1>4. ASSUME NEW q \in Run, Publish(q)
      PROVE  run[r].pc # "idle" /\ run'[r].pair = run[r].pair
  BY <1>0, <1>4 DEF Publish, RunRecord
<1>5. ASSUME NEW q \in Run, Finish(q) \/ RunFails(q) \/ RunCrashes(q)
      PROVE  run'[r] = run[r]
  BY <1>0, <1>5 DEF Finish, RunFails, RunCrashes
<1>6. CASE run' = run
  BY <1>6
<1> QED
  <2>1. CASE \E c \in Caller : CallerStep(c)
    BY <1>6, <2>1
       DEF CallerStep, StartBatch, UpsertPost, FindDiscovery, UpsertDiscovery,
           EnqueueDiscovered, StartManual, CommitManual, IngestFails
  <2>2. CASE \/ \E s \in Source : RemoveSource(s)
             \/ \E k \in Pair : \/ ClassifyPost(k) \/ UpdateLeadStatus(k)
                                \/ PromoteDelayed(k) \/ Stall(k)
             \/ OthersComplete \/ OthersFail \/ UNCHANGED vars
    BY <1>6, <2>2 DEF OthersComplete, OthersFail, RemoveSource, ClassifyPost, UpdateLeadStatus,
       PromoteDelayed, Stall, vars
  <2> QED
    BY <1>1, <1>2, <1>3, <1>4, <1>5, <2>1, <2>2 DEF Next, RunStep

\* Jobs and runs are of pairs that were queued.
LEMMA WorkStep == IInv /\ [Next]_vars => WorkIsQueued'
<1> SUFFICES ASSUME IInv, [Next]_vars PROVE WorkIsQueued'
  OBVIOUS
<1>0. /\ job \in [Pair -> JobRecord] /\ queued \subseteq queued'
      /\ \A k \in Pair : job[k].state # "absent" => k \in queued
      /\ \A r \in Run : run[r].pc # "idle" => run[r].pair \in Pair /\ run[r].pair \in queued
  BY QueuedStep DEF IInv, TypeOK, WorkIsQueued
<1>1. ASSUME NEW r \in Run, run'[r].pc # "idle"
      PROVE  run'[r].pair \in Pair /\ run'[r].pair \in queued'
  <2>1. \A k \in Pair : [IdleRun EXCEPT !.pc = "classify", !.pair = k].pair = k
    BY DEF IdleRun
  <2> QED
    <3>1. CASE run[r].pc # "idle" /\ run'[r].pair = run[r].pair
      BY <1>0, <3>1
    <3>2. ASSUME NEW k \in Pair, job[k].state = "waiting",
                 run'[r] = [IdleRun EXCEPT !.pc = "classify", !.pair = k]
          PROVE  run'[r].pair \in Pair /\ run'[r].pair \in queued'
      BY <1>0, <2>1, <3>2
    <3> QED
      BY <1>1, <3>1, <3>2, RunStarts
<1>2. ASSUME NEW k \in Pair, job'[k].state # "absent" PROVE k \in queued'
  <2>1. ASSUME NEW j \in Pair, NEW record, NEW evicted, SettleJob(j, record, evicted),
               j \in queued
        PROVE  k \in queued'
    BY <1>0, <1>2, <2>1 DEF SettleJob, NoJob
  <2>2. ASSUME NEW j \in Pair, Enqueue(j) PROVE k \in queued'
    BY <1>0, <1>2, <2>2 DEF Enqueue
  <2>3. ASSUME NEW c \in Caller, EnqueueDiscovered(c) PROVE k \in queued'
    <3>1. IngestPair(c) \in Pair
      BY DEF IngestPair, Pair, IInv, TypeOK, IngestRecord
    <3> QED
      BY <2>2, <2>3, <3>1 DEF EnqueueDiscovered
  <2>4. ASSUME NEW j \in Pair, NEW r \in Run, Take(r, j) PROVE k \in queued'
    BY <1>0, <1>2, <2>4 DEF Take
  <2>5. ASSUME NEW r \in Run, Finish(r) PROVE k \in queued'
    <3>1. run[r].pair \in Pair /\ run[r].pair \in queued
      BY <1>0, <2>5 DEF Finish
    <3> QED
      BY <1>0, <1>2, <2>1, <2>5, <3>1 DEF Finish, queueVars
  <2>6. ASSUME NEW r \in Run, RunFails(r) PROVE k \in queued'
    <3>1. run[r].pair \in Pair /\ run[r].pair \in queued
      BY <1>0, <2>6 DEF RunFails
    <3> QED
      BY <1>0, <1>2, <2>1, <2>6, <3>1 DEF RunFails, Bury, queueVars
  <2>7. ASSUME NEW r \in Run, RunCrashes(r) PROVE k \in queued'
    <3>1. job'[k].state = job[k].state
      BY <1>0, <2>7 DEF RunCrashes, JobRecord
    <3> QED
      BY <1>0, <1>2, <3>1
  <2>8. ASSUME NEW j \in Pair, PromoteDelayed(j) PROVE k \in queued'
    BY <1>0, <1>2, <2>8 DEF PromoteDelayed
  <2>9. ASSUME NEW j \in Pair, Stall(j) PROVE k \in queued'
    <3>1. j \in queued
      BY <1>0, <2>9 DEF Stall
    <3> QED
      BY <1>0, <1>2, <2>1, <2>9, <3>1 DEF Stall, Bury
  <2>11. CASE OthersComplete \/ OthersFail
    <3>1. job'[k] = job[k] \/ job'[k] = NoJob
      BY <1>0, <2>11 DEF OthersComplete, OthersFail
    <3> QED
      BY <1>0, <1>2, <3>1 DEF NoJob
  <2>10. CASE job' = job
    BY <1>0, <1>2, <2>10
  <2> QED
    <3>1. CASE \E c \in Caller : CallerStep(c)
      BY <2>3, <2>10, <3>1
         DEF CallerStep, StartBatch, UpsertPost, FindDiscovery, UpsertDiscovery,
             StartManual, CommitManual, IngestFails, queueVars
    <3>2. CASE \/ \E s \in Source : RemoveSource(s)
               \/ \E j \in Pair : UpdateLeadStatus(j)
               \/ \E r \in Run : Classify(r) \/ Record(r) \/ Publish(r)
               \/ UNCHANGED vars
      BY <2>10, <3>2
         DEF RemoveSource, UpdateLeadStatus, Classify, Record, Publish, vars, queueVars
    <3>3. CASE \E j \in Pair : ClassifyPost(j)
      BY <2>2, <3>3 DEF ClassifyPost
    <3> QED
      BY <2>4, <2>5, <2>6, <2>7, <2>8, <2>9, <2>11, <3>1, <3>2, <3>3 DEF Next, RunStep
<1> QED
  BY <1>1, <1>2 DEF WorkIsQueued

\* Verdicts are only appended, and a lead that exists goes on existing.
LEMMA LedgerGrows ==
  ASSUME IInv, [Next]_vars, NEW k \in Pair
  PROVE  /\ \A i \in DOMAIN classified[k] :
              i \in DOMAIN classified'[k] /\ classified'[k][i] = classified[k][i]
         /\ leads[k] # NoLead => leads'[k] # NoLead
<1>0. /\ classified \in [Pair -> Seq(Verdict)] /\ leads \in [Pair -> LeadRecord \cup {NoLead}]
      /\ leads' \in [Pair -> LeadRecord \cup {NoLead}]
      /\ \A r \in Run : run[r].pc # "idle" => run[r].pair \in Pair
      /\ run \in [Run -> RunRecord]
  BY TypeStep DEF IInv, TypeOK, WorkIsQueued
<1>1. ASSUME NEW r \in Run, Record(r)
      PROVE  /\ \A i \in DOMAIN classified[k] :
                  i \in DOMAIN classified'[k] /\ classified'[k][i] = classified[k][i]
             /\ leads' = leads
  <2>1. classified[k] \in Seq(Verdict) /\ run[r].verdict \in Verdict /\ run[r].pair \in Pair
    BY <1>0, <1>1 DEF Record, RunRecord
  <2>2. classified'[k] \in {classified[k], Append(classified[k], run[r].verdict)}
        /\ leads' = leads
    BY <1>0, <1>1 DEF Record
  <2> QED
    BY <2>1, <2>2
<1>2. ASSUME NEW r \in Run, Publish(r)
      PROVE  classified' = classified /\ (leads[k] # NoLead => leads'[k] # NoLead)
  <2>1. /\ classified' = classified
        /\ leads' = [leads EXCEPT ![run[r].pair] =
             [row |-> run[r].row, priorityScore |-> run[r].verdict.priorityScore,
              status |-> IF leads[run[r].pair] = NoLead THEN "NEW"
                         ELSE leads[run[r].pair].status]]
    BY <1>2 DEF Publish
  <2>2. /\ run[r].row \in Nat /\ run[r].verdict.priorityScore \in Nat
        /\ \A l \in LeadRecord : l.status \in LeadStatus
    BY <1>0, VerdictAssumption DEF RunRecord, LeadRecord
  <2>3. NoLead \notin LeadRecord
    BY NullAssumption DEF LeadRecord
  <2>4. run[r].pair \in Pair
    BY <1>0, <1>2 DEF Publish
  <2>5. (IF leads[run[r].pair] = NoLead THEN "NEW" ELSE leads[run[r].pair].status) \in LeadStatus
    BY <1>0, <2>2, <2>4, StatusAssumption
  <2>6. k = run[r].pair => leads'[k] \in LeadRecord
    BY <1>0, <2>1, <2>2, <2>5 DEF LeadRecord
  <2> QED
    BY <1>0, <2>1, <2>3, <2>6
<1>3. ASSUME NEW j \in Pair, UpdateLeadStatus(j)
      PROVE  classified' = classified /\ (leads[k] # NoLead => leads'[k] # NoLead)
  <2>1. NoLead \notin LeadRecord
    BY NullAssumption DEF LeadRecord
  <2>2. PICK s \in LeadStatus : leads' = [leads EXCEPT ![j].status = s]
    BY <1>3 DEF UpdateLeadStatus
  <2>3. leads[j] \in LeadRecord
    BY <1>0, <1>3 DEF UpdateLeadStatus
  <2>4. leads'[j] \in LeadRecord
    BY <1>0, <2>2, <2>3 DEF LeadRecord
  <2> QED
    BY <1>0, <1>3, <2>1, <2>2, <2>4 DEF UpdateLeadStatus
<1>4. CASE UNCHANGED <<classified, leads>>
  BY <1>4
<1> QED
  <2>1. CASE \E c \in Caller : CallerStep(c)
    BY <1>4, <2>1
       DEF CallerStep, StartBatch, UpsertPost, FindDiscovery, UpsertDiscovery,
           EnqueueDiscovered, StartManual, CommitManual, IngestFails, dbVars
  <2>2. CASE \/ \E s \in Source : RemoveSource(s)
             \/ \E j \in Pair : \/ ClassifyPost(j) \/ PromoteDelayed(j) \/ Stall(j)
                                \/ \E r \in Run : Take(r, j)
             \/ \E r \in Run : \/ Classify(r) \/ Finish(r) \/ RunFails(r) \/ RunCrashes(r)
             \/ OthersComplete \/ OthersFail \/ UNCHANGED vars
    BY <1>4, <2>2
       DEF OthersComplete, OthersFail, RemoveSource, ClassifyPost, PromoteDelayed, Stall, Take,
           Classify, Finish, RunFails, RunCrashes, vars, dbVars
  <2> QED
    BY <1>1, <1>2, <1>3, <2>1, <2>2 DEF Next, RunStep

\* A run's row is its verdict, and the lead is there when it finishes.
LEMMA BackedStep == IInv /\ [Next]_vars => RunsAreBacked'
<1> SUFFICES ASSUME IInv, [Next]_vars, NEW r \in Run
             PROVE  LET k == run'[r].pair IN
                    /\ run'[r].pc = "publish" => /\ run'[r].row \in DOMAIN classified'[k]
                                                 /\ classified'[k][run'[r].row] = run'[r].verdict
                                                 /\ Qualifies(run'[r].verdict)
                    /\ run'[r].pc = "finish" =>
                         /\ run'[r].row \in DOMAIN classified'[k]
                         /\ Qualifies(classified'[k][run'[r].row]) => leads'[k] # NoLead
  BY DEF RunsAreBacked, Qualifies
<1>0. /\ run \in [Run -> RunRecord] /\ classified \in [Pair -> Seq(Verdict)]
      /\ \A q \in Run : run[q].pc # "idle" => run[q].pair \in Pair
  BY DEF IInv, TypeOK, WorkIsQueued
<1>1. CASE run'[r] = run[r]
  BY <1>0, <1>1, LedgerGrows DEF IInv, RunsAreBacked
<1>2. CASE run'[r].pc \notin {"publish", "finish"}
  BY <1>2
<1>3. CASE Record(r)
  <2> PICK k \in Pair, pc \in {"publish", "finish"} :
        /\ k = run[r].pair
        /\ pc = IF Qualifies(run[r].verdict) THEN "publish" ELSE "finish"
    BY <1>0, <1>3 DEF Record
  <2>1. /\ run' = [run EXCEPT ![r].row = Len(classified[k]) + 1, ![r].pc = pc]
        /\ classified'[k] = Append(classified[k], run[r].verdict)
    BY <1>0, <1>3 DEF Record
  <2>2. run'[r] = [run[r] EXCEPT !.row = Len(classified[k]) + 1, !.pc = pc]
    BY <1>0, <2>1
  <2>3. /\ run'[r].row = Len(classified[k]) + 1 /\ run'[r].pc = pc
        /\ run'[r].pair = k /\ run'[r].verdict = run[r].verdict
    BY <1>0, <2>2 DEF RunRecord
  <2>4. /\ classified[k] \in Seq(Verdict) /\ run[r].verdict \in Verdict
    BY <1>0 DEF RunRecord
  <2>5. /\ Len(classified[k]) + 1 \in DOMAIN classified'[k]
        /\ classified'[k][Len(classified[k]) + 1] = run[r].verdict
    BY <2>1, <2>4
  <2> QED
    BY <2>3, <2>5
<1>4. CASE Publish(r)
  <2> PICK k \in Pair : k = run[r].pair
    BY <1>0, <1>4 DEF Publish
  <2>1. /\ run'[r].row = run[r].row /\ run'[r].pc = "finish" /\ run'[r].pair = k
        /\ run[r].pc = "publish" /\ classified' = classified
    BY <1>0, <1>4 DEF Publish, RunRecord
  <2>2. run[r].row \in DOMAIN classified[k]
    BY <2>1 DEF IInv, RunsAreBacked
  <2>3. leads'[k] # NoLead
    <3>1. leads'[k] =
            [row |-> run[r].row, priorityScore |-> run[r].verdict.priorityScore,
             status |-> IF leads[k] = NoLead THEN "NEW" ELSE leads[k].status]
      BY <1>4 DEF Publish, IInv, TypeOK
    <3>2. leads' \in [Pair -> LeadRecord \cup {NoLead}]
      BY TypeStep DEF TypeOK
    <3>3. /\ run[r].row \in Nat /\ run[r].verdict.priorityScore \in Nat
          /\ leads[k] # NoLead => leads[k].status \in LeadStatus
      BY <1>0, VerdictAssumption DEF RunRecord, LeadRecord, IInv, TypeOK
    <3> QED
      BY <3>1, <3>3, NullAssumption, StatusAssumption
  <2> QED
    BY <2>1, <2>2, <2>3
<1>5. ASSUME NEW q \in Run, q # r,
             \/ Classify(q) \/ Record(q) \/ Publish(q) \/ Finish(q) \/ RunFails(q)
             \/ RunCrashes(q) \/ \E k \in Pair : Take(q, k)
      PROVE  run'[r] = run[r]
  BY <1>0, <1>5 DEF Classify, Record, Publish, Finish, RunFails, RunCrashes, Take
<1>6. CASE \/ Classify(r) \/ Finish(r) \/ RunFails(r) \/ RunCrashes(r)
           \/ \E k \in Pair : Take(r, k)
  <2>1. CASE Classify(r)
    <3>1. PICK v \in Verdict : run' = [run EXCEPT ![r].pc = "record", ![r].verdict = v]
      BY <2>1 DEF Classify
    <3>2. run'[r] = [run[r] EXCEPT !.pc = "record", !.verdict = v]
      BY <1>0, <3>1
    <3>3. run'[r].pc = "record"
      BY <1>0, <3>2 DEF RunRecord
    <3> QED
      BY <1>2, <3>3
  <2>2. CASE Finish(r) \/ RunFails(r) \/ RunCrashes(r)
    <3>1. run'[r] = IdleRun
      BY <1>0, <2>2 DEF Finish, RunFails, RunCrashes
    <3> QED
      BY <1>2, <3>1 DEF IdleRun
  <2>3. ASSUME NEW k \in Pair, Take(r, k) PROVE run'[r].pc = "classify"
    <3>1. run'[r] = [IdleRun EXCEPT !.pc = "classify", !.pair = k]
      BY <1>0, <2>3 DEF Take
    <3>2. [IdleRun EXCEPT !.pc = "classify", !.pair = k].pc = "classify"
      BY DEF IdleRun
    <3> QED
      BY <3>1, <3>2
  <2> QED
    BY <1>2, <1>6, <2>1, <2>2, <2>3
<1> QED
  <2>1. CASE \E c \in Caller : CallerStep(c)
    BY <1>1, <2>1
       DEF CallerStep, StartBatch, UpsertPost, FindDiscovery, UpsertDiscovery,
           EnqueueDiscovered, StartManual, CommitManual, IngestFails
  <2>2. CASE \/ \E s \in Source : RemoveSource(s)
             \/ \E k \in Pair : \/ ClassifyPost(k) \/ UpdateLeadStatus(k)
                                \/ PromoteDelayed(k) \/ Stall(k)
             \/ OthersComplete \/ OthersFail \/ UNCHANGED vars
    BY <1>1, <2>2 DEF OthersComplete, OthersFail, RemoveSource, ClassifyPost, UpdateLeadStatus,
       PromoteDelayed, Stall, vars
  <2> QED
    BY <1>1, <1>3, <1>4, <1>5, <1>6, <2>1, <2>2 DEF Next, RunStep

\* What the steps do to a lead, and what they leave alone.
LEMMA LeadEffect ==
  ASSUME IInv, [Next]_vars, NEW k \in Pair
  PROVE  \/ leads'[k] = leads[k]
         \/ /\ leads[k] # NoLead /\ leads'[k].row = leads[k].row
            /\ leads'[k].priorityScore = leads[k].priorityScore
         \/ \E r \in Run : /\ run[r].pc = "publish" /\ run[r].pair = k
                           /\ leads'[k].row = run[r].row
                           /\ leads'[k].priorityScore = run[r].verdict.priorityScore
<1>0. leads \in [Pair -> LeadRecord \cup {NoLead}]
  BY DEF IInv, TypeOK
<1>1. ASSUME NEW r \in Run, Publish(r), k = run[r].pair
      PROVE  /\ run[r].pc = "publish" /\ leads'[k].row = run[r].row
             /\ leads'[k].priorityScore = run[r].verdict.priorityScore
  <2>1. leads'[k] =
          [row |-> run[r].row, priorityScore |-> run[r].verdict.priorityScore,
           status |-> IF leads[k] = NoLead THEN "NEW" ELSE leads[k].status]
    BY <1>0, <1>1 DEF Publish
  <2> QED
    BY <1>1, <2>1 DEF Publish
<1>2. ASSUME NEW r \in Run, Publish(r), k # run[r].pair PROVE leads'[k] = leads[k]
  BY <1>0, <1>2 DEF Publish
<1>3. ASSUME NEW j \in Pair, UpdateLeadStatus(j)
      PROVE  \/ leads'[k] = leads[k]
             \/ /\ leads[k] # NoLead /\ leads'[k].row = leads[k].row
                /\ leads'[k].priorityScore = leads[k].priorityScore
  <2>1. PICK s \in LeadStatus : leads' = [leads EXCEPT ![j].status = s]
    BY <1>3 DEF UpdateLeadStatus
  <2>2. leads[j] \in LeadRecord /\ leads[j] # NoLead
    BY <1>0, <1>3 DEF UpdateLeadStatus
  <2> QED
    BY <1>0, <2>1, <2>2 DEF LeadRecord
<1>4. CASE leads' = leads
  BY <1>4
<1> QED
  <2>1. CASE \E c \in Caller : CallerStep(c)
    BY <1>4, <2>1
       DEF CallerStep, StartBatch, UpsertPost, FindDiscovery, UpsertDiscovery,
           EnqueueDiscovered, StartManual, CommitManual, IngestFails, dbVars
  <2>2. CASE \/ \E s \in Source : RemoveSource(s)
             \/ \E j \in Pair : \/ ClassifyPost(j) \/ PromoteDelayed(j) \/ Stall(j)
                                \/ \E r \in Run : Take(r, j)
             \/ \E r \in Run : \/ Classify(r) \/ Record(r) \/ Finish(r) \/ RunFails(r)
                               \/ RunCrashes(r)
             \/ OthersComplete \/ OthersFail \/ UNCHANGED vars
    BY <1>4, <2>2
       DEF OthersComplete, OthersFail, RemoveSource, ClassifyPost, PromoteDelayed, Stall, Take,
           Classify, Record, Finish, RunFails, RunCrashes, vars, dbVars
  <2> QED
    BY <1>1, <1>2, <1>3, <2>1, <2>2 DEF Next, RunStep

\* A lead shows one recorded, qualifying verdict.
LEMMA LeadStep == IInv /\ [Next]_vars => LeadBacked'
<1> SUFFICES ASSUME IInv, [Next]_vars, NEW k \in Pair, leads'[k] # NoLead
             PROVE  /\ leads'[k].row \in DOMAIN classified'[k]
                    /\ Qualifies(classified'[k][leads'[k].row])
                    /\ leads'[k].priorityScore = classified'[k][leads'[k].row].priorityScore
  BY DEF LeadBacked, Qualifies
<1>1. leads[k] # NoLead =>
        /\ leads[k].row \in DOMAIN classified[k]
        /\ Qualifies(classified[k][leads[k].row])
        /\ leads[k].priorityScore = classified[k][leads[k].row].priorityScore
  BY DEF IInv, LeadBacked
<1>2. \A i \in DOMAIN classified[k] :
        i \in DOMAIN classified'[k] /\ classified'[k][i] = classified[k][i]
  BY LedgerGrows
<1>3. CASE leads'[k] = leads[k]
  BY <1>1, <1>2, <1>3
<1>4. CASE /\ leads[k] # NoLead /\ leads'[k].row = leads[k].row
           /\ leads'[k].priorityScore = leads[k].priorityScore
  BY <1>1, <1>2, <1>4
<1>5. ASSUME NEW r \in Run, run[r].pc = "publish", run[r].pair = k,
             leads'[k].row = run[r].row,
             leads'[k].priorityScore = run[r].verdict.priorityScore
      PROVE  /\ leads'[k].row \in DOMAIN classified'[k]
             /\ Qualifies(classified'[k][leads'[k].row])
             /\ leads'[k].priorityScore = classified'[k][leads'[k].row].priorityScore
  <2>1. /\ run[r].row \in DOMAIN classified[k] /\ classified[k][run[r].row] = run[r].verdict
        /\ Qualifies(run[r].verdict)
    BY <1>5 DEF IInv, RunsAreBacked
  <2> QED
    BY <1>2, <1>5, <2>1
<1> QED
  BY <1>3, <1>4, <1>5, LeadEffect

\* What the steps do to a job.
JobEffect(k) ==
  \/ job'[k] = job[k]
  \/ job'[k] = NoJob
  \/ job[k].state = "absent" /\ job'[k] = FreshJob
  \/ \E r \in Run : /\ job[k].state = "waiting"
                    /\ job'[k] = [job[k] EXCEPT !.state = "active", !.holder = r]
  \/ \E r \in Run : /\ run[r].pc = "finish" /\ run[r].pair = k /\ job[k].holder = r
                    /\ job'[k] = [job[k] EXCEPT !.state = "completed", !.made = @ + 1,
                                                !.holder = NoRun, !.result = run[r].row]
  \/ /\ job[k].holder # NoRun /\ job[k].made + 1 < MaxAttempts
     /\ job'[k] = [job[k] EXCEPT !.state = "delayed", !.made = @ + 1, !.holder = NoRun]
  \/ /\ job[k].holder # NoRun /\ job[k].made + 1 >= MaxAttempts
     /\ job'[k] = [job[k] EXCEPT !.state = "failed", !.made = job[k].made + 1, !.holder = NoRun]
  \/ job'[k] = [job[k] EXCEPT !.holder = NoRun]
  \/ job[k].state = "delayed" /\ job'[k] = [job[k] EXCEPT !.state = "waiting"]
  \/ /\ job[k].state = "active" /\ job[k].stalls < MaxStalls
     /\ job'[k] = [job[k] EXCEPT !.state = "waiting", !.stalls = @ + 1, !.holder = NoRun]
  \/ /\ job[k].state = "active" /\ job[k].stalls >= MaxStalls
     /\ job'[k] = [job[k] EXCEPT !.state = "failed", !.made = job[k].made, !.holder = NoRun]

LEMMA JobStep ==
  ASSUME IInv, [Next]_vars, NEW k \in Pair
  PROVE  JobEffect(k)
<1>0. /\ job \in [Pair -> JobRecord]
      /\ \A r \in Run : run[r].pc # "idle" => run[r].pair \in Pair
      /\ job[k].made \in Nat /\ job[k].stalls \in Nat
  BY DEF IInv, TypeOK, WorkIsQueued, JobRecord
<1> USE BoundAssumption, NullAssumption DEF JobEffect
<1>1. ASSUME NEW j \in Pair, NEW record, NEW evicted, SettleJob(j, record, evicted)
      PROVE  \/ j = k /\ job'[k] = record
             \/ job'[k] = NoJob \/ job'[k] = job[k]
  BY <1>1 DEF SettleJob
<1>11. ASSUME NEW j \in Pair, NEW made, Bury(j, made)
       PROVE  \/ /\ j = k
                 /\ job'[k] = [job[k] EXCEPT !.state = "failed", !.made = made, !.holder = NoRun]
              \/ job'[k] = NoJob \/ job'[k] = job[k]
  BY <1>1, <1>11 DEF Bury
<1>2. ASSUME NEW j \in Pair, Enqueue(j) PROVE JobEffect(k)
  BY <1>0, <1>2 DEF Enqueue
<1>3. ASSUME NEW c \in Caller, EnqueueDiscovered(c) PROVE JobEffect(k)
  <2>1. IngestPair(c) \in Pair
    BY DEF IngestPair, Pair, IInv, TypeOK, IngestRecord
  <2>2. Enqueue(IngestPair(c))
    BY <1>3 DEF EnqueueDiscovered
  <2> HIDE DEF JobEffect
  <2> QED
    BY <1>2, <2>1, <2>2
<1>4. ASSUME NEW j \in Pair, NEW r \in Run, Take(r, j) PROVE JobEffect(k)
  BY <1>0, <1>4 DEF Take
<1>5. ASSUME NEW r \in Run, Finish(r) PROVE JobEffect(k)
  <2>1. CASE job[run[r].pair].holder = r
    BY <1>0, <1>1, <1>5, <2>1 DEF Finish
  <2>2. CASE job[run[r].pair].holder # r
    BY <1>5, <2>2 DEF Finish, queueVars
  <2> QED
    BY <2>1, <2>2
<1>6. ASSUME NEW r \in Run, RunFails(r) PROVE JobEffect(k)
  <2>1. CASE job[run[r].pair].holder # r
    BY <1>6, <2>1 DEF RunFails, queueVars
  <2>2. CASE job[run[r].pair].holder = r /\ job[run[r].pair].made + 1 < MaxAttempts
    <3>1. run[r].pair \in Pair
          /\ job' = [job EXCEPT ![run[r].pair].state = "delayed",
                                ![run[r].pair].made = @ + 1, ![run[r].pair].holder = NoRun]
      BY <1>0, <1>6, <2>2 DEF RunFails
    <3>2. CASE run[r].pair # k
      <4>1. job'[k] = job[k]
        BY <1>0, <3>1, <3>2
      <4> QED
        BY <4>1
    <3>3. CASE run[r].pair = k
      <4>1. job'[k] = [job[k] EXCEPT !.state = "delayed", !.made = @ + 1, !.holder = NoRun]
        BY <1>0, <3>1, <3>3
      <4>2. job[k].holder # NoRun /\ job[k].made + 1 < MaxAttempts
        BY <2>2, <3>3
      <4> QED
        BY <4>1, <4>2
    <3> QED
      BY <3>2, <3>3
  <2>3. CASE job[run[r].pair].holder = r /\ ~(job[run[r].pair].made + 1 < MaxAttempts)
    <3>1. Bury(run[r].pair, job[run[r].pair].made + 1) /\ run[r].pair \in Pair
      BY <1>0, <1>6, <2>3 DEF RunFails
    <3>2. CASE job'[k] = NoJob \/ job'[k] = job[k]
      BY <3>2
    <3>3. CASE /\ run[r].pair = k
               /\ job'[k] = [job[k] EXCEPT !.state = "failed", !.made = job[k].made + 1,
                                           !.holder = NoRun]
      <4>1. job[k].holder # NoRun /\ job[k].made + 1 >= MaxAttempts
        BY <1>0, <2>3, <3>3
      <4> QED
        BY <3>3, <4>1
    <3> HIDE DEF JobEffect
    <3> QED
      BY <1>11, <3>1, <3>2, <3>3
  <2> QED
    BY <2>1, <2>2, <2>3
<1>7. ASSUME NEW r \in Run, RunCrashes(r) PROVE JobEffect(k)
  BY <1>0, <1>7 DEF RunCrashes
<1>8. ASSUME NEW j \in Pair, PromoteDelayed(j) PROVE JobEffect(k)
  BY <1>0, <1>8 DEF PromoteDelayed
<1>9. ASSUME NEW j \in Pair, Stall(j) PROVE JobEffect(k)
  <2>1. CASE job[j].stalls < MaxStalls
    <3>1. job[j].state = "active"
          /\ job' = [job EXCEPT ![j].state = "waiting", ![j].stalls = @ + 1,
                                ![j].holder = NoRun]
      BY <1>9, <2>1 DEF Stall
    <3>2. CASE j # k
      <4>1. job'[k] = job[k]
        BY <1>0, <3>1, <3>2
      <4> QED
        BY <4>1
    <3>3. CASE j = k
      <4>1. job'[k] = [job[k] EXCEPT !.state = "waiting", !.stalls = @ + 1, !.holder = NoRun]
        BY <1>0, <3>1, <3>3
      <4> QED
        BY <2>1, <3>1, <3>3, <4>1
    <3> QED
      BY <3>2, <3>3
  <2>2. CASE ~(job[j].stalls < MaxStalls)
    <3>1. Bury(j, job[j].made) /\ job[j].state = "active"
      BY <1>9, <2>2 DEF Stall
    <3>2. CASE job'[k] = NoJob \/ job'[k] = job[k]
      BY <3>2
    <3>3. CASE /\ j = k
               /\ job'[k] = [job[k] EXCEPT !.state = "failed", !.made = job[k].made,
                                           !.holder = NoRun]
      <4>1. job[k].state = "active" /\ job[k].stalls >= MaxStalls
        BY <1>0, <2>2, <3>1, <3>3
      <4> QED
        BY <3>3, <4>1
    <3> HIDE DEF JobEffect
    <3> QED
      BY <1>11, <3>1, <3>2, <3>3
  <2> QED
    BY <2>1, <2>2
<1>12. ASSUME OthersComplete \/ OthersFail PROVE JobEffect(k)
  <2>1. job'[k] = job[k] \/ job'[k] = NoJob
    BY <1>0, <1>12 DEF OthersComplete, OthersFail
  <2> QED
    BY <2>1
<1>10. ASSUME job' = job PROVE JobEffect(k)
  BY <1>10
<1> HIDE DEF JobEffect
<1> QED
  <2>1. CASE \E c \in Caller : CallerStep(c)
    BY <1>3, <1>10, <2>1
       DEF CallerStep, StartBatch, UpsertPost, FindDiscovery, UpsertDiscovery,
           StartManual, CommitManual, IngestFails, queueVars
  <2>2. CASE \/ \E s \in Source : RemoveSource(s)
             \/ \E j \in Pair : UpdateLeadStatus(j)
             \/ \E r \in Run : Classify(r) \/ Record(r) \/ Publish(r)
             \/ UNCHANGED vars
    BY <1>10, <2>2
       DEF RemoveSource, UpdateLeadStatus, Classify, Record, Publish, vars, queueVars
  <2>3. CASE \E j \in Pair : ClassifyPost(j)
    BY <1>2, <2>3 DEF ClassifyPost
  <2> QED
    BY <1>4, <1>5, <1>6, <1>7, <1>8, <1>9, <1>12, <2>1, <2>2, <2>3 DEF Next, RunStep

\* The fields of the jobs that a step can write.
LEMMA JobFields ==
  ASSUME IInv, [Next]_vars, NEW k \in Pair
  PROVE  \/ job'[k] = job[k]
         \/ job'[k].state = "absent" /\ job'[k].holder = NoRun
         \/ /\ job'[k].state = "waiting" /\ job'[k].holder = NoRun
            /\ job'[k].made = 0 /\ job'[k].stalls = 0
         \/ /\ job'[k].state \in {"waiting", "active", "delayed"}
            /\ job'[k].holder # NoRun => job'[k].state = "active"
            /\ job'[k].made < MaxAttempts /\ job'[k].stalls <= MaxStalls
         \/ \E r \in Run : /\ run[r].pc = "finish" /\ run[r].pair = k
                           /\ job'[k].state = "completed" /\ job'[k].result = run[r].row
                           /\ job'[k].holder = NoRun
         \/ /\ job'[k].state = "failed" /\ job'[k].holder = NoRun
            /\ job'[k].made = MaxAttempts \/ job'[k].stalls = MaxStalls
         \/ /\ job'[k].state = job[k].state /\ job'[k].made = job[k].made
            /\ job'[k].stalls = job[k].stalls /\ job'[k].result = job[k].result
            /\ job'[k].holder = NoRun
<1>0. /\ job[k] \in JobRecord /\ job[k].made \in Nat /\ job[k].stalls \in Nat
      /\ job[k].state \in {"waiting", "active", "delayed"} =>
           job[k].made < MaxAttempts /\ job[k].stalls <= MaxStalls
      /\ job[k].holder # NoRun => job[k].state = "active"
      /\ MaxAttempts \in Nat \ {0} /\ MaxStalls \in Nat
  BY BoundAssumption DEF IInv, TypeOK, JobRecord, JobsHaveBudget
<1>1. CASE job'[k] = NoJob
  BY <1>1 DEF NoJob
<1>2. CASE job'[k] = FreshJob
  BY <1>2 DEF NoJob, FreshJob
<1>3. ASSUME NEW r \in Run, job[k].state = "waiting",
             job'[k] = [job[k] EXCEPT !.state = "active", !.holder = r]
      PROVE  /\ job'[k].state = "active"
             /\ job'[k].made < MaxAttempts /\ job'[k].stalls <= MaxStalls
  BY <1>0, <1>3 DEF JobRecord
<1>4. ASSUME NEW n, NEW m,
             job'[k] = [job[k] EXCEPT !.state = "completed", !.made = n,
                                      !.holder = NoRun, !.result = m]
      PROVE  job'[k].state = "completed" /\ job'[k].result = m /\ job'[k].holder = NoRun
  BY <1>0, <1>4 DEF JobRecord
<1>5. ASSUME NEW state \in {"delayed", "failed"}, NEW n,
             job'[k] = [job[k] EXCEPT !.state = state, !.made = n, !.holder = NoRun]
      PROVE  /\ job'[k].state = state /\ job'[k].made = n /\ job'[k].holder = NoRun
             /\ job'[k].stalls = job[k].stalls
  BY <1>0, <1>5 DEF JobRecord
<1>6. ASSUME job'[k] = [job[k] EXCEPT !.holder = NoRun]
      PROVE  /\ job'[k].state = job[k].state /\ job'[k].made = job[k].made
             /\ job'[k].stalls = job[k].stalls /\ job'[k].result = job[k].result
             /\ job'[k].holder = NoRun
  BY <1>0, <1>6 DEF JobRecord
<1>7. ASSUME job[k].state = "delayed", job'[k] = [job[k] EXCEPT !.state = "waiting"]
      PROVE  /\ job'[k].state = "waiting" /\ job'[k].holder = NoRun
             /\ job'[k].made < MaxAttempts /\ job'[k].stalls <= MaxStalls
  BY <1>0, <1>7 DEF JobRecord
<1>8. ASSUME job[k].state = "active", job[k].stalls < MaxStalls,
             job'[k] = [job[k] EXCEPT !.state = "waiting", !.stalls = @ + 1, !.holder = NoRun]
      PROVE  /\ job'[k].state = "waiting" /\ job'[k].holder = NoRun
             /\ job'[k].made < MaxAttempts /\ job'[k].stalls <= MaxStalls
  <2>1. /\ job'[k].state = "waiting" /\ job'[k].holder = NoRun
        /\ job'[k].made = job[k].made /\ job'[k].stalls = job[k].stalls + 1
    BY <1>0, <1>8 DEF JobRecord
  <2> QED
    BY <1>0, <1>8, <2>1
<1> QED
  <2>1. CASE job'[k] = job[k]
    BY <2>1
  <2>2. CASE \E r \in Run : /\ job[k].state = "waiting"
                           /\ job'[k] = [job[k] EXCEPT !.state = "active", !.holder = r]
    BY <1>3, <2>2
  <2>3. CASE \E r \in Run :
               /\ run[r].pc = "finish" /\ run[r].pair = k /\ job[k].holder = r
               /\ job'[k] = [job[k] EXCEPT !.state = "completed", !.made = @ + 1,
                                           !.holder = NoRun, !.result = run[r].row]
    <3> PICK r \in Run :
          /\ run[r].pc = "finish" /\ run[r].pair = k
          /\ job'[k] = [job[k] EXCEPT !.state = "completed", !.made = job[k].made + 1,
                                      !.holder = NoRun, !.result = run[r].row]
      BY <2>3
    <3>1. /\ job'[k].state = "completed" /\ job'[k].result = run[r].row
          /\ job'[k].holder = NoRun
      BY <1>4, ZenonT(30)
    <3> QED
      BY <3>1
  <2>4. CASE /\ job[k].holder # NoRun /\ job[k].made + 1 < MaxAttempts
             /\ job'[k] = [job[k] EXCEPT !.state = "delayed", !.made = @ + 1, !.holder = NoRun]
    BY <1>0, <1>5, <2>4
  <2>5. CASE /\ job[k].holder # NoRun /\ job[k].made + 1 >= MaxAttempts
             /\ job'[k] = [job[k] EXCEPT !.state = "failed", !.made = job[k].made + 1,
                                         !.holder = NoRun]
    <3>1. job'[k].state = "failed" /\ job'[k].made = job[k].made + 1 /\ job'[k].holder = NoRun
      BY <1>5, <2>5
    <3>2. job[k].made + 1 = MaxAttempts
      BY <1>0, <2>5
    <3> QED
      BY <3>1, <3>2
  <2>6. CASE /\ job[k].state = "active" /\ job[k].stalls >= MaxStalls
             /\ job'[k] = [job[k] EXCEPT !.state = "failed", !.made = job[k].made,
                                         !.holder = NoRun]
    <3>1. job'[k].state = "failed" /\ job'[k].stalls = job[k].stalls /\ job'[k].holder = NoRun
      BY <1>5, <2>6
    <3>2. job[k].stalls = MaxStalls
      BY <1>0, <2>6
    <3> QED
      BY <3>1, <3>2
  <2>7. CASE job'[k] = [job[k] EXCEPT !.holder = NoRun]
    BY <1>6, <2>7
  <2>8. CASE job[k].state = "delayed" /\ job'[k] = [job[k] EXCEPT !.state = "waiting"]
    BY <1>7, <2>8
  <2>9. CASE /\ job[k].state = "active" /\ job[k].stalls < MaxStalls
             /\ job'[k] = [job[k] EXCEPT !.state = "waiting", !.stalls = @ + 1, !.holder = NoRun]
    BY <1>8, <2>9
  <2> QED
    BY <1>1, <1>2, <2>1, <2>2, <2>3, <2>4, <2>5, <2>6, <2>7, <2>8, <2>9, JobStep DEF JobEffect

\* Open jobs keep within their attempts and stalls.
LEMMA BudgetStep == IInv /\ [Next]_vars => JobsHaveBudget'
<1> SUFFICES ASSUME IInv, [Next]_vars, NEW k \in Pair
             PROVE  /\ job'[k].state \in {"waiting", "active", "delayed"} =>
                         job'[k].made < MaxAttempts /\ job'[k].stalls <= MaxStalls
                    /\ job'[k].holder # NoRun => job'[k].state = "active"
  BY DEF JobsHaveBudget
<1> QED
  BY JobFields, BoundAssumption DEF IInv, JobsHaveBudget

\* A job fails only when its budget is used up.
LEMMA FailedStep == IInv /\ [Next]_vars => FailedIsExhausted'
<1> SUFFICES ASSUME IInv, [Next]_vars, NEW k \in Pair, job'[k].state = "failed"
             PROVE  job'[k].made = MaxAttempts \/ job'[k].stalls = MaxStalls
  BY DEF FailedIsExhausted
<1> QED
  BY JobFields DEF IInv, FailedIsExhausted

\* A job completes with a row, and with a lead when the row qualifies.
LEMMA CompletedStep == IInv /\ [Next]_vars => CompletedResultIsStored'
<1> SUFFICES ASSUME IInv, [Next]_vars, NEW k \in Pair, job'[k].state = "completed"
             PROVE  /\ job'[k].result \in DOMAIN classified'[k]
                    /\ Qualifies(classified'[k][job'[k].result]) => leads'[k] # NoLead
  BY DEF CompletedResultIsStored, Qualifies
<1>1. \/ job[k].state = "completed" /\ job'[k].result = job[k].result
      \/ \E r \in Run : /\ run[r].pc = "finish" /\ run[r].pair = k
                        /\ job'[k].result = run[r].row
  BY JobFields
<1>2. /\ job'[k].result \in DOMAIN classified[k]
      /\ Qualifies(classified[k][job'[k].result]) => leads[k] # NoLead
  BY <1>1 DEF IInv, CompletedResultIsStored, RunsAreBacked
<1> QED
  BY <1>2, LedgerGrows

\* IInv is an invariant of LeadPipeline.
THEOREM Inductive == Spec => []IInv
<1>1. Init => IInv
  BY InitIInv
<1>2. IInv /\ [Next]_vars => IInv'
  BY TypeStep, WorkStep, BackedStep, BudgetStep, LeadStep, CompletedStep, FailedStep DEF IInv
<1> QED
  BY <1>1, <1>2, PTL DEF Spec

\* The variables keep their types (LeadPipeline's type invariant).
THEOREM TypeCorrect == Spec => []TypeOK
BY Inductive, PTL DEF IInv

\* Whatever is retried, stalls or overlaps, a lead shows one recorded verdict
\* that qualifies, with its score (the worker's create-then-upsert).
THEOREM LeadsAreBacked == Spec => []LeadBacked
BY Inductive, PTL DEF IInv

\* What a completed job reports is in the database.
THEOREM CompletionIsStored == Spec => []CompletedResultIsStored
BY Inductive, PTL DEF IInv

\* No job is given up while it has attempts and stalls left.
THEOREM FailureIsExhaustion == Spec => []FailedIsExhausted
BY Inductive, PTL DEF IInv

\* What the queue says of a settled job is true (the worker's completion and
\* BullMQ's attempts and stalls).
THEOREM SettledJobsHonest == Spec => []SettledJobsAreHonest
BY Inductive, PTL DEF IInv, SettledJobsAreHonest

\* What a request works on changes only while it is idle or fetches a post.
LEMMA RequestKeepsDiscovery ==
  ASSUME TypeOK, [Next]_vars, NEW c \in Caller
  PROVE  /\ ingest'[c].pc = "enqueue" =>
              \/ ingest[c].pc = "enqueue" /\ Discovery(c)' = Discovery(c)
              \/ ingest[c].pc \in {"discover", "commit"} /\ Discovery(c)' = Discovery(c)
         /\ ingest'[c].pc = "discover" =>
              /\ Discovery(c)' = Discovery(c)
              /\ \/ ingest[c].pc = "discover" /\ ingest'[c].existing = ingest[c].existing
                 \/ /\ ingest[c].pc = "find" /\ discoveries' = discoveries
                    /\ ingest'[c].existing = (Discovery(c) \in discoveries)
<1> DEFINE Effect == 
  /\ ingest'[c].pc = "enqueue" =>
       \/ ingest[c].pc = "enqueue" /\ Discovery(c)' = Discovery(c)
       \/ ingest[c].pc \in {"discover", "commit"} /\ Discovery(c)' = Discovery(c)
  /\ ingest'[c].pc = "discover" =>
       /\ Discovery(c)' = Discovery(c)
       /\ \/ ingest[c].pc = "discover" /\ ingest'[c].existing = ingest[c].existing
          \/ /\ ingest[c].pc = "find" /\ discoveries' = discoveries
             /\ ingest'[c].existing = (Discovery(c) \in discoveries)
<1>0. ingest \in [Caller -> IngestRecord] /\ \A b \in Caller : ingest[b] \in IngestRecord
  BY DEF TypeOK
<1>1. CASE ingest'[c] = ingest[c]
  BY <1>1 DEF Discovery, TypeOK
<1>2. ASSUME NEW b \in Caller, NextPost(b) PROVE \/ ingest'[c] = ingest[c]
                                                \/ ingest'[c].pc \in {"idle", "post"}
  BY <1>0, <1>2 DEF NextPost, IdleIngest, IngestRecord
<1>3. ASSUME NEW b \in Caller, StartBatch(b) \/ UpsertPost(b) \/ StartManual(b) \/ IngestFails(b)
      PROVE  \/ ingest'[c] = ingest[c]
             \/ ingest'[c].pc \in {"idle", "post", "find", "commit"}
  <2>1. \A a \in Caller : a # b => ingest'[a] = ingest[a]
    BY <1>0, <1>3 DEF StartBatch, UpsertPost, StartManual, IngestFails
  <2>2. ASSUME b = c, StartBatch(b) \/ UpsertPost(b) PROVE ingest'[c].pc \in {"post", "find"}
    <3>1. ASSUME NEW ws, NEW src, NEW todo
          PROVE  [ingest[c] EXCEPT !.pc = "post", !.ws = ws, !.src = src, !.todo = todo].pc = "post"
      BY <1>0 DEF IngestRecord
    <3>2. ASSUME NEW post
          PROVE  [ingest[c] EXCEPT !.pc = "find", !.post = post].pc = "find"
      BY <1>0 DEF IngestRecord
    <3>3. CASE StartBatch(b)
      <4> PICK s \in sources, batch \in SUBSET Post :
            ingest' = [ingest EXCEPT ![c].pc = "post", ![c].ws = WorkspaceOf[s],
                                     ![c].src = s, ![c].todo = batch]
        BY <2>2, <3>3 DEF StartBatch
      <4> QED
        BY <1>0, <3>1
    <3>4. CASE UpsertPost(b)
      <4> PICK p \in ingest[c].todo : ingest' = [ingest EXCEPT ![c].pc = "find", ![c].post = p]
        BY <2>2, <3>4 DEF UpsertPost
      <4> QED
        BY <1>0, <3>2
    <3> QED
      BY <2>2, <3>3, <3>4
  <2>3. ASSUME b = c, StartManual(b) PROVE ingest'[c].pc = "commit"
    <3>1. PICK w \in Workspace, s \in Source, p \in Post :
            ingest' = [ingest EXCEPT ![c] = [IdleIngest EXCEPT !.pc = "commit",
                         !.ws = w, !.src = s, !.post = p, !.todo = {p}]]
      BY <2>3 DEF StartManual
    <3>2. [IdleIngest EXCEPT !.pc = "commit", !.ws = w, !.src = s, !.post = p, !.todo = {p}].pc
            = "commit"
      BY DEF IdleIngest
    <3> QED
      BY <1>0, <3>1, <3>2
  <2>4. ASSUME b = c, IngestFails(b) PROVE ingest'[c].pc = "idle"
    BY <1>0, <2>4 DEF IngestFails, IdleIngest
  <2> QED
    BY <1>3, <2>1, <2>2, <2>3, <2>4
<1>4. ASSUME NEW b \in Caller, FindDiscovery(b) PROVE Effect
  <2>1. CASE b = c
    <3>1. /\ ingest[c].pc = "find" /\ discoveries' = discoveries
          /\ ingest' = [ingest EXCEPT ![c].pc = "discover",
                                      ![c].existing = Discovery(c) \in discoveries]
      BY <1>4, <2>1 DEF FindDiscovery, dbVars
    <3>2. /\ ingest'[c].pc = "discover" /\ ingest'[c].existing = (Discovery(c) \in discoveries)
          /\ ingest'[c].ws = ingest[c].ws /\ ingest'[c].post = ingest[c].post
          /\ ingest'[c].src = ingest[c].src
      BY <1>0, <3>1 DEF IngestRecord
    <3>3. Discovery(c)' = Discovery(c)
      BY <3>2 DEF Discovery
    <3> QED
      BY <3>1, <3>2, <3>3
  <2>2. CASE b # c
    BY <1>0, <1>1, <1>4, <2>2 DEF FindDiscovery
  <2> QED
    BY <2>1, <2>2
<1>5. ASSUME NEW b \in Caller, ingest[b].pc \in {"discover", "commit"},
             ingest' = [ingest EXCEPT ![b].pc = "enqueue"]
      PROVE  Effect
  <2>1. CASE b = c
    <3>1. /\ ingest'[c].pc = "enqueue" /\ ingest'[c].ws = ingest[c].ws
          /\ ingest'[c].post = ingest[c].post /\ ingest'[c].src = ingest[c].src
      BY <1>0, <1>5, <2>1 DEF IngestRecord
    <3>2. Discovery(c)' = Discovery(c)
      BY <3>1 DEF Discovery
    <3> QED
      BY <1>5, <2>1, <3>1, <3>2
  <2>2. CASE b # c
    BY <1>0, <1>1, <1>5, <2>2
  <2> QED
    BY <2>1, <2>2
<1>6. CASE ingest' = ingest
  BY <1>1, <1>6
<1>7. CASE \E b \in Caller : CallerStep(b)
  <2> PICK b \in Caller : CallerStep(b)
    BY <1>7
  <2>1. CASE StartBatch(b) \/ UpsertPost(b) \/ StartManual(b) \/ IngestFails(b)
    BY <1>1, <1>3, <2>1
  <2>2. CASE FindDiscovery(b)
    BY <1>4, <2>2
  <2>3. CASE UpsertDiscovery(b)
    <3>1. NextPost(b) \/ ingest' = [ingest EXCEPT ![b].pc = "enqueue"]
      BY <2>3 DEF UpsertDiscovery
    <3>2. ingest[b].pc = "discover"
      BY <2>3 DEF UpsertDiscovery
    <3> QED
      BY <1>1, <1>2, <1>5, <3>1, <3>2
  <2>4. CASE EnqueueDiscovered(b)
    BY <1>1, <1>2, <2>4 DEF EnqueueDiscovered
  <2>5. CASE CommitManual(b)
    BY <1>5, <2>5 DEF CommitManual
  <2> QED
    BY <2>1, <2>2, <2>3, <2>4, <2>5 DEF CallerStep
<1> QED
  <2>1. CASE \/ \E s \in Source : RemoveSource(s)
             \/ \E k \in Pair : \/ ClassifyPost(k) \/ UpdateLeadStatus(k)
                                \/ PromoteDelayed(k) \/ Stall(k)
                                \/ \E r \in Run : Take(r, k)
             \/ \E r \in Run : RunStep(r) \/ RunCrashes(r)
             \/ OthersComplete \/ OthersFail \/ UNCHANGED vars
    BY <1>6, <2>1
       DEF RemoveSource, ClassifyPost, UpdateLeadStatus, PromoteDelayed, Stall, Take, RunStep,
           Classify, Record, Publish, Finish, RunFails, RunCrashes, OthersComplete, OthersFail,
           vars
  <2> QED
    BY <1>7, <2>1 DEF Next

\* A request changes no other request's local state.
LEMMA OwnRequestOnly ==
  ASSUME TypeOK, NEW b \in Caller, NEW c \in Caller, b # c, CallerStep(b)
  PROVE  ingest'[c] = ingest[c]
<1>0. ingest \in [Caller -> IngestRecord]
  BY DEF TypeOK
<1>1. ASSUME NextPost(b) PROVE ingest'[c] = ingest[c]
  BY <1>0, <1>1 DEF NextPost
<1>2. CASE UpsertDiscovery(b) \/ EnqueueDiscovered(b)
  BY <1>0, <1>1, <1>2 DEF UpsertDiscovery, EnqueueDiscovered
<1>3. CASE StartBatch(b) \/ UpsertPost(b) \/ FindDiscovery(b)
  BY <1>0, <1>3 DEF StartBatch, UpsertPost, FindDiscovery
<1>4. CASE StartManual(b) \/ CommitManual(b) \/ IngestFails(b)
  BY <1>0, <1>4 DEF StartManual, CommitManual, IngestFails
<1> QED
  BY <1>2, <1>3, <1>4 DEF CallerStep

\* What is accounted for stays so: the job is added, or the request that was
\* to add it dies, or goes on to add it.
LEMMA AccountedStays ==
  ASSUME TypeOK, [Next]_vars, NEW d \in Workspace \X Post \X Source, Accounted(d)
  PROVE  Accounted(d)'
<1>1. queued \subseteq queued'
  BY QueuedStep
<1>2. dropped \subseteq dropped'
  BY DEF Next, CallerStep, RunStep, StartBatch, UpsertPost, FindDiscovery, UpsertDiscovery,
         EnqueueDiscovered, StartManual, CommitManual, IngestFails, RemoveSource, ClassifyPost,
         UpdateLeadStatus, Take, Classify, Record, Publish, Finish, RunFails, RunCrashes,
         PromoteDelayed, Stall, OthersComplete, OthersFail, Enqueue, vars, historyVars
<1>3. ASSUME NEW c \in Caller, ingest[c].pc = "enqueue", Discovery(c) = d
      PROVE  Accounted(d)'
  <2>1. CASE ingest'[c] = ingest[c]
    BY <1>3, <2>1 DEF Accounted, Discovery
  <2>2. CASE ingest'[c] # ingest[c]
    <3>0. \/ EnqueueDiscovered(c) \/ IngestFails(c)
          \/ \E b \in Caller \ {c} : CallerStep(b)
      <4>1. \A b \in Caller : CallerStep(b) /\ b = c => EnqueueDiscovered(c) \/ IngestFails(c)
        BY <1>3 DEF CallerStep, StartBatch, UpsertPost, FindDiscovery, UpsertDiscovery,
                    StartManual, CommitManual
      <4>2. ingest' = ingest \/ \E b \in Caller : CallerStep(b)
        BY DEF Next, RemoveSource, ClassifyPost, UpdateLeadStatus, PromoteDelayed, Stall, Take,
               RunStep, Classify, Record, Publish, Finish, RunFails, RunCrashes,
               OthersComplete, OthersFail, vars
      <4> QED
        BY <2>2, <4>1, <4>2
    <3>1. CASE EnqueueDiscovered(c)
      <4>1. IngestPair(c) \in queued' /\ IngestPair(c) = <<d[1], d[2]>>
        BY <1>3, <3>1 DEF EnqueueDiscovered, Enqueue, IngestPair, Discovery
      <4> QED
        BY <4>1 DEF Accounted
    <3>2. CASE IngestFails(c)
      BY <1>3, <3>2 DEF IngestFails, Accounted
    <3>3. CASE \E b \in Caller \ {c} : CallerStep(b)
      BY <2>2, <3>3, OwnRequestOnly
    <3> QED
      BY <3>0, <3>1, <3>2, <3>3
  <2> QED
    BY <2>1, <2>2
<1> QED
  BY <1>1, <1>2, <1>3 DEF Accounted

\* Every discovery, and every one a request has found, stays accounted for.
LEMMA AccountStep ==
  ASSUME TypeOK, UnqueuedIsPendingOrDropped, FoundIsAccounted, [Next]_vars
  PROVE  UnqueuedIsPendingOrDropped' /\ FoundIsAccounted'
<1>1. ASSUME NEW d \in discoveries' \ discoveries PROVE Accounted(d)'
  <2>1. PICK c \in Caller : /\ UpsertDiscovery(c) \/ CommitManual(c)
                            /\ discoveries' = discoveries \cup {Discovery(c)}
    BY <1>1 DEF Next, CallerStep, RunStep, StartBatch, UpsertPost, FindDiscovery,
         UpsertDiscovery, EnqueueDiscovered, StartManual, CommitManual, IngestFails,
         RemoveSource, ClassifyPost, UpdateLeadStatus, Take, Classify, Record, Publish, Finish,
         RunFails, RunCrashes, PromoteDelayed, Stall, OthersComplete, OthersFail, vars, dbVars
  <2>2. d = Discovery(c) /\ Discovery(c) \in Workspace \X Post \X Source
    BY <1>1, <2>1 DEF Discovery, TypeOK, IngestRecord
  <2>3. CASE UpsertDiscovery(c) /\ ingest[c].existing
    BY <2>2, <2>3, AccountedStays DEF FoundIsAccounted, UpsertDiscovery
  <2>4. CASE CommitManual(c) \/ (UpsertDiscovery(c) /\ ~ingest[c].existing)
    <3>1. ingest[c].pc \in {"discover", "commit"} /\ ingest' = [ingest EXCEPT ![c].pc = "enqueue"]
      BY <2>4 DEF UpsertDiscovery, CommitManual
    <3>2. ingest'[c].pc = "enqueue"
      BY <3>1 DEF TypeOK, IngestRecord
    <3>3. Discovery(c)' = Discovery(c)
      BY <3>2, RequestKeepsDiscovery
    <3> QED
      BY <2>2, <3>2, <3>3 DEF Accounted
  <2> QED
    BY <2>1, <2>3, <2>4
<1>2. ASSUME NEW d \in discoveries' PROVE Accounted(d)'
  BY <1>1, AccountedStays DEF UnqueuedIsPendingOrDropped, TypeOK
<1>3. ASSUME NEW c \in Caller, ingest'[c].pc = "discover", ingest'[c].existing
      PROVE  Accounted(Discovery(c))'
  <2>1. /\ Discovery(c)' = Discovery(c)
        /\ \/ ingest[c].pc = "discover" /\ ingest[c].existing
           \/ Discovery(c) \in discoveries
    BY <1>3, RequestKeepsDiscovery
  <2>2. Accounted(Discovery(c)) /\ Discovery(c) \in Workspace \X Post \X Source
    BY <2>1 DEF FoundIsAccounted, UnqueuedIsPendingOrDropped, TypeOK, Discovery, IngestRecord
  <2> DEFINE d == Discovery(c)
  <2>3. ASSUME NEW e, e = Discovery(c) PROVE Accounted(e)'
    BY <2>2, <2>3, AccountedStays
  <2> QED
    BY <2>1, <2>3 DEF Accounted
<1> QED
  BY <1>2, <1>3 DEF UnqueuedIsPendingOrDropped, FoundIsAccounted

\* Two requests for one discovery never each leave its job to the other.
THEOREM DiscoveriesAreAccounted == Spec => []UnqueuedIsPendingOrDropped
<1>1. Init => UnqueuedIsPendingOrDropped /\ FoundIsAccounted
  BY DEF Init, UnqueuedIsPendingOrDropped, FoundIsAccounted, IdleIngest
<1>2. /\ TypeOK /\ UnqueuedIsPendingOrDropped /\ FoundIsAccounted /\ [Next]_vars
      => UnqueuedIsPendingOrDropped' /\ FoundIsAccounted'
  BY AccountStep
<1> QED
  BY <1>1, <1>2, TypeCorrect, PTL DEF Spec

\* Every step of the pipeline is a step of the ledger or changes none of it.
LEMMA RefineStep == IInv /\ [Next]_vars => [Ledger!LedgerNext]_(Ledger!ledgerVars)
<1> SUFFICES ASSUME IInv, [Next]_vars PROVE [Ledger!LedgerNext]_(Ledger!ledgerVars)
  OBVIOUS
<1> USE DEF Ledger!LedgerNext, Ledger!ledgerVars
<1>1. ASSUME NEW k \in Pair, queued' = queued \cup {k}, UNCHANGED <<classified, leads>>
      PROVE  Ledger!Request(k)
  BY <1>1 DEF Ledger!Request
<1>2. ASSUME NEW c \in Caller, EnqueueDiscovered(c)
      PROVE  [Ledger!LedgerNext]_(Ledger!ledgerVars)
  <2>1. IngestPair(c) \in Pair
    BY DEF IngestPair, Pair, IInv, TypeOK, IngestRecord
  <2> QED
    BY <1>1, <1>2, <2>1 DEF EnqueueDiscovered, Enqueue, dbVars
<1>3. ASSUME NEW k \in Pair, ClassifyPost(k) PROVE [Ledger!LedgerNext]_(Ledger!ledgerVars)
  BY <1>1, <1>3 DEF ClassifyPost, Enqueue, dbVars
<1>4. ASSUME NEW r \in Run, Record(r) PROVE [Ledger!LedgerNext]_(Ledger!ledgerVars)
  <2> PICK k \in Pair, v \in Verdict : k = run[r].pair /\ v = run[r].verdict /\ k \in queued
    BY <1>4 DEF Record, IInv, TypeOK, RunRecord, WorkIsQueued
  <2>1. Ledger!Judge(k)
    BY <1>4 DEF Record, Ledger!Judge, historyVars
  <2> QED
    BY <2>1
<1>5. ASSUME NEW r \in Run, Publish(r) PROVE [Ledger!LedgerNext]_(Ledger!ledgerVars)
  <2> PICK k \in Pair : k = run[r].pair
    BY <1>5 DEF Publish, IInv, WorkIsQueued
  <2>1. /\ run[r].row \in DOMAIN classified[k] /\ classified[k][run[r].row] = run[r].verdict
        /\ Qualifies(run[r].verdict)
    BY <1>5 DEF Publish, IInv, RunsAreBacked
  <2>2. Ledger!Qualifies(classified[k][run[r].row])
    BY <2>1 DEF Qualifies, LeadThreshold, Ledger!Qualifies, Ledger!LeadThreshold
  <2>3. leads' = [leads EXCEPT ![k] =
          [row |-> run[r].row, priorityScore |-> classified[k][run[r].row].priorityScore,
           status |-> IF leads[k] = NoLead THEN "NEW" ELSE leads[k].status]]
    BY <1>5, <2>1 DEF Publish
  <2>4. UNCHANGED <<queued, classified>>
    BY <1>5 DEF Publish, historyVars
  <2>5. Ledger!Promote(k)
    BY <2>1, <2>2, <2>3, <2>4 DEF Ledger!Promote
  <2> QED
    BY <2>5
<1>6. ASSUME NEW k \in Pair, UpdateLeadStatus(k) PROVE [Ledger!LedgerNext]_(Ledger!ledgerVars)
  <2>1. Ledger!Triage(k)
    BY <1>6 DEF UpdateLeadStatus, Ledger!Triage, historyVars
  <2> QED
    BY <2>1
<1>7. CASE UNCHANGED <<queued, classified, leads>>
  BY <1>7
<1> QED
  <2>1. CASE \E c \in Caller : CallerStep(c)
    BY <1>2, <1>7, <2>1
       DEF CallerStep, StartBatch, UpsertPost, FindDiscovery, UpsertDiscovery,
           StartManual, CommitManual, IngestFails, dbVars, historyVars
  <2>2. CASE \/ \E s \in Source : RemoveSource(s)
             \/ \E j \in Pair : \/ PromoteDelayed(j) \/ Stall(j)
                                \/ \E r \in Run : Take(r, j)
             \/ \E r \in Run : \/ Classify(r) \/ Finish(r) \/ RunFails(r) \/ RunCrashes(r)
             \/ OthersComplete \/ OthersFail \/ UNCHANGED vars
    BY <1>7, <2>2
       DEF OthersComplete, OthersFail, RemoveSource, PromoteDelayed, Stall, Take,
           Classify, Finish, RunFails, RunCrashes, vars, dbVars, historyVars
  <2> QED
    BY <1>3, <1>4, <1>5, <1>6, <2>1, <2>2 DEF Next, RunStep

\* The pipeline implements LeadLedger: what workers, retries and crashes do to
\* verdicts and leads is a sequence of Request, Judge, Promote and Triage.
THEOREM PipelineRefinesLedger == Spec => RefinesLedger
<1>1. Init => Ledger!LedgerInit
  BY DEF Init, Ledger!LedgerInit
<1>2. IInv /\ [Next]_vars => [Ledger!LedgerNext]_(Ledger!ledgerVars)
  BY RefineStep
<1> QED
  BY <1>1, <1>2, Inductive, PTL DEF Spec, RefinesLedger, Ledger!LedgerSpec

-----------------------------------------------------------------------------
(* Rows, retention and holders *)

\* What a step does to a run: it starts it on a waiting job, or goes on with it.
LEMMA RunEffect ==
  ASSUME IInv, [Next]_vars, NEW r \in Run
  PROVE  \/ run'[r] = run[r]
         \/ run'[r].pc = "idle"
         \/ \E k \in Pair : /\ Take(r, k) /\ run'[r].pc = "classify" /\ run'[r].pair = k
         \/ /\ Classify(r) /\ run[r].pc = "classify"
            /\ run'[r].pc = "record" /\ run'[r].pair = run[r].pair
         \/ /\ Record(r) /\ run[r].pc = "record" /\ run'[r].pair = run[r].pair
            /\ run'[r].pc \in {"publish", "finish"}
            /\ run'[r].row = Len(classified[run[r].pair]) + 1
         \/ /\ Publish(r) /\ run[r].pc = "publish"
            /\ run'[r].pc = "finish" /\ run'[r].pair = run[r].pair
<1>0. run \in [Run -> RunRecord] /\ IdleRun.pc = "idle"
  BY DEF IInv, TypeOK, IdleRun
<1>1. ASSUME NEW q \in Run, q # r,
             \/ Classify(q) \/ Record(q) \/ Publish(q) \/ Finish(q) \/ RunFails(q)
             \/ RunCrashes(q) \/ \E k \in Pair : Take(q, k)
      PROVE  run'[r] = run[r]
  BY <1>0, <1>1 DEF Classify, Record, Publish, Finish, RunFails, RunCrashes, Take
<1>2. ASSUME NEW k \in Pair, Take(r, k) PROVE run'[r].pc = "classify" /\ run'[r].pair = k
  <2>1. run'[r] = [IdleRun EXCEPT !.pc = "classify", !.pair = k]
    BY <1>0, <1>2 DEF Take
  <2> QED
    BY <2>1 DEF IdleRun
<1>3. ASSUME Classify(r)
      PROVE  run[r].pc = "classify" /\ run'[r].pc = "record" /\ run'[r].pair = run[r].pair
  <2>1. PICK v \in Verdict : run' = [run EXCEPT ![r].pc = "record", ![r].verdict = v]
    BY <1>3 DEF Classify
  <2>2. run'[r] = [run[r] EXCEPT !.pc = "record", !.verdict = v] /\ run[r].pc = "classify"
    BY <1>0, <1>3, <2>1 DEF Classify
  <2> QED
    BY <1>0, <2>2 DEF RunRecord
<1>4. ASSUME Record(r)
      PROVE  /\ run[r].pc = "record" /\ run'[r].pair = run[r].pair
             /\ run'[r].pc \in {"publish", "finish"}
             /\ run'[r].row = Len(classified[run[r].pair]) + 1
  <2>1. PICK pc \in {"publish", "finish"} :
          run' = [run EXCEPT ![r].row = Len(classified[run[r].pair]) + 1, ![r].pc = pc]
    BY <1>4 DEF Record
  <2>2. /\ run'[r] = [run[r] EXCEPT !.row = Len(classified[run[r].pair]) + 1, !.pc = pc]
        /\ run[r].pc = "record"
    BY <1>0, <1>4, <2>1 DEF Record
  <2> QED
    BY <1>0, <2>2 DEF RunRecord
<1>5. ASSUME Publish(r)
      PROVE  run[r].pc = "publish" /\ run'[r].pc = "finish" /\ run'[r].pair = run[r].pair
  BY <1>0, <1>5 DEF Publish, RunRecord
<1>6. ASSUME Finish(r) \/ RunFails(r) \/ RunCrashes(r) PROVE run'[r].pc = "idle"
  BY <1>0, <1>6 DEF Finish, RunFails, RunCrashes
<1>7. CASE \E q \in Run : \/ RunStep(q) \/ RunCrashes(q) \/ \E k \in Pair : Take(q, k)
  BY <1>1, <1>2, <1>3, <1>4, <1>5, <1>6, <1>7 DEF RunStep
<1>8. CASE run' = run
  BY <1>8
<1> QED
  <2>1. CASE \E c \in Caller : CallerStep(c)
    BY <1>8, <2>1
       DEF CallerStep, StartBatch, UpsertPost, FindDiscovery, UpsertDiscovery,
           EnqueueDiscovered, StartManual, CommitManual, IngestFails
  <2>2. CASE \/ \E s \in Source : RemoveSource(s)
             \/ \E k \in Pair : \/ ClassifyPost(k) \/ UpdateLeadStatus(k)
                                \/ PromoteDelayed(k) \/ Stall(k)
             \/ OthersComplete \/ OthersFail \/ UNCHANGED vars
    BY <1>8, <2>2 DEF OthersComplete, OthersFail, RemoveSource, ClassifyPost, UpdateLeadStatus,
       PromoteDelayed, Stall, vars
  <2> QED
    BY <1>7, <2>1, <2>2 DEF Next

\* A step adds a row to a pair only as Record does, and a generation only with a
\* fresh job.
LEMMA RowEffect ==
  ASSUME IInv, [Next]_vars, NEW k \in Pair
  PROVE  /\ \/ classified'[k] = classified[k]
            \/ \E r \in Run : /\ Record(r) /\ run[r].pair = k /\ job' = job
                              /\ Len(classified'[k]) = Len(classified[k]) + 1
         /\ \/ generations'[k] = generations[k]
            \/ generations'[k] = generations[k] + 1
         /\ job[k].state = "absent" /\ job'[k] = FreshJob => generations'[k] = generations[k] + 1
<1> DEFINE Rows == \/ classified'[k] = classified[k]
                   \/ \E r \in Run : /\ Record(r) /\ run[r].pair = k /\ job' = job
                                     /\ Len(classified'[k]) = Len(classified[k]) + 1
           Gens == /\ \/ generations'[k] = generations[k]
                      \/ generations'[k] = generations[k] + 1
                   /\ job[k].state = "absent" /\ job'[k] = FreshJob
                        => generations'[k] = generations[k] + 1
<1>0. /\ classified \in [Pair -> Seq(Verdict)] /\ job \in [Pair -> JobRecord]
      /\ generations \in [Pair -> Nat] /\ run \in [Run -> RunRecord]
      /\ FreshJob.state = "waiting" /\ NoJob.state = "absent"
  BY DEF IInv, TypeOK, FreshJob, NoJob
<1>1. ASSUME NEW r \in Run, Record(r) PROVE Rows /\ Gens
  <2>1. run[r].pair \in Pair /\ run[r].verdict \in Verdict /\ classified[k] \in Seq(Verdict)
    BY <1>0, <1>1 DEF Record, RunRecord, IInv, WorkIsQueued
  <2>2. /\ classified' = [classified EXCEPT ![run[r].pair] = Append(@, run[r].verdict)]
        /\ job' = job /\ generations' = generations
    BY <1>1 DEF Record, queueVars, historyVars
  <2>3. CASE run[r].pair = k
    <3>1. classified'[k] = Append(classified[k], run[r].verdict)
      BY <1>0, <2>2, <2>3
    <3>2. Len(classified'[k]) = Len(classified[k]) + 1
      BY <2>1, <3>1
    <3> QED
      BY <1>0, <1>1, <2>2, <2>3, <3>2
  <2>4. CASE run[r].pair # k
    BY <1>0, <2>1, <2>2, <2>4
  <2> QED
    BY <2>3, <2>4
<1>2. ASSUME NEW j \in Pair, Enqueue(j), classified' = classified PROVE Rows /\ Gens
  <2>1. CASE job[j].state = "absent"
    BY <1>0, <1>2, <2>1 DEF Enqueue
  <2>2. CASE job[j].state # "absent"
    BY <1>0, <1>2, <2>2 DEF Enqueue
  <2> QED
    BY <2>1, <2>2
<1>3. ASSUME UNCHANGED <<classified, generations>>,
             \A j \in Pair : job[j].state = "absent" => job'[j].state = "absent"
      PROVE  Rows /\ Gens
  BY <1>0, <1>3
<1>4. ASSUME NEW j \in Pair, job[j].state # "absent", UNCHANGED <<classified, generations>>,
             \A i \in Pair \ {j} : job'[i] = job[i] \/ job'[i] = NoJob
      PROVE  Rows /\ Gens
  BY <1>0, <1>3, <1>4
<1>5. ASSUME NEW r \in Run, NEW j \in Pair, Take(r, j) PROVE Rows /\ Gens
  BY <1>0, <1>4, <1>5 DEF Take, dbVars, historyVars
<1>6. ASSUME NEW r \in Run, Finish(r) \/ RunFails(r) \/ RunCrashes(r) PROVE Rows /\ Gens
  <2>1. run[r].pair \in Pair /\ UNCHANGED <<classified, generations>>
    BY <1>6 DEF Finish, RunFails, RunCrashes, IInv, WorkIsQueued, dbVars, historyVars
  <2>2. CASE job' = job
    BY <1>3, <2>1, <2>2
  <2>3. CASE job[run[r].pair].holder = r
    <3>1. job[run[r].pair].state # "absent"
      BY <2>1, <2>3, NullAssumption DEF IInv, JobsHaveBudget
    <3>2. \A i \in Pair \ {run[r].pair} : job'[i] = job[i] \/ job'[i] = NoJob
      BY <1>0, <1>6, <2>1, <2>3 DEF Finish, RunFails, RunCrashes, Bury, SettleJob
    <3> QED
      BY <1>4, <2>1, <3>1, <3>2
  <2> QED
    BY <1>6, <2>2, <2>3 DEF Finish, RunFails, RunCrashes, queueVars
<1>7. ASSUME NEW j \in Pair, PromoteDelayed(j) \/ Stall(j) PROVE Rows /\ Gens
  <2>1. job[j].state # "absent" /\ UNCHANGED <<classified, generations>>
    BY <1>7 DEF PromoteDelayed, Stall, dbVars, historyVars
  <2>2. \A i \in Pair \ {j} : job'[i] = job[i] \/ job'[i] = NoJob
    BY <1>0, <1>7 DEF PromoteDelayed, Stall, Bury, SettleJob
  <2> QED
    BY <1>4, <2>1, <2>2
<1>8. ASSUME OthersComplete \/ OthersFail PROVE Rows /\ Gens
  <2>1. \A j \in Pair : job'[j] = job[j] \/ job'[j] = NoJob
    BY <1>0, <1>8 DEF OthersComplete, OthersFail
  <2>2. UNCHANGED <<classified, generations>>
    BY <1>8 DEF OthersComplete, OthersFail, dbVars, historyVars
  <2> QED
    BY <1>0, <1>3, <2>1, <2>2
<1>9. ASSUME UNCHANGED <<classified, generations, job>> PROVE Rows /\ Gens
  BY <1>0, <1>3, <1>9
<1>10. ASSUME NEW c \in Caller, EnqueueDiscovered(c) PROVE Rows /\ Gens
  <2>1. IngestPair(c) \in Pair
    BY DEF IngestPair, Pair, IInv, TypeOK, IngestRecord
  <2> QED
    BY <1>2, <1>10, <2>1 DEF EnqueueDiscovered, dbVars
<1>11. ASSUME NEW j \in Pair, ClassifyPost(j) PROVE Rows /\ Gens
  BY <1>2, <1>11 DEF ClassifyPost, dbVars
<1> HIDE DEF Rows, Gens
<1>12. Rows /\ Gens
  <2>1. CASE \E c \in Caller : CallerStep(c)
    BY <1>9, <1>10, <2>1
       DEF CallerStep, StartBatch, UpsertPost, FindDiscovery, UpsertDiscovery,
           StartManual, CommitManual, IngestFails, dbVars, queueVars, historyVars
  <2>2. CASE \/ \E s \in Source : RemoveSource(s)
             \/ \E j \in Pair : UpdateLeadStatus(j)
             \/ \E r \in Run : Classify(r) \/ Publish(r)
             \/ UNCHANGED vars
    BY <1>9, <2>2
       DEF RemoveSource, UpdateLeadStatus, Classify, Publish, vars, dbVars, queueVars, historyVars
  <2> QED
    BY <1>1, <1>5, <1>6, <1>7, <1>8, <1>11, <2>1, <2>2 DEF Next, RunStep
<1> QED
  BY <1>12 DEF Rows, Gens

\* A step leaves a pair's job as often to take as it was, or less, unless it is
\* the pair's fresh job; taking it uses one up.
LEMMA LeftEffect ==
  ASSUME IInv, [Next]_vars, NEW k \in Pair
  PROVE  /\ TakesLeft(k) \in Nat /\ TakesLeft(k)' \in Nat
         /\ \/ TakesLeft(k)' <= TakesLeft(k)
            \/ /\ job[k].state = "absent" /\ job'[k] = FreshJob
               /\ TakesLeft(k) = 0 /\ TakesLeft(k)' = MaxAttempts + MaxStalls
         /\ \A r \in Run : Take(r, k) => TakesLeft(k)' = TakesLeft(k) - 1
<1> DEFINE Effect == \/ TakesLeft(k)' <= TakesLeft(k)
                     \/ /\ job[k].state = "absent" /\ job'[k] = FreshJob
                        /\ TakesLeft(k) = 0 /\ TakesLeft(k)' = MaxAttempts + MaxStalls
<1>0. /\ job \in [Pair -> JobRecord] /\ job' \in [Pair -> JobRecord]
      /\ job[k] \in JobRecord /\ job'[k] \in JobRecord
      /\ MaxAttempts \in Nat \ {0} /\ MaxStalls \in Nat
  BY TypeStep, BoundAssumption DEF IInv, TypeOK
<1>1. /\ job[k].made \in Nat /\ job[k].stalls \in Nat
      /\ job[k].state \in {"waiting", "active", "delayed"} =>
           job[k].made < MaxAttempts /\ job[k].stalls <= MaxStalls
      /\ job[k].holder # NoRun => job[k].state = "active"
  BY <1>0 DEF JobRecord, IInv, JobsHaveBudget
<1>2. /\ job'[k].made \in Nat /\ job'[k].stalls \in Nat
      /\ job'[k].state \in {"waiting", "active", "delayed"} =>
           job'[k].made < MaxAttempts /\ job'[k].stalls <= MaxStalls
  BY <1>0, BudgetStep DEF JobRecord, JobsHaveBudget
<1>3. TakesLeft(k) \in Nat
  BY <1>0, <1>1 DEF TakesLeft
<1>4. TakesLeft(k)' \in Nat
  BY <1>0, <1>2 DEF TakesLeft
<1>5. ASSUME NEW r \in Run, Take(r, k) PROVE TakesLeft(k)' = TakesLeft(k) - 1
  <2>1. job[k].state = "waiting" /\ job'[k] = [job[k] EXCEPT !.state = "active", !.holder = r]
    BY <1>0, <1>5 DEF Take
  <2>2. job'[k].state = "active" /\ job'[k].made = job[k].made /\ job'[k].stalls = job[k].stalls
    BY <1>0, <2>1 DEF JobRecord
  <2> QED
    BY <1>0, <1>1, <2>1, <2>2 DEF TakesLeft
<1>6. ASSUME job'[k].state \notin {"waiting", "active", "delayed"} PROVE Effect
  BY <1>3, <1>6 DEF TakesLeft
<1>7. ASSUME job'[k].state = job[k].state, job'[k].made = job[k].made, job'[k].stalls = job[k].stalls
      PROVE  Effect
  BY <1>0, <1>1, <1>7 DEF TakesLeft
<1>8. Effect
  <2>1. CASE job'[k] = job[k]
    BY <1>7, <2>1
  <2>2. CASE job'[k] = NoJob
    BY <1>6, <2>2 DEF NoJob
  <2>3. CASE job[k].state = "absent" /\ job'[k] = FreshJob
    BY <1>0, <2>3 DEF NoJob, FreshJob, TakesLeft
  <2>4. ASSUME NEW r \in Run, job[k].state = "waiting",
               job'[k] = [job[k] EXCEPT !.state = "active", !.holder = r]
        PROVE  Effect
    <3>1. job'[k].state = "active" /\ job'[k].made = job[k].made /\ job'[k].stalls = job[k].stalls
      BY <1>0, <2>4 DEF JobRecord
    <3> QED
      BY <1>0, <1>1, <2>4, <3>1 DEF TakesLeft
  <2>5. ASSUME NEW r \in Run,
               job'[k] = [job[k] EXCEPT !.state = "completed", !.made = @ + 1,
                                        !.holder = NoRun, !.result = run[r].row]
        PROVE  Effect
    <3>1. job'[k].state = "completed"
      BY <1>0, <2>5 DEF JobRecord
    <3> QED
      BY <1>6, <3>1
  <2>6. CASE /\ job[k].holder # NoRun /\ job[k].made + 1 < MaxAttempts
             /\ job'[k] = [job[k] EXCEPT !.state = "delayed", !.made = @ + 1, !.holder = NoRun]
    <3>1. /\ job'[k].state = "delayed" /\ job'[k].made = job[k].made + 1
          /\ job'[k].stalls = job[k].stalls
      BY <1>0, <2>6 DEF JobRecord
    <3> QED
      BY <1>0, <1>1, <2>6, <3>1 DEF TakesLeft
  <2>7. ASSUME NEW n, job'[k] = [job[k] EXCEPT !.state = "failed", !.made = n, !.holder = NoRun]
        PROVE  Effect
    <3>1. job'[k].state = "failed"
      BY <1>0, <2>7 DEF JobRecord
    <3> QED
      BY <1>6, <3>1
  <2>8. CASE job'[k] = [job[k] EXCEPT !.holder = NoRun]
    <3>1. /\ job'[k].state = job[k].state /\ job'[k].made = job[k].made
          /\ job'[k].stalls = job[k].stalls
      BY <1>0, <2>8 DEF JobRecord
    <3> QED
      BY <1>7, <3>1
  <2>9. CASE job[k].state = "delayed" /\ job'[k] = [job[k] EXCEPT !.state = "waiting"]
    <3>1. job'[k].state = "waiting" /\ job'[k].made = job[k].made /\ job'[k].stalls = job[k].stalls
      BY <1>0, <2>9 DEF JobRecord
    <3> QED
      BY <1>0, <1>1, <2>9, <3>1 DEF TakesLeft
  <2>10. CASE /\ job[k].state = "active" /\ job[k].stalls < MaxStalls
              /\ job'[k] = [job[k] EXCEPT !.state = "waiting", !.stalls = @ + 1, !.holder = NoRun]
    <3>1. /\ job'[k].state = "waiting" /\ job'[k].made = job[k].made
          /\ job'[k].stalls = job[k].stalls + 1
      BY <1>0, <2>10 DEF JobRecord
    <3> QED
      BY <1>0, <1>1, <2>10, <3>1 DEF TakesLeft
  <2> HIDE DEF Effect
  <2> QED
    BY <2>1, <2>2, <2>3, <2>4, <2>5, <2>6, <2>7, <2>8, <2>9, <2>10, JobStep DEF JobEffect
<1> QED
  BY <1>3, <1>4, <1>5, <1>8

\* Rows stay within the budget: a fresh job brings its attempts and stalls, a run
\* uses one up when it is taken and records one row at most.
LEMMA RowsStep == IInv /\ RowsAreBudgeted /\ [Next]_vars => RowsAreBudgeted'
<1> SUFFICES ASSUME IInv, RowsAreBudgeted, [Next]_vars, NEW k \in Pair
             PROVE  /\ IsFiniteSet(Writers(k)')
                    /\ Len(classified'[k]) + Cardinality(Writers(k)') + TakesLeft(k)'
                         <= generations'[k] * (MaxAttempts + MaxStalls)
  BY DEF RowsAreBudgeted
<1> DEFINE budget == MaxAttempts + MaxStalls
           writers == Writers(k)
           next == Writers(k)'
<1>1. /\ IsFiniteSet(writers) /\ Cardinality(writers) \in Nat
      /\ Len(classified[k]) + Cardinality(writers) + TakesLeft(k) <= generations[k] * budget
  BY FS_CardinalityType DEF RowsAreBudgeted
<1>2. /\ classified \in [Pair -> Seq(Verdict)] /\ classified' \in [Pair -> Seq(Verdict)]
      /\ generations[k] \in Nat /\ generations'[k] \in Nat
      /\ budget \in Nat /\ run \in [Run -> RunRecord]
  BY TypeStep, BoundAssumption DEF IInv, TypeOK
<1>3. Len(classified[k]) \in Nat /\ Len(classified'[k]) \in Nat
  BY <1>2
<1>4. /\ TakesLeft(k) \in Nat /\ TakesLeft(k)' \in Nat
      /\ \/ TakesLeft(k)' <= TakesLeft(k)
         \/ /\ job[k].state = "absent" /\ job'[k] = FreshJob
            /\ TakesLeft(k) = 0 /\ TakesLeft(k)' = budget
      /\ \A r \in Run : Take(r, k) => TakesLeft(k)' = TakesLeft(k) - 1
  BY LeftEffect
<1>5. /\ generations'[k] = generations[k] \/ generations'[k] = generations[k] + 1
      /\ job[k].state = "absent" /\ job'[k] = FreshJob => generations'[k] = generations[k] + 1
      /\ \/ classified'[k] = classified[k]
         \/ \E r \in Run : /\ Record(r) /\ run[r].pair = k /\ job' = job
                           /\ Len(classified'[k]) = Len(classified[k]) + 1
  BY RowEffect
<1>6. /\ generations[k] * budget <= generations'[k] * budget
      /\ generations'[k] = generations[k] + 1 =>
           generations'[k] * budget = generations[k] * budget + budget
      /\ generations[k] * budget \in Nat /\ generations'[k] * budget \in Nat
  <2>1. \A g, b \in Nat : (g + 1) * b = g * b + b /\ g * b \in Nat
    OBVIOUS
  <2> HIDE DEF budget
  <2>2. CASE generations'[k] = generations[k]
    BY <1>2, <2>1, <2>2
  <2>3. CASE generations'[k] = generations[k] + 1
    <3> DEFINE old == generations[k] * budget
               new == generations'[k] * budget
    <3>1. new = (generations[k] + 1) * budget
      BY <2>3
    <3>2. new = old + budget /\ old \in Nat /\ budget \in Nat
      BY <1>2, <2>1, <3>1
    <3> HIDE DEF old, new
    <3>3. old <= new /\ new \in Nat /\ new = old + budget /\ old \in Nat
      BY <3>2
    <3> QED
      BY <3>3 DEF old, new
  <2> QED
    BY <1>5, <2>2, <2>3
<1> DEFINE have == generations[k] * budget
           may == generations'[k] * budget
<1>10. /\ have <= may /\ have \in Nat /\ may \in Nat
       /\ generations'[k] = generations[k] + 1 => may = have + budget
       /\ Len(classified[k]) + Cardinality(writers) + TakesLeft(k) <= have
  BY <1>1, <1>6
<1> HIDE DEF budget, have, may
<1>7. ASSUME NEW r \in Run, Take(r, k)
      PROVE  /\ IsFiniteSet(next)
             /\ Len(classified'[k]) + Cardinality(next) + TakesLeft(k)' <= may
  <2>1. UNCHANGED classified /\ \A q \in Run \ {r} : run'[q] = run[q]
    BY <1>2, <1>7 DEF Take, dbVars
  <2>2. next \subseteq writers \cup {r} /\ r \notin writers
    BY <1>7, <2>1 DEF Take, Writers
  <2> HIDE DEF next, writers
  <2>3. /\ IsFiniteSet(writers \cup {r})
        /\ Cardinality(writers \cup {r}) = Cardinality(writers) + 1
    BY <1>1, <2>2, FS_AddElement
  <2>4. IsFiniteSet(next) /\ Cardinality(next) \in Nat /\ Cardinality(next) <= Cardinality(writers) + 1
    BY <2>2, <2>3, FS_Subset, FS_CardinalityType
  <2>5. TakesLeft(k)' = TakesLeft(k) - 1 /\ TakesLeft(k) \in Nat
    BY <1>4, <1>7
  <2>6. Len(classified'[k]) = Len(classified[k]) /\ Len(classified[k]) \in Nat
    BY <1>3, <2>1
  <2> QED
    BY <1>1, <1>10, <2>4, <2>5, <2>6
<1>8. ASSUME NEW r \in Run, Record(r), run[r].pair = k, job' = job,
             Len(classified'[k]) = Len(classified[k]) + 1
      PROVE  /\ IsFiniteSet(next)
             /\ Len(classified'[k]) + Cardinality(next) + TakesLeft(k)' <= may
  <2>1. /\ r \in writers /\ run'[r].pc \in {"publish", "finish"}
        /\ \A q \in Run \ {r} : run'[q] = run[q]
    <3>1. run[r].pc = "record" /\ \A q \in Run \ {r} : run'[q] = run[q]
      BY <1>2, <1>8 DEF Record
    <3>2. PICK pc \in {"publish", "finish"} :
            run' = [run EXCEPT ![r].row = Len(classified[k]) + 1, ![r].pc = pc]
      BY <1>8 DEF Record
    <3>3. run'[r] = [run[r] EXCEPT !.row = Len(classified[k]) + 1, !.pc = pc]
      BY <1>2, <3>2
    <3>4. run'[r].pc = pc
      BY <1>2, <3>3 DEF RunRecord
    <3> QED
      BY <1>8, <3>1, <3>4 DEF Writers
  <2>2. next \subseteq writers \ {r} /\ r \in writers
    BY <2>1 DEF Writers
  <2>3. TakesLeft(k)' = TakesLeft(k)
    BY <1>8 DEF TakesLeft
  <2> HIDE DEF next, writers
  <2>4. /\ IsFiniteSet(writers \ {r})
        /\ Cardinality(writers \ {r}) = Cardinality(writers) - 1
    BY <1>1, <2>2, FS_RemoveElement
  <2>5. IsFiniteSet(next) /\ Cardinality(next) \in Nat /\ Cardinality(next) <= Cardinality(writers) - 1
    BY <2>2, <2>4, FS_Subset, FS_CardinalityType
  <2> QED
    BY <1>1, <1>3, <1>4, <1>10, <1>8, <2>3, <2>5
<1>9. ASSUME \A r \in Run : ~ Take(r, k), classified'[k] = classified[k]
      PROVE  /\ IsFiniteSet(next)
             /\ Len(classified'[k]) + Cardinality(next) + TakesLeft(k)' <= may
  <2>1. next \subseteq writers
    <3> SUFFICES ASSUME NEW r \in Run, run'[r].pair = k, run'[r].pc \in {"classify", "record"}
                 PROVE  run[r].pair = k /\ run[r].pc \in {"classify", "record"}
      BY DEF Writers
    <3>1. \A j \in Pair : Take(r, j) /\ run'[r].pair = j => FALSE
      BY <1>9
    <3> QED
      BY <3>1, RunEffect
  <2> HIDE DEF next, writers
  <2>2. IsFiniteSet(next) /\ Cardinality(next) \in Nat /\ Cardinality(next) <= Cardinality(writers)
    BY <1>1, <2>1, FS_Subset, FS_CardinalityType
  <2> QED
    BY <1>1, <1>3, <1>4, <1>5, <1>10, <1>9, <2>2
<1> QED
  BY <1>5, <1>7, <1>8, <1>9 DEF budget, may

\* A list that takes a new pair up forgets its oldest, and no pair is twice in it.
LEMMA Retaining ==
  ASSUME NEW list \in Seq(Pair), NEW k \in Pair, NEW keep \in Nat \ {0}, NEW new,
         new = Retain(list, k, keep),
         \A i \in DOMAIN list : list[i] # k,
         \A i, j \in DOMAIN list : list[i] = list[j] => i = j
  PROVE  /\ \A i, j \in DOMAIN new : new[i] = new[j] => i = j
         /\ \A i \in DOMAIN new :
              new[i] = k \/ \E j \in DOMAIN list : new[i] = list[j] /\ list[j] \notin Evicted(list, keep)
<1>1. CASE Len(list) >= keep
  <2>1. /\ list # <<>> /\ Tail(list) \in Seq(Pair) /\ Len(Tail(list)) = Len(list) - 1
        /\ Len(list) \in Nat /\ \A i \in 1..Len(list) - 1 : Tail(list)[i] = list[i + 1]
    BY <1>1
  <2>2. new = Append(Tail(list), k) /\ Evicted(list, keep) = {list[1]}
    BY <1>1, <2>1 DEF Retain, Evicted
  <2>3. Len(new) = Len(list) /\ DOMAIN new = 1..Len(list) /\ DOMAIN list = 1..Len(list)
    BY <2>1, <2>2
  <2>4. \A i \in 1..Len(list) : new[i] = IF i = Len(list) THEN k ELSE list[i + 1]
    <3> TAKE i \in 1..Len(list)
    <3>1. CASE i = Len(list)
      BY <2>1, <2>2, <3>1
    <3>2. CASE i # Len(list)
      <4>0. \A n \in Nat : \A l \in 1..n : l # n => l \in 1..n - 1
        OBVIOUS
      <4>1. i \in 1..Len(list) - 1
        BY <2>1, <3>2, <4>0
      <4>2. \A s \in Seq(Pair) : \A l \in 1..Len(s) : Append(s, k)[l] = s[l]
        OBVIOUS
      <4>3. Append(Tail(list), k)[i] = Tail(list)[i]
        BY <2>1, <4>1, <4>2
      <4> QED
        BY <2>1, <2>2, <3>2, <4>1, <4>3
    <3> QED
      BY <3>1, <3>2
  <2> HIDE DEF Pair
  <2>5. ASSUME NEW i \in 1..Len(list), i # Len(list)
        PROVE  i + 1 \in 1..Len(list) /\ new[i] = list[i + 1] /\ 1 \in 1..Len(list) /\ i + 1 # 1
    BY <2>4, <2>5
  <2>6. \A i, j \in DOMAIN new : new[i] = new[j] => i = j
    <3> SUFFICES ASSUME NEW i \in 1..Len(list), NEW j \in 1..Len(list), new[i] = new[j]
                 PROVE  i = j
      BY <2>3
    <3>1. CASE i # Len(list) /\ j # Len(list)
      <4>1. /\ i + 1 \in DOMAIN list /\ j + 1 \in DOMAIN list
            /\ list[i + 1] = list[j + 1]
        BY <2>3, <2>5, <3>1
      <4>2. i + 1 = j + 1
        BY <4>1
      <4> QED
        BY <4>2
    <3>2. CASE i = Len(list) /\ j # Len(list)
      <4>1. new[j] = list[j + 1] /\ j + 1 \in DOMAIN list
        BY <2>3, <2>5, <3>2
      <4>2. new[i] = k
        BY <2>4, <3>2
      <4>3. list[j + 1] # k
        BY <4>1
      <4> QED
        BY <4>1, <4>2, <4>3
    <3>4. CASE i # Len(list) /\ j = Len(list)
      <4>1. new[i] = list[i + 1] /\ i + 1 \in DOMAIN list
        BY <2>3, <2>5, <3>4
      <4>2. new[j] = k
        BY <2>4, <3>4
      <4>3. list[i + 1] # k
        BY <4>1
      <4> QED
        BY <4>1, <4>2, <4>3
    <3>3. CASE i = Len(list) /\ j = Len(list)
      BY <3>3
    <3> QED
      BY <3>1, <3>2, <3>3, <3>4
  <2>7. ASSUME NEW i \in DOMAIN new, new[i] # k
        PROVE  \E j \in DOMAIN list : new[i] = list[j] /\ list[j] \notin Evicted(list, keep)
    <3>1. i \in 1..Len(list) /\ i # Len(list)
      BY <2>3, <2>4, <2>7
    <3>2. /\ i + 1 \in DOMAIN list /\ 1 \in DOMAIN list /\ i + 1 # 1 /\ new[i] = list[i + 1]
      BY <2>3, <2>5, <3>1
    <3>3. list[i + 1] # list[1]
      BY <3>2
    <3> QED
      BY <2>2, <3>2, <3>3
  <2> QED
    BY <2>6, <2>7
<1>2. CASE ~(Len(list) >= keep)
  <2>1. new = Append(list, k) /\ Evicted(list, keep) = {}
    BY <1>2 DEF Retain, Evicted
  <2>2. /\ DOMAIN new = 1..Len(list) + 1 /\ DOMAIN list = 1..Len(list) /\ Len(list) \in Nat
        /\ \A i \in 1..Len(list) : new[i] = list[i]
        /\ new[Len(list) + 1] = k
    BY <2>1
  <2>3. \A i \in 1..Len(list) + 1 : i \in 1..Len(list) \/ i = Len(list) + 1
    BY <2>2
  <2> QED
    BY <2>1, <2>2, <2>3
<1> QED
  BY <1>1, <1>2

\* A list goes on to hold settled jobs when its pairs keep their jobs.
LEMMA SettlesStays ==
  ASSUME NEW list, NEW state, Settles(list, state),
         \A i \in DOMAIN list : job'[list[i]].state = job[list[i]].state
  PROVE  Settles(list, state)'
BY DEF Settles

\* It does when its oldest pair is forgotten, and when a pair joins whose job
\* just settled.
LEMMA SettlesTail ==
  ASSUME NEW list \in Seq(Pair), list # <<>>, NEW state, Settles(list, state),
         \A k \in Pair : k # Head(list) => job'[k] = job[k]
  PROVE  Settles(Tail(list), state)'
<1>1. /\ DOMAIN Tail(list) = 1..Len(list) - 1 /\ DOMAIN list = 1..Len(list) /\ Len(list) \in Nat
      /\ \A i \in 1..Len(list) - 1 : Tail(list)[i] = list[i + 1]
      /\ Head(list) = list[1]
  OBVIOUS
<1>2. ASSUME NEW i \in 1..Len(list) - 1
      PROVE  /\ i + 1 \in DOMAIN list /\ 1 \in DOMAIN list /\ i + 1 # 1
             /\ Tail(list)[i] = list[i + 1] /\ list[i + 1] \in Pair
  BY <1>1, <1>2
<1>3. ASSUME NEW i \in 1..Len(list) - 1 PROVE job'[Tail(list)[i]].state = state
  <2>1. list[i + 1] # Head(list)
    BY <1>1, <1>2 DEF Settles
  <2> QED
    BY <1>2, <2>1 DEF Settles
<1>4. ASSUME NEW i \in 1..Len(list) - 1, NEW j \in 1..Len(list) - 1, Tail(list)[i] = Tail(list)[j]
      PROVE  i = j
  <2>1. i + 1 = j + 1
    BY <1>2, <1>4 DEF Settles
  <2> QED
    BY <2>1
<1> QED
  BY <1>1, <1>3, <1>4 DEF Settles

LEMMA SettlesRetain ==
  ASSUME NEW list \in Seq(Pair), NEW state, Settles(list, state), NEW keep \in Nat \ {0},
         NEW k \in Pair, job[k].state # state, job'[k].state = state,
         \A j \in Pair : j # k /\ j \notin Evicted(list, keep) => job'[j] = job[j]
  PROVE  Settles(Retain(list, k, keep), state)'
<1> PICK new : new = Retain(list, k, keep)
  OBVIOUS
<1>1. \A i \in DOMAIN list : list[i] # k /\ list[i] \in Pair /\ job[list[i]].state = state
  BY DEF Settles
<1>2. /\ \A i, j \in DOMAIN new : new[i] = new[j] => i = j
      /\ \A i \in DOMAIN new :
           new[i] = k \/ \E j \in DOMAIN list : new[i] = list[j] /\ list[j] \notin Evicted(list, keep)
  BY <1>1, Retaining DEF Settles
<1>3. \A i \in DOMAIN new : job'[new[i]].state = state
  BY <1>1, <1>2
<1> QED
  BY <1>2, <1>3 DEF Settles

LEMMA SettlesUntouched ==
  ASSUME NEW list \in Seq(Pair), NEW state, Settles(list, state),
         \A j \in Pair : job[j].state = state => job'[j] = job[j]
  PROVE  Settles(list, state)'
<1>1. \A i \in DOMAIN list : list[i] \in Pair
  OBVIOUS
<1> QED
  BY <1>1 DEF Settles

\* Only a settled job of its state leaves a list.
LEMMA EvictedSettled ==
  ASSUME NEW list \in Seq(Pair), NEW state, Settles(list, state), NEW keep \in Nat \ {0},
         NEW j \in Evicted(list, keep)
  PROVE  job[j].state = state
<1>1. Len(list) \in Nat /\ Len(list) >= keep /\ j = Head(list)
  BY DEF Evicted
<1>2. 1 \in DOMAIN list /\ j = list[1]
  BY <1>1
<1> QED
  BY <1>2 DEF Settles

\* A step that settles no job and forgets none.
LEMMA QuietRetained ==
  ASSUME TypeOK, RetainedAreSettled, UNCHANGED <<finished, dead>>,
         \A j \in Pair : job[j].state \in {"completed", "failed"} => job'[j] = job[j]
  PROVE  RetainedAreSettled'
<1>1. PICK done \in Seq(Pair), lost \in Seq(Pair) : done = finished /\ lost = dead
  BY DEF TypeOK
<1>2. Settles(done, "completed")' /\ Settles(lost, "failed")'
  BY <1>1, SettlesUntouched DEF RetainedAreSettled
<1> QED
  BY <1>1, <1>2 DEF RetainedAreSettled, Settles

LEMMA BuryRetained ==
  ASSUME TypeOK, RetainedAreSettled, NEW k \in Pair, NEW made, Bury(k, made), job[k].state = "active"
  PROVE  /\ RetainedAreSettled'
         /\ \A j \in Pair \ {k} : job[j].state # "failed" => job'[j] = job[j]
<1>0. job[k] \in JobRecord /\ dead \in Seq(Pair) /\ finished \in Seq(Pair) /\ KeepFailed \in Nat \ {0}
  BY BoundAssumption DEF TypeOK
<1>1. job'[k].state = "failed"
  <2>1. job'[k] = [job[k] EXCEPT !.state = "failed", !.made = made, !.holder = NoRun]
    BY DEF Bury, SettleJob
  <2> QED
    BY <1>0, <2>1 DEF JobRecord
<1>2. \A j \in Pair : j # k /\ j \notin Evicted(dead, KeepFailed) => job'[j] = job[j]
  BY DEF Bury, SettleJob
<1>3. \A j \in Pair \ {k} : job[j].state # "failed" => job'[j] = job[j]
  BY <1>0, <1>2, EvictedSettled DEF RetainedAreSettled
<1>4. UNCHANGED finished /\ dead' = Retain(dead, k, KeepFailed)
  BY DEF Bury
<1>5. PICK done \in Seq(Pair), lost \in Seq(Pair) : done = finished /\ lost = dead
  BY <1>0
<1>6. Settles(Retain(lost, k, KeepFailed), "failed")'
  BY <1>0, <1>1, <1>2, <1>5, SettlesRetain DEF RetainedAreSettled
<1>7. Settles(done, "completed")'
  BY <1>3, <1>5, SettlesUntouched DEF RetainedAreSettled
<1>8. RetainedAreSettled'
  BY <1>4, <1>5, <1>6, <1>7 DEF RetainedAreSettled, Settles
<1> QED
  BY <1>3, <1>8

LEMMA CompleteRetained ==
  ASSUME TypeOK, RetainedAreSettled, NEW r \in Run, NEW k \in Pair, k = run[r].pair, Finish(r),
         job[k].holder = r, job[k].state = "active"
  PROVE  /\ RetainedAreSettled'
         /\ \A j \in Pair \ {k} : job[j].state # "completed" => job'[j] = job[j]
<1>0. job[k] \in JobRecord /\ dead \in Seq(Pair) /\ finished \in Seq(Pair) /\ KeepCompleted \in Nat \ {0}
  BY BoundAssumption DEF TypeOK
<1>1. job'[k].state = "completed"
  <2>1. job'[k] = [job[k] EXCEPT !.state = "completed", !.made = @ + 1,
                                 !.holder = NoRun, !.result = run[r].row]
    BY DEF Finish, SettleJob
  <2> QED
    BY <1>0, <2>1 DEF JobRecord
<1>2. \A j \in Pair : j # k /\ j \notin Evicted(finished, KeepCompleted) => job'[j] = job[j]
  BY DEF Finish, SettleJob
<1>3. \A j \in Pair \ {k} : job[j].state # "completed" => job'[j] = job[j]
  BY <1>0, <1>2, EvictedSettled DEF RetainedAreSettled
<1>4. UNCHANGED dead /\ finished' = Retain(finished, k, KeepCompleted)
  BY DEF Finish
<1>5. PICK done \in Seq(Pair), lost \in Seq(Pair) : done = finished /\ lost = dead
  BY <1>0
<1>6. Settles(Retain(done, k, KeepCompleted), "completed")'
  BY <1>0, <1>1, <1>2, <1>5, SettlesRetain DEF RetainedAreSettled
<1>7. Settles(lost, "failed")'
  BY <1>3, <1>5, SettlesUntouched DEF RetainedAreSettled
<1>8. RetainedAreSettled'
  BY <1>4, <1>5, <1>6, <1>7 DEF RetainedAreSettled, Settles
<1> QED
  BY <1>3, <1>8

\* Retention keeps its lists; and a run that holds a job goes on holding it, is
\* over, or hangs past its lock.
HolderStays ==
  \A k \in Pair, r \in Run : job[k].holder = r =>
    job'[k].holder = r \/ run'[r].pc = "idle" \/ k \in hung'

LEMMA HolderStep ==
  ASSUME IInv, RetainedAreSettled, [Next]_vars
  PROVE  RetainedAreSettled' /\ HolderStays
<1>0. /\ TypeOK /\ job \in [Pair -> JobRecord] /\ run \in [Run -> RunRecord]
      /\ NoRun \notin Run
      /\ \A k \in Pair, r \in Run : job[k].holder = r => job[k].state = "active"
      /\ \A r \in Run : run[r].pc # "idle" => run[r].pair \in Pair
      /\ IdleRun.pc = "idle"
  BY NullAssumption DEF IInv, TypeOK, JobsHaveBudget, WorkIsQueued, IdleRun
<1>1. ASSUME NEW j \in Pair, UNCHANGED <<finished, dead>>,
             job[j].state \notin {"completed", "failed"}, job[j].holder = NoRun,
             \A i \in Pair \ {j} : job'[i] = job[i]
      PROVE  RetainedAreSettled' /\ HolderStays
  <2>1. RetainedAreSettled'
    BY <1>0, <1>1, QuietRetained
  <2> QED
    BY <1>0, <1>1, <2>1 DEF HolderStays
<1>2. ASSUME UNCHANGED queueVars PROVE RetainedAreSettled' /\ HolderStays
  <2>1. RetainedAreSettled'
    BY <1>0, <1>2, QuietRetained DEF queueVars
  <2> QED
    BY <1>2, <2>1 DEF HolderStays, queueVars
<1>3. ASSUME NEW j \in Pair, Enqueue(j), UNCHANGED <<finished, dead>> PROVE RetainedAreSettled' /\ HolderStays
  <2>1. CASE job[j].state = "absent"
    <3>1. job[j].holder = NoRun
      BY <2>1 DEF IInv, JobsHaveBudget
    <3>2. \A i \in Pair \ {j} : job'[i] = job[i]
      BY <1>0, <1>3, <2>1 DEF Enqueue
    <3> QED
      BY <1>1, <1>3, <2>1, <3>1, <3>2
  <2>2. CASE job[j].state # "absent"
    BY <1>2, <1>3, <2>2 DEF Enqueue, queueVars
  <2> QED
    BY <2>1, <2>2
<1>4. ASSUME NEW c \in Caller, EnqueueDiscovered(c) PROVE RetainedAreSettled' /\ HolderStays
  <2>1. IngestPair(c) \in Pair
    BY DEF IngestPair, Pair, IInv, TypeOK, IngestRecord
  <2> QED
    BY <1>3, <1>4, <2>1 DEF EnqueueDiscovered
<1>5. ASSUME NEW j \in Pair, ClassifyPost(j) PROVE RetainedAreSettled' /\ HolderStays
  BY <1>3, <1>5 DEF ClassifyPost
<1>6. ASSUME NEW r \in Run, NEW j \in Pair, Take(r, j) PROVE RetainedAreSettled' /\ HolderStays
  <2>1. /\ job[j].state = "waiting" /\ job[j].holder = NoRun /\ UNCHANGED <<finished, dead>>
        /\ \A i \in Pair \ {j} : job'[i] = job[i]
    BY <1>0, <1>6 DEF Take, IInv, JobsHaveBudget
  <2> QED
    BY <1>1, <2>1
<1>7. ASSUME NEW j \in Pair, PromoteDelayed(j) PROVE RetainedAreSettled' /\ HolderStays
  <2>1. /\ job[j].state = "delayed" /\ job[j].holder = NoRun /\ UNCHANGED <<finished, dead>>
        /\ \A i \in Pair \ {j} : job'[i] = job[i]
    BY <1>0, <1>7 DEF PromoteDelayed, IInv, JobsHaveBudget
  <2> QED
    BY <1>1, <2>1
<1>8. ASSUME NEW r \in Run, NEW j \in Pair, j = run[r].pair, job[j].holder = r, run'[r].pc = "idle",
             \/ Finish(r)
             \/ Bury(j, job[j].made + 1)
             \/ UNCHANGED <<finished, dead>> /\ \A i \in Pair \ {j} : job'[i] = job[i]
      PROVE  RetainedAreSettled' /\ HolderStays
  <2>1. job[j].state = "active"
    BY <1>0, <1>8
  <2>2. RetainedAreSettled' /\ \A i \in Pair \ {j} : job[i].state = "active" => job'[i] = job[i]
    <3>1. CASE Finish(r)
      BY <1>0, <1>8, <2>1, <3>1, CompleteRetained
    <3>2. CASE Bury(j, job[j].made + 1)
      BY <1>0, <2>1, <3>2, BuryRetained
    <3>3. CASE UNCHANGED <<finished, dead>> /\ \A i \in Pair \ {j} : job'[i] = job[i]
      BY <1>0, <2>1, <3>3, QuietRetained
    <3> QED
      BY <1>8, <3>1, <3>2, <3>3
  <2>3. HolderStays
    <3> SUFFICES ASSUME NEW k \in Pair, NEW q \in Run, job[k].holder = q
                 PROVE  job'[k].holder = q \/ run'[q].pc = "idle"
      BY DEF HolderStays
    <3> QED
      BY <1>0, <1>8, <2>2
  <2> QED
    BY <2>2, <2>3
<1>9. ASSUME NEW r \in Run, Finish(r) \/ RunFails(r) \/ RunCrashes(r) PROVE RetainedAreSettled' /\ HolderStays
  <2>1. PICK j \in Pair : j = run[r].pair
    BY <1>0, <1>9 DEF Finish, RunFails, RunCrashes
  <2>2. run'[r].pc = "idle"
    BY <1>0, <1>9 DEF Finish, RunFails, RunCrashes
  <2>3. CASE job[j].holder # r
    BY <1>2, <1>9, <2>1, <2>3 DEF Finish, RunFails, RunCrashes, queueVars
  <2>4. CASE job[j].holder = r
    <3>1. CASE Finish(r)
      BY <1>8, <2>1, <2>2, <2>4, <3>1
    <3>2. CASE RunFails(r) \/ RunCrashes(r)
      <4>1. \/ Bury(j, job[j].made + 1)
            \/ UNCHANGED <<finished, dead>> /\ \A i \in Pair \ {j} : job'[i] = job[i]
        BY <1>0, <2>1, <2>4, <3>2 DEF RunFails, RunCrashes
      <4> QED
        BY <1>8, <2>1, <2>2, <2>4, <4>1
    <3> QED
      BY <1>9, <3>1, <3>2
  <2> QED
    BY <2>3, <2>4
<1>10. ASSUME NEW j \in Pair, Stall(j) PROVE RetainedAreSettled' /\ HolderStays
  <2>1. /\ job[j].state = "active"
        /\ \/ UNCHANGED <<finished, dead>> /\ \A i \in Pair \ {j} : job'[i] = job[i]
           \/ Bury(j, job[j].made)
        /\ job[j].holder # NoRun => j \in hung'
    BY <1>0, <1>10 DEF Stall
  <2>2. RetainedAreSettled' /\ \A i \in Pair \ {j} : job[i].state = "active" => job'[i] = job[i]
    BY <1>0, <2>1, BuryRetained, QuietRetained
  <2>3. HolderStays
    BY <1>0, <2>1, <2>2 DEF HolderStays
  <2> QED
    BY <2>2, <2>3
<1>11. ASSUME OthersComplete \/ OthersFail PROVE RetainedAreSettled' /\ HolderStays
  <2>0. PICK done \in Seq(Pair), lost \in Seq(Pair) : done = finished /\ lost = dead
    BY <1>0 DEF TypeOK
  <2>1. ASSUME OthersComplete
        PROVE  RetainedAreSettled' /\ \A i \in Pair : job[i].state # "completed" => job'[i] = job[i]
    <3>1. /\ finished # <<>> /\ finished' = Tail(finished) /\ dead' = dead
          /\ \A i \in Pair : i # Head(finished) => job'[i] = job[i]
      BY <1>0, <2>1 DEF OthersComplete
    <3>2. Settles(Tail(done), "completed")'
      BY <2>0, <3>1, SettlesTail DEF RetainedAreSettled
    <3>3. job[Head(finished)].state = "completed"
      <4>1. 1 \in DOMAIN finished /\ Head(finished) = finished[1]
        BY <2>0, <3>1
      <4> QED
        BY <4>1 DEF RetainedAreSettled, Settles
    <3>4. Settles(lost, "failed")'
      BY <2>0, <3>1, <3>3, SettlesUntouched DEF RetainedAreSettled
    <3>5. RetainedAreSettled'
      BY <2>0, <3>1, <3>2, <3>4 DEF RetainedAreSettled, Settles
    <3> QED
      BY <3>1, <3>3, <3>5
  <2>2. ASSUME OthersFail
        PROVE  RetainedAreSettled' /\ \A i \in Pair : job[i].state # "failed" => job'[i] = job[i]
    <3>1. /\ dead # <<>> /\ dead' = Tail(dead) /\ finished' = finished
          /\ \A i \in Pair : i # Head(dead) => job'[i] = job[i]
      BY <1>0, <2>2 DEF OthersFail
    <3>2. Settles(Tail(lost), "failed")'
      BY <2>0, <3>1, SettlesTail DEF RetainedAreSettled
    <3>3. job[Head(dead)].state = "failed"
      <4>1. 1 \in DOMAIN dead /\ Head(dead) = dead[1]
        BY <2>0, <3>1
      <4> QED
        BY <4>1 DEF RetainedAreSettled, Settles
    <3>4. Settles(done, "completed")'
      BY <2>0, <3>1, <3>3, SettlesUntouched DEF RetainedAreSettled
    <3>5. RetainedAreSettled'
      BY <2>0, <3>1, <3>2, <3>4 DEF RetainedAreSettled, Settles
    <3> QED
      BY <3>1, <3>3, <3>5
  <2> QED
    BY <1>0, <1>11, <2>1, <2>2 DEF HolderStays
<1> QED
  <2>1. CASE \E c \in Caller : CallerStep(c)
    BY <1>2, <1>4, <2>1
       DEF CallerStep, StartBatch, UpsertPost, FindDiscovery, UpsertDiscovery,
           StartManual, CommitManual, IngestFails
  <2>2. CASE \/ \E s \in Source : RemoveSource(s)
             \/ \E j \in Pair : UpdateLeadStatus(j)
             \/ \E r \in Run : Classify(r) \/ Record(r) \/ Publish(r)
             \/ UNCHANGED vars
    BY <1>2, <2>2
       DEF RemoveSource, UpdateLeadStatus, Classify, Record, Publish, vars, queueVars
  <2> QED
    BY <1>5, <1>6, <1>7, <1>9, <1>10, <1>11, <2>1, <2>2 DEF Next, RunStep

\* A pair whose jobs never stalled under a live run has one run at most.
LEMMA UnhungStep ==
  ASSUME IInv, RetainedAreSettled, UnhungRunsHold, [Next]_vars
  PROVE  UnhungRunsHold'
<1>0. hung \subseteq hung'
  BY DEF Next, CallerStep, RunStep, StartBatch, UpsertPost, FindDiscovery, UpsertDiscovery,
         EnqueueDiscovered, StartManual, CommitManual, IngestFails, RemoveSource, ClassifyPost,
         UpdateLeadStatus, Take, Classify, Record, Publish, Finish, RunFails, RunCrashes,
         PromoteDelayed, Stall, OthersComplete, OthersFail, Enqueue, vars, historyVars
<1> SUFFICES ASSUME NEW k \in Pair, k \notin hung', NEW r \in Run,
                    run'[r].pc # "idle", run'[r].pair = k
             PROVE  /\ job'[k].holder = r
                    /\ run'[r].pc = "publish" => run'[r].row = Len(classified'[k])
  BY DEF UnhungRunsHold
<1>1. /\ \A q \in Run : run[q].pc # "idle" /\ run[q].pair = k =>
           /\ job[k].holder = q
           /\ run[q].pc = "publish" => run[q].row = Len(classified[k])
      /\ job[k].holder = r => job'[k].holder = r
  BY <1>0, HolderStep DEF UnhungRunsHold, HolderStays
<1>2. CASE Take(r, k)
  <2>1. /\ job[k] \in JobRecord /\ run'[r] = [IdleRun EXCEPT !.pc = "classify", !.pair = k]
        /\ job'[k] = [job[k] EXCEPT !.state = "active", !.holder = r]
    BY <1>2 DEF Take, IInv, TypeOK
  <2>2. job'[k].holder = r
    BY <2>1 DEF JobRecord
  <2>3. run'[r].pc = "classify"
    BY <2>1 DEF IdleRun
  <2> QED
    BY <2>2, <2>3
<1>3. CASE Record(r) /\ run[r].pc = "record" /\ run[r].pair = k
           /\ run'[r].row = Len(classified[k]) + 1
  <2>1. job[k].holder = r /\ job'[k].holder = r
    BY <1>1, <1>3
  <2>2. classified'[k] = Append(classified[k], run[r].verdict)
    BY <1>3 DEF Record, IInv, TypeOK
  <2>3. classified[k] \in Seq(Verdict)
    BY DEF IInv, TypeOK
  <2>4. Len(classified'[k]) = Len(classified[k]) + 1
    BY <2>2, <2>3
  <2> QED
    BY <1>3, <2>1, <2>4
<1>4. CASE run[r].pc # "idle" /\ run[r].pair = k /\ run'[r].pc \notin {"publish"}
  BY <1>1, <1>4
<1>5. CASE run'[r] = run[r]
  <2>1. job[k].holder = r /\ job'[k].holder = r
    BY <1>1, <1>5
  <2>2. classified'[k] = classified[k] \/ \E q \in Run : Record(q) /\ run[q].pair = k
    BY RowEffect
  <2>3. ASSUME run'[r].pc = "publish" PROVE classified'[k] = classified[k]
    <3> SUFFICES ASSUME NEW q \in Run, Record(q), run[q].pair = k PROVE FALSE
      BY <2>2
    <3>1. run[q].pc = "record" /\ job[k].holder = q
      BY <1>1 DEF Record
    <3> QED
      BY <1>5, <2>1, <2>3, <3>1
  <2> QED
    BY <1>1, <1>5, <2>1, <2>3
<1>6. ASSUME NEW j \in Pair, Take(r, j), run'[r].pair = j PROVE Take(r, k)
  BY <1>6
<1> QED
  BY <1>2, <1>3, <1>4, <1>5, <1>6, RunEffect

\* Rows, retention and holders agree throughout.
LEMMA RowsInductive == Spec => [](RowsAreBudgeted /\ RetainedAreSettled /\ UnhungRunsHold)
<1>1. ASSUME Init PROVE RowsAreBudgeted /\ RetainedAreSettled /\ UnhungRunsHold
  <2>1. \A r \in Run : run[r].pc = "idle" /\ run[r].pair = NoPair
    BY <1>1 DEF Init, IdleRun
  <2>2. ASSUME NEW k \in Pair
        PROVE  /\ IsFiniteSet(Writers(k))
               /\ Len(classified[k]) + Cardinality(Writers(k)) + TakesLeft(k)
                    <= generations[k] * (MaxAttempts + MaxStalls)
    <3>1. Writers(k) = {}
      BY <2>1 DEF Writers
    <3>2. Cardinality(Writers(k)) = 0 /\ IsFiniteSet(Writers(k))
      BY <3>1, FS_EmptySet
    <3>3. Len(classified[k]) = 0 /\ TakesLeft(k) = 0 /\ generations[k] = 0
      BY <1>1 DEF Init, TakesLeft, NoJob
    <3>4. 0 * (MaxAttempts + MaxStalls) = 0
      BY BoundAssumption
    <3> QED
      BY <3>2, <3>3, <3>4
  <2>3. RetainedAreSettled
    BY <1>1 DEF Init, RetainedAreSettled, Settles
  <2> QED
    BY <2>1, <2>2, <2>3 DEF RowsAreBudgeted, UnhungRunsHold
<1>2. IInv /\ (RowsAreBudgeted /\ RetainedAreSettled /\ UnhungRunsHold) /\ [Next]_vars
        => (RowsAreBudgeted /\ RetainedAreSettled /\ UnhungRunsHold)'
  BY RowsStep, HolderStep, UnhungStep
<1> QED
  BY <1>1, <1>2, Inductive, PTL DEF Spec

\* However often a pair's job is retried, stalls or is recreated, it costs at most
\* one verdict per attempt and per stall of each fresh job (the worker's create).
THEOREM RowsBound == Spec => []RowsAreBounded
<1>1. IInv /\ RowsAreBudgeted => RowsAreBounded
  <2> SUFFICES ASSUME IInv, RowsAreBudgeted, NEW k \in Pair
               PROVE  Len(classified[k]) <= generations[k] * (MaxAttempts + MaxStalls)
    BY DEF RowsAreBounded
  <2>1. /\ Cardinality(Writers(k)) \in Nat
        /\ Len(classified[k]) + Cardinality(Writers(k)) + TakesLeft(k)
             <= generations[k] * (MaxAttempts + MaxStalls)
    BY FS_CardinalityType DEF RowsAreBudgeted
  <2>2. TakesLeft(k) \in Nat
    BY BoundAssumption DEF TakesLeft, IInv, TypeOK, JobRecord, JobsHaveBudget
  <2>3. Len(classified[k]) \in Nat
    BY DEF IInv, TypeOK
  <2> DEFINE bound == generations[k] * (MaxAttempts + MaxStalls)
  <2>4. bound \in Nat
    <3>1. generations[k] \in Nat /\ MaxAttempts + MaxStalls \in Nat
      BY BoundAssumption DEF IInv, TypeOK
    <3> QED
      BY <3>1
  <2>5. Len(classified[k]) <= bound
    <3> HIDE DEF bound
    <3>1. Len(classified[k]) + Cardinality(Writers(k)) + TakesLeft(k) <= bound
      BY <2>1 DEF bound
    <3> QED
      BY <2>1, <2>2, <2>3, <2>4, <3>1
  <2> QED
    BY <2>5
<1> QED
  BY <1>1, Inductive, RowsInductive, PTL

\* Only a processor that hung past its lock takes a lead back to an older verdict.
THEOREM HangsRegress == Spec => OnlyHangsRegress
<1> DEFINE Goal == \A k \in Pair : leads[k] # NoLead /\ leads'[k].row < leads[k].row => k \in hung
<1>1. ASSUME IInv, RetainedAreSettled, UnhungRunsHold, [Next]_vars PROVE Goal
  <2> SUFFICES ASSUME NEW k \in Pair \ hung, leads[k] # NoLead, leads'[k].row < leads[k].row
               PROVE  FALSE
    OBVIOUS
  <2>1. /\ classified[k] \in Seq(Verdict) /\ leads[k].row \in Nat
        /\ leads[k].row \in DOMAIN classified[k]
    BY <1>1 DEF IInv, TypeOK, LeadRecord, LeadBacked
  <2>2. leads[k].row <= Len(classified[k]) /\ Len(classified[k]) \in Nat
    BY <2>1
  <2>3. leads'[k].row # leads[k].row
    BY <2>1
  <2>4. PICK r \in Run : run[r].pc = "publish" /\ run[r].pair = k /\ leads'[k].row = run[r].row
    BY <1>1, <2>3, LeadEffect
  <2>5. leads'[k].row = Len(classified[k])
    BY <1>1, <2>4 DEF UnhungRunsHold
  <2> QED
    BY <2>1, <2>2, <2>5
<1>2. Goal <=> \A k \in Pair : leads[k] # NoLead /\ leads'[k].row < leads[k].row => k \in hung
  OBVIOUS
<1> HIDE DEF Goal
<1>3. IInv /\ (RowsAreBudgeted /\ RetainedAreSettled /\ UnhungRunsHold) /\ [Next]_vars => [Goal]_vars
  BY <1>1
<1>4. Spec => [][Goal]_vars
  BY <1>3, Inductive, RowsInductive, PTL DEF Spec
<1> QED
  BY <1>4 DEF OnlyHangsRegress, Goal
=============================================================================
