---------------------------- MODULE LeadPipeline ----------------------------
(***************************************************************************)
(* The lead pipeline: posts arrive in batches (signed extension batches    *)
(* and the crawler's persist step share one statement order) or one by     *)
(* one (manual ingest), a classification job is added to BullMQ, a worker  *)
(* classifies the post, records the verdict and upserts the lead.          *)
(*                                                                         *)
(* One action per database or queue statement, because another request,    *)
(* another run or a crash may come between any two of them.  BullMQ is     *)
(* external: jobs, attempts, stalls and retention are modelled from the    *)
(* options QueueService passes and from how the worker uses them.          *)
(***************************************************************************)
EXTENDS Naturals, Sequences, FiniteSets

CONSTANTS
  Workspace, Post, Source,
  WorkspaceOf,     \* [Source -> Workspace]: the workspace a source belongs to
  Caller,          \* ingest requests (or crawler loops) that may run at once
  Run,             \* job-processor invocations that may run at once
  Verdict,         \* records [isBuyingSignal, priorityScore] of a classification
  LeadStatus,      \* the LeadStatus enum
  MaxAttempts,     \* "attempts" of a job (4 in the code)
  MaxStalls,       \* BullMQ's maxStalledCount (1 by default)
  KeepCompleted,   \* removeOnComplete (1000 in the code)
  KeepFailed,      \* removeOnFail (5000 in the code)
  MaxRequests,     \* bound of the model: requests started in a behaviour
  NoLead, NoRun, NoPair

Pair == Workspace \X Post

ASSUME SourceAssumption ==
  /\ WorkspaceOf \in [Source -> Workspace]
  /\ Workspace # {} /\ Source # {} /\ Post # {} /\ Verdict # {}
ASSUME VerdictAssumption == Verdict \subseteq [isBuyingSignal : BOOLEAN, priorityScore : Nat]
ASSUME StatusAssumption == "NEW" \in LeadStatus
ASSUME BoundAssumption ==
  /\ MaxAttempts \in Nat \ {0} /\ MaxStalls \in Nat
  /\ KeepCompleted \in Nat \ {0} /\ KeepFailed \in Nat \ {0}
  /\ MaxRequests \in Nat
ASSUME NullAssumption ==
  /\ NoRun \notin Run
  /\ NoPair \notin Pair
  /\ NoLead \notin [row : Nat, priorityScore : Nat, status : LeadStatus]

VARIABLES
  \* the database
  sources,      \* RedditSource rows that exist
  posts,        \* RedditPost rows that exist
  discoveries,  \* PostDiscovery rows <<workspace, post, source>>
  classified,   \* [Pair -> sequence of the verdicts of its PostClassification rows]
  leads,        \* [Pair -> Lead row or NoLead]
  \* the queue
  job,          \* [Pair -> BullMQ job of id "workspace-post"]
  finished,     \* completed jobs still retained, oldest first
  dead,         \* failed jobs still retained, oldest first
  \* the processes
  ingest,       \* [Caller -> local state of an ingest request]
  run,          \* [Run -> local state of a processor invocation]
  \* history, read by properties only
  queued,       \* pairs ever handed to the queue
  dropped,      \* discoveries whose request died between the row and the queue
  hung,         \* pairs some job of which stalled while its processor still ran
  generations,  \* [Pair -> how often a fresh job was created for the pair]
  requests      \* requests started so far (bounded by MaxRequests)

dbVars == <<sources, posts, discoveries, classified, leads>>
queueVars == <<job, finished, dead>>
historyVars == <<queued, dropped, hung, generations, requests>>
vars == <<dbVars, queueVars, ingest, run, historyVars>>

\* The refinement mapping: the classification rows are the ledger's verdicts
\* and the Lead rows are what it shows.
Ledger == INSTANCE LeadLedger WITH verdicts <- classified, shown <- leads

\* apps/worker's rule for turning a verdict into a lead.
LeadThreshold == 50
Qualifies(v) == v.isBuyingSignal /\ v.priorityScore >= LeadThreshold

-----------------------------------------------------------------------------
(* Types and initial state *)

JobState == {"absent", "waiting", "active", "delayed", "completed", "failed"}
JobRecord == [state : JobState, made : Nat, stalls : Nat,
              holder : Run \cup {NoRun}, result : Nat]
NoJob == [state |-> "absent", made |-> 0, stalls |-> 0, holder |-> NoRun, result |-> 0]
FreshJob == [NoJob EXCEPT !.state = "waiting"]

IngestRecord == [pc : {"idle", "post", "find", "discover", "commit", "enqueue"},
                 ws : Workspace, src : Source, todo : SUBSET Post,
                 post : Post, existing : BOOLEAN]
IdleIngest == [pc |-> "idle", ws |-> CHOOSE w \in Workspace : TRUE,
               src |-> CHOOSE s \in Source : TRUE, todo |-> {},
               post |-> CHOOSE p \in Post : TRUE, existing |-> FALSE]

RunRecord == [pc : {"idle", "classify", "record", "publish", "finish"},
              pair : Pair \cup {NoPair}, verdict : Verdict, row : Nat]
IdleRun == [pc |-> "idle", pair |-> NoPair,
            verdict |-> CHOOSE v \in Verdict : TRUE, row |-> 0]

LeadRecord == [row : Nat, priorityScore : Nat, status : LeadStatus]

\* Type invariant.
TypeOK ==
  /\ sources \subseteq Source
  /\ posts \subseteq Post
  /\ discoveries \subseteq Workspace \X Post \X Source
  /\ classified \in [Pair -> Seq(Verdict)]
  /\ leads \in [Pair -> LeadRecord \cup {NoLead}]
  /\ job \in [Pair -> JobRecord]
  /\ finished \in Seq(Pair) /\ dead \in Seq(Pair)
  /\ ingest \in [Caller -> IngestRecord]
  /\ run \in [Run -> RunRecord]
  /\ queued \subseteq Pair /\ hung \subseteq Pair
  /\ dropped \subseteq Workspace \X Post \X Source
  /\ generations \in [Pair -> Nat]
  /\ requests \in Nat

Init ==
  /\ sources = Source
  /\ posts = {} /\ discoveries = {}
  /\ classified = [k \in Pair |-> <<>>]
  /\ leads = [k \in Pair |-> NoLead]
  /\ job = [k \in Pair |-> NoJob]
  /\ finished = <<>> /\ dead = <<>>
  /\ ingest = [c \in Caller |-> IdleIngest]
  /\ run = [r \in Run |-> IdleRun]
  /\ queued = {} /\ dropped = {} /\ hung = {}
  /\ generations = [k \in Pair |-> 0]
  /\ requests = 0

-----------------------------------------------------------------------------
(* Ingest: the request side *)

\* queue.add with jobId: a no-op while BullMQ still knows a job of that id,
\* whatever its state, completed and failed included.
Enqueue(k) ==
  /\ queued' = queued \cup {k}
  /\ IF job[k].state = "absent"
       THEN /\ job' = [job EXCEPT ![k] = FreshJob]
            /\ generations' = [generations EXCEPT ![k] = @ + 1]
       ELSE UNCHANGED <<job, generations>>

Discovery(c) == <<ingest[c].ws, ingest[c].post, ingest[c].src>>
IngestPair(c) == <<ingest[c].ws, ingest[c].post>>

CountRequest ==
  /\ requests < MaxRequests
  /\ requests' = requests + 1

\* The request goes on to the next post of its batch, or returns.
NextPost(c) ==
  LET rest == ingest[c].todo \ {ingest[c].post} IN
  ingest' = [ingest EXCEPT ![c] =
    IF rest = {} THEN IdleIngest ELSE [@ EXCEPT !.pc = "post", !.todo = rest]]

\* A validated batch for one source starts its loop over the posts.
StartBatch(c) ==
  /\ ingest[c].pc = "idle"
  /\ CountRequest
  /\ \E s \in sources, batch \in SUBSET Post \ {{}} :
       ingest' = [ingest EXCEPT ![c].pc = "post", ![c].ws = WorkspaceOf[s],
                                ![c].src = s, ![c].todo = batch]
  /\ UNCHANGED <<dbVars, queueVars, run, queued, dropped, hung, generations>>

UpsertPost(c) ==
  /\ ingest[c].pc = "post"
  /\ \E p \in ingest[c].todo :
       /\ posts' = posts \cup {p}
       /\ ingest' = [ingest EXCEPT ![c].pc = "find", ![c].post = p]
  /\ UNCHANGED <<sources, discoveries, classified, leads, queueVars, run, historyVars>>

\* Variant with a fault: the post is looked for instead of its discovery.
FindPostInstead(c) ==
  /\ ingest[c].pc = "find"
  /\ ingest' = [ingest EXCEPT ![c].pc = "discover",
                              ![c].existing = ingest[c].post \in posts]
  /\ UNCHANGED <<dbVars, queueVars, run, historyVars>>

FindDiscovery(c) ==
  /\ ingest[c].pc = "find"
  /\ ingest' = [ingest EXCEPT ![c].pc = "discover",
                              ![c].existing = Discovery(c) \in discoveries]
  /\ UNCHANGED <<dbVars, queueVars, run, historyVars>>

\* The foreign key to RedditSource refuses the row when the source has gone;
\* the statement then throws, which is IngestFails.
UpsertDiscovery(c) ==
  /\ ingest[c].pc = "discover"
  /\ ingest[c].src \in sources
  /\ discoveries' = discoveries \cup {Discovery(c)}
  /\ IF ingest[c].existing
       THEN NextPost(c)
       ELSE ingest' = [ingest EXCEPT ![c].pc = "enqueue"]
  /\ UNCHANGED <<sources, posts, classified, leads, queueVars, run, historyVars>>

EnqueueDiscovered(c) ==
  /\ ingest[c].pc = "enqueue"
  /\ Enqueue(IngestPair(c))
  /\ NextPost(c)
  /\ UNCHANGED <<dbVars, finished, dead, run, dropped, hung, requests>>

\* Manual ingest names any source id and any post, for the caller's workspace.
StartManual(c) ==
  /\ ingest[c].pc = "idle"
  /\ CountRequest
  /\ \E w \in Workspace, s \in Source, p \in Post :
       ingest' = [ingest EXCEPT ![c] = [IdleIngest EXCEPT !.pc = "commit",
                    !.ws = w, !.src = s, !.post = p, !.todo = {p}]]
  /\ UNCHANGED <<dbVars, queueVars, run, queued, dropped, hung, generations>>

\* One transaction: source, post and discovery; the job is added after it,
\* whether or not the discovery is new.
CommitManual(c) ==
  /\ ingest[c].pc = "commit"
  /\ sources' = sources \cup {ingest[c].src}
  /\ posts' = posts \cup {ingest[c].post}
  /\ discoveries' = discoveries \cup {Discovery(c)}
  /\ ingest' = [ingest EXCEPT ![c].pc = "enqueue"]
  /\ UNCHANGED <<classified, leads, queueVars, run, historyVars>>

\* A statement or queue call throws, or the process dies: nothing is undone.
IngestFails(c) ==
  /\ ingest[c].pc # "idle"
  /\ dropped' = IF ingest[c].pc = "enqueue" THEN dropped \cup {Discovery(c)} ELSE dropped
  /\ ingest' = [ingest EXCEPT ![c] = IdleIngest]
  /\ UNCHANGED <<dbVars, queueVars, run, queued, hung, generations, requests>>

\* Deleting a source cascades to its discoveries; posts and leads stay.
RemoveSource(s) ==
  /\ s \in sources
  /\ sources' = sources \ {s}
  /\ discoveries' = {d \in discoveries : d[3] # s}
  /\ UNCHANGED <<posts, classified, leads, queueVars, ingest, run, historyVars>>

\* POST /posts/:id/classify: any existing post, for the caller's workspace.
ClassifyPost(k) ==
  /\ k[2] \in posts
  /\ CountRequest
  /\ Enqueue(k)
  /\ UNCHANGED <<dbVars, finished, dead, ingest, run, dropped, hung>>

\* A user moves a lead through the triage statuses.
UpdateLeadStatus(k) ==
  /\ leads[k] # NoLead
  /\ \E s \in LeadStatus : leads' = [leads EXCEPT ![k].status = s]
  /\ UNCHANGED <<sources, posts, discoveries, classified, queueVars, ingest, run, historyVars>>

-----------------------------------------------------------------------------
(* The queue and the worker *)

\* The jobs left after k joined a retention list of at most "keep" entries.
Evicted(list, keep) == IF Len(list) >= keep THEN {Head(list)} ELSE {}
Retain(list, k, keep) == Append(IF Len(list) >= keep THEN Tail(list) ELSE list, k)
SettleJob(k, record, evicted) ==
  job' = [j \in Pair |-> IF j = k THEN record
                         ELSE IF j \in evicted THEN NoJob ELSE job[j]]

\* The job is marked failed for good and joins the failed list.
Bury(k, made) ==
  /\ SettleJob(k, [job[k] EXCEPT !.state = "failed", !.made = made, !.holder = NoRun],
               Evicted(dead, KeepFailed))
  /\ dead' = Retain(dead, k, KeepFailed)
  /\ UNCHANGED finished

\* Variant with a fault: an active job is taken as well, its lock is ignored.
TakeUnlocked(r, k) ==
  /\ run[r].pc = "idle"
  /\ job[k].state \in {"waiting", "active"}
  /\ job' = [job EXCEPT ![k].state = "active", ![k].holder = r]
  /\ run' = [run EXCEPT ![r] = [IdleRun EXCEPT !.pc = "classify", !.pair = k]]
  /\ UNCHANGED <<dbVars, finished, dead, ingest, historyVars>>

\* A worker slot takes a waiting job and its lock.
Take(r, k) ==
  /\ run[r].pc = "idle"
  /\ job[k].state = "waiting"
  /\ job' = [job EXCEPT ![k].state = "active", ![k].holder = r]
  /\ run' = [run EXCEPT ![r] = [IdleRun EXCEPT !.pc = "classify", !.pair = k]]
  /\ UNCHANGED <<dbVars, finished, dead, ingest, historyVars>>

\* The post is loaded and the router returns a verdict.
Classify(r) ==
  /\ run[r].pc = "classify"
  /\ \E v \in Verdict : run' = [run EXCEPT ![r].pc = "record", ![r].verdict = v]
  /\ UNCHANGED <<dbVars, queueVars, ingest, historyVars>>

\* Variant with a fault: no verdict makes a lead.
RecordSkipsPublish(r) ==
  LET k == run[r].pair IN
  /\ run[r].pc = "record"
  /\ classified' = [classified EXCEPT ![k] = Append(@, run[r].verdict)]
  /\ run' = [run EXCEPT ![r].row = Len(classified[k]) + 1, ![r].pc = "finish"]
  /\ UNCHANGED <<sources, posts, discoveries, leads, queueVars, ingest, historyVars>>

\* postClassification.create: a new row on every run.
Record(r) ==
  LET k == run[r].pair IN
  /\ run[r].pc = "record"
  /\ classified' = [classified EXCEPT ![k] = Append(@, run[r].verdict)]
  /\ run' = [run EXCEPT ![r].row = Len(classified[k]) + 1,
               ![r].pc = IF Qualifies(run[r].verdict) THEN "publish" ELSE "finish"]
  /\ UNCHANGED <<sources, posts, discoveries, leads, queueVars, ingest, historyVars>>

\* Variant with a fault: the upsert resets the triage of an existing lead.
PublishResetsStatus(r) ==
  LET k == run[r].pair IN
  /\ run[r].pc = "publish"
  /\ leads' = [leads EXCEPT ![k] =
       [row |-> run[r].row, priorityScore |-> run[r].verdict.priorityScore, status |-> "NEW"]]
  /\ run' = [run EXCEPT ![r].pc = "finish"]
  /\ UNCHANGED <<sources, posts, discoveries, classified, queueVars, ingest, historyVars>>

\* lead.upsert: the status of an existing lead is left alone.
Publish(r) ==
  LET k == run[r].pair IN
  /\ run[r].pc = "publish"
  /\ leads' = [leads EXCEPT ![k] =
       [row |-> run[r].row, priorityScore |-> run[r].verdict.priorityScore,
        status |-> IF leads[k] = NoLead THEN "NEW" ELSE leads[k].status]]
  /\ run' = [run EXCEPT ![r].pc = "finish"]
  /\ UNCHANGED <<sources, posts, discoveries, classified, queueVars, ingest, historyVars>>

\* The processor returns; BullMQ completes the job only for the lock's holder.
Finish(r) ==
  LET k == run[r].pair IN
  /\ run[r].pc = "finish"
  /\ run' = [run EXCEPT ![r] = IdleRun]
  /\ IF job[k].holder = r
       THEN /\ SettleJob(k, [job[k] EXCEPT !.state = "completed", !.made = @ + 1,
                               !.holder = NoRun, !.result = run[r].row],
                         Evicted(finished, KeepCompleted))
            /\ finished' = Retain(finished, k, KeepCompleted)
            /\ UNCHANGED dead
       ELSE UNCHANGED queueVars
  /\ UNCHANGED <<dbVars, ingest, historyVars>>

\* The processor throws: retried with backoff while attempts are left.
RunFails(r) ==
  LET k == run[r].pair IN
  /\ run[r].pc \in {"classify", "record", "publish"}
  /\ run' = [run EXCEPT ![r] = IdleRun]
  /\ IF job[k].holder # r
       THEN UNCHANGED queueVars
     ELSE IF job[k].made + 1 < MaxAttempts
       THEN /\ job' = [job EXCEPT ![k].state = "delayed", ![k].made = @ + 1,
                                  ![k].holder = NoRun]
            /\ UNCHANGED <<finished, dead>>
       ELSE Bury(k, job[k].made + 1)
  /\ UNCHANGED <<dbVars, ingest, historyVars>>

\* The worker process dies: the job stays active and nobody holds it.
RunCrashes(r) ==
  LET k == run[r].pair IN
  /\ run[r].pc # "idle"
  /\ run' = [run EXCEPT ![r] = IdleRun]
  /\ job' = IF job[k].holder = r THEN [job EXCEPT ![k].holder = NoRun] ELSE job
  /\ UNCHANGED <<dbVars, finished, dead, ingest, historyVars>>

\* The backoff of a failed attempt has passed.
PromoteDelayed(k) ==
  /\ job[k].state = "delayed"
  /\ job' = [job EXCEPT ![k].state = "waiting"]
  /\ UNCHANGED <<dbVars, finished, dead, ingest, run, historyVars>>

\* Variants with a fault: the stalled check gives up beyond its limit without
\* failing the job, or does not count.
StallRecovers(k, counted) ==
  /\ job[k].state = "active"
  /\ job[k].stalls < MaxStalls
  /\ job' = [job EXCEPT ![k].state = "waiting", ![k].stalls = @ + counted, ![k].holder = NoRun]
  /\ hung' = IF job[k].holder = NoRun THEN hung ELSE hung \cup {k}
  /\ UNCHANGED <<finished, dead, dbVars, ingest, run, queued, dropped, generations, requests>>
StallForgets(k) == StallRecovers(k, 1)
StallUncounted(k) == StallRecovers(k, 0)

\* The lock was not renewed in time: its holder crashed, or hangs and may
\* still go on.  The job waits again, or fails beyond maxStalledCount.
Stall(k) ==
  /\ job[k].state = "active"
  /\ IF job[k].stalls < MaxStalls
       THEN /\ job' = [job EXCEPT ![k].state = "waiting", ![k].stalls = @ + 1,
                                  ![k].holder = NoRun]
            /\ UNCHANGED <<finished, dead>>
       ELSE Bury(k, job[k].made)
  /\ hung' = IF job[k].holder = NoRun THEN hung ELSE hung \cup {k}
  /\ UNCHANGED <<dbVars, ingest, run, queued, dropped, generations, requests>>

\* Settled jobs of pairs outside the instance fill a retention list, and its
\* oldest job is removed: the pair's next ingest may buy a verdict again.
OthersComplete ==
  /\ finished # <<>>
  /\ job' = [job EXCEPT ![Head(finished)] = NoJob]
  /\ finished' = Tail(finished)
  /\ UNCHANGED <<dbVars, dead, ingest, run, historyVars>>

OthersFail ==
  /\ dead # <<>>
  /\ job' = [job EXCEPT ![Head(dead)] = NoJob]
  /\ dead' = Tail(dead)
  /\ UNCHANGED <<dbVars, finished, ingest, run, historyVars>>

-----------------------------------------------------------------------------
(* Specification *)

CallerStep(c) ==
  \/ StartBatch(c) \/ UpsertPost(c) \/ FindDiscovery(c) \/ UpsertDiscovery(c)
  \/ EnqueueDiscovered(c) \/ StartManual(c) \/ CommitManual(c) \/ IngestFails(c)
RunStep(r) == Classify(r) \/ Record(r) \/ Publish(r) \/ Finish(r) \/ RunFails(r)

Next ==
  \/ \E c \in Caller : CallerStep(c)
  \/ \E s \in Source : RemoveSource(s)
  \/ \E k \in Pair : ClassifyPost(k) \/ UpdateLeadStatus(k) \/ PromoteDelayed(k) \/ Stall(k)
  \/ \E r \in Run : RunStep(r) \/ RunCrashes(r)
  \/ \E r \in Run, k \in Pair : Take(r, k)
  \/ OthersComplete \/ OthersFail

Spec == Init /\ [][Next]_vars

\* The worker process is restarted when it dies and its event loop runs: a
\* slot that is free takes a waiting job, a started processor reaches its end
\* (every provider call has a timeout), backoffs end, and BullMQ's stalled
\* check finds the jobs of a dead worker.
Fairness ==
  /\ \A k \in Pair : /\ WF_vars(\E r \in Run : Take(r, k))
                     /\ WF_vars(PromoteDelayed(k))
                     /\ WF_vars(job[k].holder = NoRun /\ Stall(k))
  /\ \A r \in Run : WF_vars(RunStep(r))

FairSpec == Spec /\ Fairness

-----------------------------------------------------------------------------
(* Properties *)

\* A lead shows one recorded verdict of its own pair, a qualifying one, with
\* that verdict's score: however often the job is retried, stalls or overlaps
\* with itself (worker main.ts: create a row, then upsert the lead).
LeadBacked ==
  \A k \in Pair : leads[k] # NoLead =>
    /\ leads[k].row \in DOMAIN classified[k]
    /\ Qualifies(classified[k][leads[k].row])
    /\ leads[k].priorityScore = classified[k][leads[k].row].priorityScore

\* A discovery whose pair never reached the queue has a request that is about
\* to add the job, or one that died between the row and the job.  Concurrent
\* requests for the same discovery never each leave the job to the other.
Accounted(d) ==
  \/ <<d[1], d[2]>> \in queued
  \/ d \in dropped
  \/ \E c \in Caller : ingest[c].pc = "enqueue" /\ Discovery(c) = d

UnqueuedIsPendingOrDropped == \A d \in discoveries : Accounted(d)

\* What a completed job reports is in the database: its classification row
\* exists, and when that row qualifies the pair has a lead.
CompletedResultIsStored ==
  \A k \in Pair : job[k].state = "completed" =>
    /\ job[k].result \in DOMAIN classified[k]
    /\ Qualifies(classified[k][job[k].result]) => leads[k] # NoLead

\* The verdicts bought for a pair are bounded: each fresh job records at most
\* one per attempt and one per stall.
RowsAreBounded ==
  \A k \in Pair :
    Len(classified[k]) <= generations[k] * (MaxAttempts + MaxStalls)

\* A failed job used up its attempts or its stalls: no retry is skipped.
FailedIsExhausted ==
  \A k \in Pair : job[k].state = "failed" =>
    job[k].made = MaxAttempts \/ job[k].stalls = MaxStalls

\* What the queue says of a settled job is true, also after crashes between the
\* rows and the completion, and after retention forgot and re-created the job.
SettledJobsAreHonest == CompletedResultIsStored /\ FailedIsExhausted

\* Retries and crashes never take a lead back to an older verdict: that takes
\* a processor that hangs past its lock while the job is given to another run.
OnlyHangsRegress ==
  [][\A k \in Pair : leads[k] # NoLead /\ leads'[k].row < leads[k].row => k \in hung]_vars

\* Every job that was added is completed or failed in the end.
JobsSettle ==
  \A k \in Pair :
    job[k].state \in {"waiting", "active", "delayed"} ~>
      job[k].state \in {"completed", "failed"}

\* The pipeline does what LeadLedger promises.
RefinesLedger == Ledger!LedgerSpec

-----------------------------------------------------------------------------
(* The inductive invariant *)

\* Only pairs handed to the queue have a job, and only they are worked on.
WorkIsQueued ==
  /\ \A k \in Pair : job[k].state # "absent" => k \in queued
  /\ \A r \in Run : run[r].pc # "idle" => run[r].pair \in Pair /\ run[r].pair \in queued

\* A run that has recorded its verdict can point at the row; at the end of a
\* run the lead of a qualifying row is there.
RunsAreBacked ==
  \A r \in Run :
    LET k == run[r].pair IN
    /\ run[r].pc = "publish" => /\ run[r].row \in DOMAIN classified[k]
                                /\ classified[k][run[r].row] = run[r].verdict
                                /\ Qualifies(run[r].verdict)
    /\ run[r].pc = "finish" =>
         /\ run[r].row \in DOMAIN classified[k]
         /\ Qualifies(classified[k][run[r].row]) => leads[k] # NoLead

\* A job that is not settled has an attempt left and stalled at most
\* MaxStalls times; only an active job has a holder.
JobsHaveBudget ==
  \A k \in Pair :
    /\ job[k].state \in {"waiting", "active", "delayed"} =>
         job[k].made < MaxAttempts /\ job[k].stalls <= MaxStalls
    /\ job[k].holder # NoRun => job[k].state = "active"

\* A request that found its discovery in the table leaves the job to whoever
\* inserted it, also when the row was deleted since.
FoundIsAccounted ==
  \A c \in Caller :
    ingest[c].pc = "discover" /\ ingest[c].existing => Accounted(Discovery(c))

IInv ==
  /\ TypeOK /\ WorkIsQueued /\ RunsAreBacked /\ JobsHaveBudget
  /\ LeadBacked /\ CompletedResultIsStored /\ FailedIsExhausted

\* The runs that will still record a verdict of a pair, and how often its job can
\* still be taken.
Writers(k) == {r \in Run : run[r].pair = k /\ run[r].pc \in {"classify", "record"}}
TakesLeft(k) ==
  IF job[k].state \notin {"waiting", "active", "delayed"} THEN 0
  ELSE (MaxAttempts - job[k].made) + (MaxStalls - job[k].stalls)
         - (IF job[k].state = "active" THEN 1 ELSE 0)

\* The rows of a pair, with all that may still be added to them, stay within
\* what its fresh jobs allow.
RowsAreBudgeted ==
  \A k \in Pair :
    /\ IsFiniteSet(Writers(k))
    /\ Len(classified[k]) + Cardinality(Writers(k)) + TakesLeft(k)
         <= generations[k] * (MaxAttempts + MaxStalls)

\* A retention list names jobs of its own state, each once: forgetting one
\* never takes a job from its run.
Settles(list, state) ==
  /\ \A i \in DOMAIN list : job[list[i]].state = state
  /\ \A i, j \in DOMAIN list : list[i] = list[j] => i = j
RetainedAreSettled == Settles(finished, "completed") /\ Settles(dead, "failed")

\* While no job of a pair stalled under a live run, the only run of the pair is
\* the job's holder, and it publishes the newest row.
UnhungRunsHold ==
  \A k \in Pair \ hung : \A r \in Run : run[r].pc # "idle" /\ run[r].pair = k =>
    /\ job[k].holder = r
    /\ run[r].pc = "publish" => run[r].row = Len(classified[k])
=============================================================================
