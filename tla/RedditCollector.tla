--------------------------- MODULE RedditCollector ---------------------------
(***************************************************************************)
(* Reddit sources and the backend collector.  Users create, edit, remove   *)
(* and run sources; the extension's settings and its batches find or       *)
(* create one; worker processes collect the enabled sources, on a timer    *)
(* behind a lease that is a row of CollectorLease, or for a job of the     *)
(* reddit-collection queue, which takes no lease.                          *)
(*                                                                         *)
(* One action per statement.  What a page yields is RedditCrawl's; storing *)
(* the posts is LeadPipeline's; here a collection of a source succeeds,    *)
(* comes short or throws.  A trigger makes every configuration row PUBLIC, *)
(* so the mode depends only on whether the row exists.                     *)
(***************************************************************************)
EXTENDS Naturals, FiniteSets

CONSTANTS
  Source,
  Feed,          \* what a row, or a request, says: type, subreddit and query
  Stored,        \* [Feed -> Feed]: what normalize() makes of it
  Custom,        \* those of type CUSTOM_URL
  Following,     \* those of type FOLLOWING
  Worker, Job, Req,
  Run,           \* collect() calls that may be in progress at once
  JobAttempts,   \* "attempts" of a job (2 in the code)
  MaxStalls,     \* BullMQ's maxStalledCount (1 by default)
  MaxFaults,     \* bound of the model: failed statements, launches, crashes
  MaxRequests,   \* bound of the model: requests of the form
  None

ASSUME FeedAssumption ==
  /\ Stored \in [Feed -> Feed] /\ \A f \in Feed : Stored[Stored[f]] = Stored[f]
  /\ Custom \subseteq Feed /\ Following \subseteq Feed
ASSUME BoundAssumption ==
  /\ JobAttempts \in Nat \ {0} /\ MaxStalls \in Nat
  /\ MaxFaults \in Nat /\ MaxRequests \in Nat
ASSUME ReqAssumption == Req # {} /\ IsFiniteSet(Req)
ASSUME NullAssumption ==
  /\ None \notin Source /\ None \notin Feed /\ None \notin Worker /\ None \notin Job /\ None \notin Run

VARIABLES
  life,      \* [Source -> "unborn", "on" (enabled), "off" or "gone"]
  feed,      \* [Source -> type, subreddit and query of its row, or None]
  shown,     \* [Source -> lastStatus of its configuration row, "none" without row]
  lease,     \* the owner of the CollectorLease row while expiresAt is ahead
  run,       \* [Run -> local state of a collect() call]
  job,       \* [Job -> job of the reddit-collection queue, while it is not over]
  req,       \* [Req -> local state of an API request]
  \* history, read by properties only
  madeFor,     \* [Source -> the request for settings it was made for, or None]
  orphaned,  \* sources whose collection ended without recording how
  edited,    \* sources that an edit ever disabled or gave another feed
  faults, requests

dbVars == <<life, feed, shown, lease>>
historyVars == <<madeFor, orphaned, edited, faults, requests>>
vars == <<dbVars, run, job, req, historyVars>>

Status == {"IDLE", "RUNNING", "DONE", "PARTIAL", "FAILED", "EXTENSION_REQUIRED"}
Exists(s) == life[s] \in {"on", "off"}

\* loadConfig: with a configuration row the mode is PUBLIC (the trigger);
\* without one it follows from the type.
Mode(s) == IF shown[s] = "none" /\ feed[s] \in Following THEN "EXTENSION" ELSE "PUBLIC"

RunRecord ==
  [pc : {"idle", "list", "next", "collect", "fail"},
   worker : Worker \cup {None}, job : Job \cup {None},
   extension : SUBSET Source,  \* listed, to be marked EXTENSION_REQUIRED
   public : SUBSET Source,     \* listed, to be collected
   cur : Source \cup {None},
   \* history: its lease expired, these sources were disabled, meanwhile
   late : BOOLEAN, off : SUBSET Source]
IdleRun == [pc |-> "idle", worker |-> None, job |-> None, extension |-> {},
            public |-> {}, cur |-> None, late |-> FALSE, off |-> {}]

\* The sources a collection has listed and is not through with.
Holds(r) == run[r].extension \cup run[r].public \cup ({run[r].cur} \ {None})

JobRecord == [state : {"none", "waiting", "active", "delayed"},
              made : Nat, stalls : Nat, want : SUBSET Source, holder : Run \cup {None}]
NoJob == [state |-> "none", made |-> 0, stalls |-> 0, want |-> {}, holder |-> None]

\* matchSource: a page of its own is compared as it is with the stored row.
Answers(s, f) ==
  life[s] = "on" /\ (IF f \in Custom THEN feed[s] = f ELSE Stored[feed[s]] = Stored[f])

\* "write": an update has read the source; "settings" and "batch": about to
\* create a source because none matched.
ReqRecord == [pc : {"idle", "write", "settings", "batch"},
              src : Source \cup {None}, feed : Feed \cup {None}, enabled : BOOLEAN]
IdleReq == [pc |-> "idle", src |-> None, feed |-> None, enabled |-> FALSE]

\* Type invariant.
TypeOK ==
  /\ life \in [Source -> {"unborn", "on", "off", "gone"}]
  /\ feed \in [Source -> Feed \cup {None}]
  /\ shown \in [Source -> Status \cup {"none"}]
  /\ lease \in Worker \cup {None}
  /\ run \in [Run -> RunRecord]
  /\ job \in [Job -> JobRecord]
  /\ req \in [Req -> ReqRecord]
  /\ madeFor \in [Source -> Feed \cup {None}]
  /\ orphaned \subseteq Source /\ edited \subseteq Source
  /\ faults \in Nat /\ requests \in Nat

\* Some sources were made before, with the form or by a batch (these have no
\* configuration row), and some of them disabled.
Init ==
  /\ life \in [Source -> {"unborn", "on", "off"}]
  /\ feed \in [Source -> Feed \cup {None}]
  /\ shown \in [Source -> {"none", "IDLE"}]
  /\ \A s \in Source :
       IF life[s] = "unborn" THEN feed[s] = None /\ shown[s] = "none"
       ELSE feed[s] \in Feed /\ (shown[s] = "IDLE" => Stored[feed[s]] = feed[s])
  /\ madeFor = [s \in Source |-> None]
  /\ lease = None
  /\ run = [r \in Run |-> IdleRun]
  /\ job = [j \in Job |-> NoJob]
  /\ req = [q \in Req |-> IdleReq]
  /\ orphaned = {} /\ edited = {s \in Source : life[s] = "off"}
  /\ faults = 0 /\ requests = 0

CountFault == faults < MaxFaults /\ faults' = faults + 1
CountRequest == requests < MaxRequests /\ requests' = requests + 1
Done(q) == req' = [req EXCEPT ![q] = IdleReq]

-----------------------------------------------------------------------------
(* Sources *)

\* A new id, with or without a configuration row.
AddSource(s, f, status, page) ==
  /\ life[s] = "unborn"
  /\ life' = [life EXCEPT ![s] = "on"]
  /\ feed' = [feed EXCEPT ![s] = f]
  /\ shown' = [shown EXCEPT ![s] = status]
  /\ madeFor' = [madeFor EXCEPT ![s] = page]

\* POST reddit-sources: source and configuration in one transaction.
Create(s) ==
  /\ CountRequest
  /\ \E f \in Feed : AddSource(s, Stored[f], "IDLE", None)
  /\ UNCHANGED <<lease, run, job, req, orphaned, edited, faults>>

\* PATCH reads the source and fills every field the input leaves out with what
\* it read, which leaves any feed and either flag ...
ReadForUpdate(q, s) ==
  /\ req[q].pc = "idle" /\ Exists(s)
  /\ CountRequest
  /\ \E f \in Feed, on \in BOOLEAN :
       req' = [req EXCEPT ![q] = [pc |-> "write", src |-> s, feed |-> f, enabled |-> on]]
  /\ UNCHANGED <<dbVars, run, job, madeFor, orphaned, edited, faults>>

\* The collections that hold a source, when it is disabled (history).
Noted(s, on) ==
  [r \in Run |-> IF s \in Holds(r) /\ ~on THEN [run[r] EXCEPT !.off = @ \cup {s}] ELSE run[r]]

\* ... and writes all of them; the configuration row is made when missing.
WriteUpdate(q) ==
  LET s == req[q].src  f == Stored[req[q].feed]  on == req[q].enabled IN
  /\ req[q].pc = "write"
  /\ Done(q)
  /\ \/ /\ Exists(s)
        /\ life' = [life EXCEPT ![s] = IF on THEN "on" ELSE "off"]
        /\ feed' = [feed EXCEPT ![s] = f]
        /\ shown' = [shown EXCEPT ![s] = IF @ = "none" THEN "IDLE" ELSE @]
        /\ edited' = IF on /\ f = feed[s] THEN edited ELSE edited \cup {s}
        /\ run' = Noted(s, on)
     \/ ~Exists(s) /\ UNCHANGED <<life, feed, shown, edited, run>>
  /\ UNCHANGED <<lease, job, madeFor, orphaned, faults, requests>>

\* DELETE cascades to the configuration row.
DeleteSource(s) ==
  /\ Exists(s)
  /\ life' = [life EXCEPT ![s] = "gone"]
  /\ feed' = [feed EXCEPT ![s] = None]
  /\ shown' = [shown EXCEPT ![s] = "none"]
  /\ madeFor' = [madeFor EXCEPT ![s] = None]
  /\ orphaned' = orphaned \ {s} /\ edited' = edited \ {s}
  /\ CountRequest
  /\ UNCHANGED <<lease, run, job, req, faults>>

\* Variant with a fault: the settings never look for a source.
AskSettingsBlindly(q, f) ==
  /\ req[q].pc = "idle"
  /\ req' = [req EXCEPT ![q] = [IdleReq EXCEPT !.pc = "settings", !.feed = f]]
  /\ UNCHANGED <<dbVars, run, job, historyVars>>

\* The extension asks for the settings of the page it shows: an enabled source
\* that answers for it is taken; without one a source is made ...
AskSettings(q, f) ==
  /\ req[q].pc = "idle"
  /\ \A s \in Source : ~Answers(s, f)
  /\ req' = [req EXCEPT ![q] = [IdleReq EXCEPT !.pc = "settings", !.feed = f]]
  /\ UNCHANGED <<dbVars, run, job, historyVars>>

\* A batch without a source id looks for a source whose row says exactly what
\* the batch says, enabled or not ...
ResolveBatch(q, f) ==
  /\ req[q].pc = "idle"
  /\ \A s \in Source : Exists(s) => feed[s] # f
  /\ req' = [req EXCEPT ![q] = [IdleReq EXCEPT !.pc = "batch", !.feed = f]]
  /\ UNCHANGED <<dbVars, run, job, historyVars>>

\* ... in a statement of its own: the settings normalise what they were asked
\* for and add a configuration, a batch does neither.
CreateMissing(q) ==
  LET f == req[q].feed IN
  /\ \E s \in Source :
       \/ req[q].pc = "settings" /\ AddSource(s, Stored[f], "IDLE", f)
       \/ req[q].pc = "batch" /\ AddSource(s, f, "none", None)
  /\ Done(q)
  /\ UNCHANGED <<lease, run, job, orphaned, edited, faults, requests>>

\* The request ends without its write.
RequestDies(q) ==
  /\ req[q].pc # "idle"
  /\ Done(q)
  /\ UNCHANGED <<dbVars, run, job, historyVars>>

\* POST reddit-sources/run adds a job for some, or all, of the user's sources,
\* the disabled ones included.
RunSources(j) ==
  /\ job[j].state = "none"
  /\ \E want \in SUBSET {s \in Source : Exists(s)} \ {{}} :
       job' = [job EXCEPT ![j].state = "waiting", ![j].want = want]
  /\ CountRequest
  /\ UNCHANGED <<dbVars, run, req, madeFor, orphaned, edited, faults>>

-----------------------------------------------------------------------------
(* Starting a collection *)

Timed(r) == run[r].pc # "idle" /\ run[r].job = None
Begin(w, r, j) ==
  /\ run[r].pc = "idle"
  /\ run' = [run EXCEPT ![r] = [IdleRun EXCEPT !.pc = "list", !.worker = w, !.job = j]]

\* Variant with a fault: the lease is taken whatever its row says.
TimerIgnoresLease(w, r) ==
  /\ Begin(w, r, None)
  /\ lease' = w
  /\ UNCHANGED <<life, feed, shown, job, req, madeFor, orphaned, edited, faults, requests>>

\* The worker's timer (or its start): the upsert takes a lease that expired or
\* is the worker's own, also while its last collection goes on.
TimerFires(w, r) ==
  /\ Begin(w, r, None)
  /\ lease \in {None, w}
  /\ lease' = w
  /\ UNCHANGED <<life, feed, shown, job, req, madeFor, orphaned, edited, faults, requests>>

\* expiresAt passes: nobody renews the lease of a long collection.
LeaseExpires ==
  /\ lease # None
  /\ lease' = None
  /\ run' = [r \in Run |-> [run[r] EXCEPT !.late = Timed(r)]]
  /\ UNCHANGED <<life, feed, shown, job, req, historyVars>>

\* A worker takes a job of the queue.
TakeJob(w, r, j) ==
  /\ Begin(w, r, j)
  /\ job[j].state = "waiting"
  /\ job' = [job EXCEPT ![j].state = "active", ![j].holder = r]
  /\ UNCHANGED <<dbVars, req, historyVars>>

-----------------------------------------------------------------------------
(* collect() *)

\* collect() returns: its job, if it has one, is over.
Return(r) ==
  /\ run' = [run EXCEPT ![r] = IdleRun]
  /\ job' = [j \in Job |-> IF j = run[r].job THEN NoJob ELSE job[j]]
\* collect() rejects: a timer logs it, a job is tried again while it may.
Abort(r) ==
  /\ run' = [run EXCEPT ![r] = IdleRun]
  /\ job' = [j \in Job |->
       IF j # run[r].job THEN job[j]
       ELSE IF job[j].made + 1 < JobAttempts
         THEN [job[j] EXCEPT !.state = "delayed", !.holder = None, !.made = @ + 1]
         ELSE NoJob]

\* updateStatus is an upsert of the configuration row: it throws when the
\* source has gone (its foreign key).
Stamp(s, status) ==
  /\ shown' = [shown EXCEPT ![s] = status]
  /\ orphaned' = orphaned \ {s}

\* The enabled sources, of those the job names when it names some, each with
\* its configuration (one SELECT each: the few statements are one step).
Wanted(r) == IF run[r].job = None THEN Source ELSE job[run[r].job].want
ListFrom(r, candidates) ==
  /\ run[r].pc = "list"
  /\ IF candidates = {}
       THEN Return(r)
       ELSE /\ run' = [run EXCEPT
                 ![r].pc = "next",
                 ![r].extension = {s \in candidates : Mode(s) = "EXTENSION"},
                 ![r].public = {s \in candidates : Mode(s) = "PUBLIC"}]
            /\ UNCHANGED job
  /\ UNCHANGED <<dbVars, req, historyVars>>
\* Variant with a fault: the sources a job names are taken as they are.
ListAll(r) == ListFrom(r, {s \in Wanted(r) : Exists(s)})
List(r) == ListFrom(r, {s \in Wanted(r) : life[s] = "on"})

\* The sources of mode EXTENSION get their status before the browser starts.
MarkExtension(r) ==
  /\ run[r].pc = "next"
  /\ \E s \in run[r].extension :
       \/ /\ Exists(s)
          /\ Stamp(s, "EXTENSION_REQUIRED")
          /\ run' = [run EXCEPT ![r].extension = @ \ {s}]
          /\ UNCHANGED job
       \/ ~Exists(s) /\ Abort(r) /\ UNCHANGED <<shown, orphaned>>
  /\ UNCHANGED <<life, feed, lease, req, madeFor, edited, faults, requests>>

\* The browser starts when a source is left to collect; then each is marked
\* RUNNING in turn, outside the inner try.
Start(r) ==
  /\ run[r].pc = "next" /\ run[r].extension = {}
  /\ \/ \E s \in run[r].public :
          \/ /\ Exists(s)
             /\ Stamp(s, "RUNNING")
             /\ run' = [run EXCEPT ![r].pc = "collect", ![r].cur = s, ![r].public = @ \ {s}]
             /\ UNCHANGED job
          \/ ~Exists(s) /\ Abort(r) /\ UNCHANGED <<shown, orphaned>>
     \/ run[r].public = {} /\ Return(r) /\ UNCHANGED <<shown, orphaned>>
  /\ UNCHANGED <<life, feed, lease, req, madeFor, edited, faults, requests>>

\* The page is read, its posts are stored and the result is recorded: enough
\* posts, or fewer.
Settle(r) ==
  LET s == run[r].cur IN
  /\ run[r].pc = "collect"
  /\ Exists(s)
  /\ \E result \in {"DONE", "PARTIAL"} : Stamp(s, result)
  /\ run' = [run EXCEPT ![r].pc = "next", ![r].cur = None]
  /\ UNCHANGED <<life, feed, lease, job, req, madeFor, edited, faults, requests>>

\* Variant with a fault: what collectSource throws is not caught.
CollectUncaught(r) ==
  /\ run[r].pc = "collect"
  /\ Abort(r) /\ orphaned' = orphaned \cup {run[r].cur}
  /\ UNCHANGED <<dbVars, req, madeFor, edited, faults, requests>>

\* Reddit blocks or times out, or the source has gone, which its discoveries
\* and its status refer to: all of it is caught.
CollectThrows(r) ==
  /\ run[r].pc = "collect"
  /\ run' = [run EXCEPT ![r].pc = "fail"]
  /\ UNCHANGED <<dbVars, job, req, historyVars>>

\* Variant with a fault: a failure is reported in the result only.
FailUnrecorded(r) ==
  /\ run[r].pc = "fail"
  /\ run' = [run EXCEPT ![r].pc = "next", ![r].cur = None]
  /\ UNCHANGED <<dbVars, job, req, historyVars>>

\* The failure is recorded; when that throws, collect() rejects and the rest
\* of the sources is not collected.
Fail(r) ==
  LET s == run[r].cur IN
  /\ run[r].pc = "fail"
  /\ \/ /\ Exists(s)
        /\ Stamp(s, "FAILED")
        /\ run' = [run EXCEPT ![r].pc = "next", ![r].cur = None]
        /\ UNCHANGED job
     \/ ~Exists(s) /\ Abort(r) /\ UNCHANGED <<shown, orphaned>>
  /\ UNCHANGED <<life, feed, lease, req, madeFor, edited, faults, requests>>

-----------------------------------------------------------------------------
(* Failure *)

Orphans(r) == {s \in Source : s = run[r].cur /\ shown[s] = "RUNNING"}

\* A statement outside the inner try fails for another reason, or the browser
\* does not start: the end of collect().
StatementFails(r) ==
  /\ run[r].pc \notin {"idle", "collect"}
  /\ CountFault
  /\ Abort(r) /\ orphaned' = orphaned \cup Orphans(r)
  /\ UNCHANGED <<dbVars, req, madeFor, edited, requests>>

\* A worker process dies (or is stopped): its collections end where they are.
WorkerDies(w) ==
  LET lost == {r \in Run : run[r].worker = w} IN
  /\ CountFault
  /\ run' = [r \in Run |-> IF r \in lost THEN IdleRun ELSE run[r]]
  /\ job' = [j \in Job |-> IF job[j].holder \in lost THEN [job[j] EXCEPT !.holder = None]
                                                     ELSE job[j]]
  /\ orphaned' = orphaned \cup UNION {Orphans(r) : r \in lost}
  /\ UNCHANGED <<dbVars, req, madeFor, edited, requests>>

\* BullMQ finds a job whose worker died; the backoff of a failed job passes.
RecoverJob(j) ==
  /\ job[j].state = "active" /\ job[j].holder = None
  /\ job' = [job EXCEPT ![j] =
       IF job[j].stalls < MaxStalls
         THEN [job[j] EXCEPT !.state = "waiting", !.stalls = job[j].stalls + 1]
         ELSE NoJob]
  /\ UNCHANGED <<dbVars, run, req, historyVars>>
PromoteJob(j) ==
  /\ job[j].state = "delayed"
  /\ job' = [job EXCEPT ![j].state = "waiting"]
  /\ UNCHANGED <<dbVars, run, req, historyVars>>

-----------------------------------------------------------------------------
(* Specification *)

RunStep(r) ==
  \/ List(r) \/ MarkExtension(r) \/ Start(r)
  \/ Settle(r) \/ CollectThrows(r) \/ Fail(r)

Next ==
  \/ \E s \in Source : Create(s) \/ DeleteSource(s) \/ \E q \in Req : ReadForUpdate(q, s)
  \/ \E q \in Req : WriteUpdate(q) \/ CreateMissing(q) \/ RequestDies(q)
  \/ \E q \in Req, f \in Feed : AskSettings(q, f) \/ ResolveBatch(q, f)
  \/ \E j \in Job : RunSources(j) \/ RecoverJob(j) \/ PromoteJob(j)
  \/ \E w \in Worker, r \in Run : TimerFires(w, r) \/ \E j \in Job : TakeJob(w, r, j)
  \/ \E r \in Run : RunStep(r) \/ StatementFails(r)
  \/ \E w \in Worker : WorkerDies(w)
  \/ LeaseExpires

Spec == Init /\ [][Next]_vars

-----------------------------------------------------------------------------
(* Properties *)

\* A source shown as RUNNING is being collected, or its collection died (with
\* its worker, or because recording its failure failed): never left RUNNING by
\* a collection that ended in any other way.
Collecting(r, s) == run[r].pc \in {"collect", "fail"} /\ run[r].cur = s
RunningIsHonest ==
  \A s \in Source : shown[s] = "RUNNING" =>
    s \in orphaned \/ \E r \in Run : Collecting(r, s)

\* Two workers collect on their timers at the same time only when one of the
\* collections outlasted its lease.
LeaseIsExclusive ==
  \A r, q \in Run :
    Timed(r) /\ Timed(q) /\ run[r].worker # run[q].worker => run[r].late \/ run[q].late

\* The find-or-create of the settings makes as many enabled sources of a page
\* as requests looked for one at once, and no more: one made, later requests
\* find it while no edit disables it or makes it one of another page.  Except
\* a page whose URL is not in canonical form: it is compared as it is with
\* what is stored, and created again by every request.
AutoSources(f) == {s \in Source : madeFor[s] = f /\ life[s] = "on" /\ s \notin edited}
Findable(f) == f \notin Custom \/ Stored[f] = f
DuplicatesAreBounded ==
  \A f \in Feed : Findable(f) => Cardinality(AutoSources(f)) <= Cardinality(Req)

\* A disabled source is in a collection only when that had listed it before it
\* was disabled: neither a timer nor a job that names the source starts on it.
DisabledStaysQuiet ==
  \A r \in Run : \A s \in Holds(r) : life[s] = "off" => s \in run[r].off

\* A collection gives up with sources left only because one of them was
\* removed, or a statement, the browser or the worker failed: what Reddit
\* answers for one source never keeps the others from being collected.
FailureIsContained ==
  [][\A r \in Run :
       run[r].public # {} /\ run'[r].pc = "idle" =>
         faults' > faults
         \/ \E s \in Holds(r) : ~Exists(s)]_vars

-----------------------------------------------------------------------------
(* The inductive invariant *)

\* Only a source that exists has a status, and an unused run holds nothing.
RowsAreBacked ==
  \A s \in Source : /\ ~Exists(s) => shown[s] = "none"
                    /\ madeFor[s] # None /\ s \notin edited => feed[s] = Stored[madeFor[s]]
                    /\ life[s] = "off" => s \in edited
RunsAreBacked ==
  \A r \in Run :
    /\ run[r].cur # None <=> run[r].pc \in {"collect", "fail"}
    /\ run[r].pc \in {"idle", "list"} => run[r].extension = {} /\ run[r].public = {}
    /\ Timed(r) => run[r].worker \in Worker
ReqsAreBacked ==
  \A q \in Req : /\ req[q].pc = "write" => req[q].src \in Source /\ req[q].feed \in Feed
                 /\ req[q].pc \in {"settings", "batch"} => req[q].feed \in Feed

\* A collection of a timer that is not late runs under its worker's lease.
TimersHoldTheLease ==
  \A r \in Run : Timed(r) /\ ~run[r].late => lease = run[r].worker

\* Requests that found no source count as the source they will make.
Asking(f) == {q \in Req : req[q].pc = "settings" /\ req[q].feed = f}
RoomIsShared ==
  \A f \in Feed : Findable(f) =>
    /\ IsFiniteSet(AutoSources(f))
    /\ Cardinality(AutoSources(f)) + Cardinality(Asking(f)) <= Cardinality(Req)

IInv ==
  /\ TypeOK /\ RowsAreBacked /\ RunsAreBacked /\ ReqsAreBacked
  /\ RunningIsHonest /\ TimersHoldTheLease /\ DisabledStaysQuiet /\ RoomIsShared
=============================================================================
