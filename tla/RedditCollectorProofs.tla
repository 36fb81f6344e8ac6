------------------------ MODULE RedditCollectorProofs ------------------------
(***************************************************************************)
(* RedditCollector for any number of sources, feeds, workers, jobs,        *)
(* requests and runs. And RedditSession, for any number of browsers,       *)
(* synchronisations and logins: a browser that is not excused has one      *)
(* synchronisation at most, which carries its present cookies, or its      *)
(* timer is set; once it has none, the file holds them. And RedditCrawl,   *)
(* for any posts, pages and limits: while a site is read, the posts are    *)
(* all that its pages had. And SourceSettings, for any inputs and any      *)
(* numbers in them.                                                        *)
(***************************************************************************)
EXTENDS RedditCollector, RedditSession, RedditCrawl, SourceSettings, FiniteSetTheorems, WellFoundedInduction, TLAPS

\* Nothing but the record of r changes; and in it neither who runs it for
\* what, nor what happened to it meanwhile.
Only(r) == \A p \in Run \ {r} : run'[p] = run[p]
Same(r) == /\ run'[r].worker = run[r].worker /\ run'[r].job = run[r].job
           /\ run'[r].late = run[r].late /\ run'[r].off = run[r].off
\* What a run works on stays.
WorkKept(r) == /\ run'[r].pc = run[r].pc /\ run'[r].cur = run[r].cur
           /\ run'[r].extension = run[r].extension /\ run'[r].public = run[r].public
           /\ run'[r].worker = run[r].worker /\ run'[r].job = run[r].job
\* A collection is over.
Over(r) == /\ run'[r].pc = "idle" /\ run'[r].cur = None /\ run'[r].job = None
           /\ run'[r].extension = {} /\ run'[r].public = {}

\* A run's new record.
LEMMA Updated ==
  ASSUME TypeOK, NEW r \in Run, NEW rec \in RunRecord, run' = [run EXCEPT ![r] = rec]
  PROVE  run' \in [Run -> RunRecord] /\ run'[r] = rec /\ Only(r)
BY DEF TypeOK, Only

\* The record of a run that is over.
LEMMA IdleRecord ==
  /\ IdleRun \in RunRecord
  /\ IdleRun.pc = "idle" /\ IdleRun.cur = None /\ IdleRun.job = None
  /\ IdleRun.extension = {} /\ IdleRun.public = {}
BY DEF IdleRun, RunRecord

\* A run ends.
LEMMA Ended ==
  ASSUME TypeOK, NEW r \in Run, run' = [run EXCEPT ![r] = IdleRun]
  PROVE  run' \in [Run -> RunRecord] /\ Only(r) /\ Over(r)
BY IdleRecord, Updated DEF Over

\* A run has listed its sources.
LEMMA ListedRun ==
  ASSUME TypeOK, NEW r \in Run, NEW A \in SUBSET Source, NEW B \in SUBSET Source,
         run' = [run EXCEPT ![r].pc = "next", ![r].extension = A, ![r].public = B]
  PROVE  /\ run' \in [Run -> RunRecord] /\ Only(r)
         /\ run'[r].pc = "next" /\ run'[r].extension = A /\ run'[r].public = B
         /\ run'[r].cur = run[r].cur /\ Same(r)
<1> DEFINE rec == [run[r] EXCEPT !.pc = "next", !.extension = A, !.public = B]
<1>0. run[r] \in RunRecord
  BY DEF TypeOK
<1>1. rec \in RunRecord
  BY <1>0 DEF RunRecord
<1>2. /\ rec.pc = "next" /\ rec.extension = A /\ rec.public = B
      /\ rec.cur = run[r].cur /\ rec.worker = run[r].worker /\ rec.job = run[r].job
      /\ rec.late = run[r].late /\ rec.off = run[r].off
  BY DEF TypeOK, RunRecord
<1>3. run' = [run EXCEPT ![r] = rec]
  BY DEF TypeOK, RunRecord
<1> HIDE DEF rec
<1>4. run' \in [Run -> RunRecord] /\ run'[r] = rec /\ Only(r)
  BY <1>1, <1>3, Updated
<1> QED
  BY <1>2, <1>4 DEF Same

\* A run is through with a source of mode EXTENSION.
LEMMA MarkedRun ==
  ASSUME TypeOK, NEW r \in Run, NEW s \in Source, run' = [run EXCEPT ![r].extension = @ \ {s}]
  PROVE  /\ run' \in [Run -> RunRecord] /\ Only(r)
         /\ run'[r].pc = run[r].pc /\ run'[r].extension = run[r].extension \ {s}
         /\ run'[r].public = run[r].public /\ run'[r].cur = run[r].cur /\ Same(r)
<1> DEFINE rec == [run[r] EXCEPT !.extension = run[r].extension \ {s}]
<1>0. run[r] \in RunRecord
  BY DEF TypeOK
<1>1. rec \in RunRecord
  BY <1>0 DEF RunRecord
<1>2. /\ rec.pc = run[r].pc /\ rec.extension = run[r].extension \ {s}
      /\ rec.public = run[r].public /\ rec.cur = run[r].cur /\ rec.worker = run[r].worker /\ rec.job = run[r].job
      /\ rec.late = run[r].late /\ rec.off = run[r].off
  BY DEF TypeOK, RunRecord
<1>3. run' = [run EXCEPT ![r] = rec]
  BY DEF TypeOK, RunRecord
<1> HIDE DEF rec
<1>4. run' \in [Run -> RunRecord] /\ run'[r] = rec /\ Only(r)
  BY <1>1, <1>3, Updated
<1> QED
  BY <1>2, <1>4 DEF Same

\* A run starts on a source.
LEMMA StartedRun ==
  ASSUME TypeOK, NEW r \in Run, NEW s \in Source,
         run' = [run EXCEPT ![r].pc = "collect", ![r].cur = s, ![r].public = @ \ {s}]
  PROVE  /\ run' \in [Run -> RunRecord] /\ Only(r)
         /\ run'[r].pc = "collect" /\ run'[r].cur = s /\ run'[r].public = run[r].public \ {s}
         /\ run'[r].extension = run[r].extension /\ Same(r)
<1> DEFINE rec == [run[r] EXCEPT !.pc = "collect", !.cur = s, !.public = run[r].public \ {s}]
<1>0. run[r] \in RunRecord
  BY DEF TypeOK
<1>1. rec \in RunRecord
  BY <1>0 DEF RunRecord
<1>2. /\ rec.pc = "collect" /\ rec.cur = s /\ rec.public = run[r].public \ {s}
      /\ rec.extension = run[r].extension /\ rec.worker = run[r].worker /\ rec.job = run[r].job
      /\ rec.late = run[r].late /\ rec.off = run[r].off
  BY DEF TypeOK, RunRecord
<1>3. run' = [run EXCEPT ![r] = rec]
  BY DEF TypeOK, RunRecord
<1> HIDE DEF rec
<1>4. run' \in [Run -> RunRecord] /\ run'[r] = rec /\ Only(r)
  BY <1>1, <1>3, Updated
<1> QED
  BY <1>2, <1>4 DEF Same

\* A run is through with a source.
LEMMA NextRun ==
  ASSUME TypeOK, NEW r \in Run, run' = [run EXCEPT ![r].pc = "next", ![r].cur = None]
  PROVE  /\ run' \in [Run -> RunRecord] /\ Only(r)
         /\ run'[r].pc = "next" /\ run'[r].cur = None /\ run'[r].public = run[r].public
         /\ run'[r].extension = run[r].extension /\ Same(r)
<1> DEFINE rec == [run[r] EXCEPT !.pc = "next", !.cur = None]
<1>0. run[r] \in RunRecord
  BY DEF TypeOK
<1>1. rec \in RunRecord
  BY <1>0 DEF RunRecord
<1>2. /\ rec.pc = "next" /\ rec.cur = None /\ rec.public = run[r].public
      /\ rec.extension = run[r].extension /\ rec.worker = run[r].worker /\ rec.job = run[r].job
      /\ rec.late = run[r].late /\ rec.off = run[r].off
  BY DEF TypeOK, RunRecord
<1>3. run' = [run EXCEPT ![r] = rec]
  BY DEF TypeOK, RunRecord
<1> HIDE DEF rec
<1>4. run' \in [Run -> RunRecord] /\ run'[r] = rec /\ Only(r)
  BY <1>1, <1>3, Updated
<1> QED
  BY <1>2, <1>4 DEF Same

\* A run could not collect a source.
LEMMA FailedRun ==
  ASSUME TypeOK, NEW r \in Run, run' = [run EXCEPT ![r].pc = "fail"]
  PROVE  /\ run' \in [Run -> RunRecord] /\ Only(r)
         /\ run'[r].pc = "fail" /\ run'[r].cur = run[r].cur /\ run'[r].public = run[r].public
         /\ run'[r].extension = run[r].extension /\ Same(r)
<1> DEFINE rec == [run[r] EXCEPT !.pc = "fail"]
<1>0. run[r] \in RunRecord
  BY DEF TypeOK
<1>1. rec \in RunRecord
  BY <1>0 DEF RunRecord
<1>2. /\ rec.pc = "fail" /\ rec.cur = run[r].cur /\ rec.public = run[r].public
      /\ rec.extension = run[r].extension /\ rec.worker = run[r].worker /\ rec.job = run[r].job
      /\ rec.late = run[r].late /\ rec.off = run[r].off
  BY DEF TypeOK, RunRecord
<1>3. run' = [run EXCEPT ![r] = rec]
  BY DEF TypeOK, RunRecord
<1> HIDE DEF rec
<1>4. run' \in [Run -> RunRecord] /\ run'[r] = rec /\ Only(r)
  BY <1>1, <1>3, Updated
<1> QED
  BY <1>2, <1>4 DEF Same

\* An update tells the runs that hold the source that it was disabled.
LEMMA UpdatedRuns ==
  ASSUME TypeOK, NEW s \in Source, NEW on \in BOOLEAN,
         run' = Noted(s, on)
  PROVE  /\ run' \in [Run -> RunRecord]
         /\ \A r \in Run : /\ WorkKept(r) /\ run'[r].late = run[r].late
                           /\ run[r].off \subseteq run'[r].off
                           /\ s \in Holds(r) /\ ~on => s \in run'[r].off
<1> DEFINE rec(r) == [run[r] EXCEPT !.off = run[r].off \cup {s}]
<1>1. ASSUME NEW r \in Run
      PROVE  /\ rec(r) \in RunRecord /\ rec(r).off = run[r].off \cup {s}
             /\ rec(r).pc = run[r].pc /\ rec(r).cur = run[r].cur
             /\ rec(r).extension = run[r].extension /\ rec(r).public = run[r].public
             /\ rec(r).worker = run[r].worker /\ rec(r).job = run[r].job
             /\ rec(r).late = run[r].late
  BY DEF TypeOK, RunRecord
<1>2. \A r \in Run : run[r] \in RunRecord
  BY DEF TypeOK
<1>3. run' = [r \in Run |-> IF s \in Holds(r) /\ ~on THEN rec(r) ELSE run[r]]
  BY DEF Noted
<1> HIDE DEF rec
<1>4. ASSUME NEW r \in Run
      PROVE  /\ run'[r] \in RunRecord /\ WorkKept(r) /\ run'[r].late = run[r].late
             /\ run[r].off \subseteq run'[r].off
             /\ s \in Holds(r) /\ ~on => s \in run'[r].off
  BY <1>1, <1>2, <1>3 DEF WorkKept
<1> QED
  BY <1>3, <1>4

\* The runs of timers are late once the lease has expired.
LEMMA LateRuns ==
  ASSUME TypeOK, run' = [r \in Run |-> [run[r] EXCEPT !.late = Timed(r)]]
  PROVE  /\ run' \in [Run -> RunRecord]
         /\ \A r \in Run : /\ WorkKept(r) /\ run'[r].off = run[r].off
                           /\ Timed(r) => run'[r].late
<1> DEFINE rec(r) == [run[r] EXCEPT !.late = Timed(r)]
<1>1. ASSUME NEW r \in Run
      PROVE  /\ rec(r) \in RunRecord /\ rec(r).off = run[r].off
             /\ rec(r).pc = run[r].pc /\ rec(r).cur = run[r].cur
             /\ rec(r).extension = run[r].extension /\ rec(r).public = run[r].public
             /\ rec(r).worker = run[r].worker /\ rec(r).job = run[r].job
             /\ Timed(r) => rec(r).late
  BY ZenonT(30) DEF TypeOK, RunRecord, Timed
<1>2. run' = [r \in Run |-> rec(r)]
  OBVIOUS
<1> HIDE DEF rec
<1>3. \A r \in Run : run'[r] = rec(r)
  BY <1>2
<1> QED
  BY <1>1, <1>2, <1>3 DEF WorkKept

\* The runs of a worker that dies are over.
LEMMA LostRuns ==
  ASSUME TypeOK, NEW w \in Worker,
         run' = [r \in Run |-> IF r \in {p \in Run : run[p].worker = w} THEN IdleRun
                                                                       ELSE run[r]]
  PROVE  /\ run' \in [Run -> RunRecord]
         /\ \A r \in Run : \/ run[r].worker = w /\ Over(r)
                           \/ run[r].worker # w /\ run'[r] = run[r]
BY IdleRecord DEF TypeOK, Over

\* What the actions that touch one run do to it.
LEMMA AbortRun ==
  ASSUME TypeOK, NEW r \in Run, Abort(r)
  PROVE  run' \in [Run -> RunRecord] /\ Only(r) /\ Over(r)
BY Ended DEF Abort
LEMMA ReturnRun ==
  ASSUME TypeOK, NEW r \in Run, Return(r)
  PROVE  run' \in [Run -> RunRecord] /\ Only(r) /\ Over(r)
BY Ended DEF Return

\* A run lists enabled sources only.
LEMMA ListRun ==
  ASSUME TypeOK, NEW r \in Run, List(r)
  PROVE  /\ run[r].pc = "list" /\ run' \in [Run -> RunRecord] /\ Only(r)
         /\ UNCHANGED <<dbVars, req, historyVars>>
         /\ \/ Over(r)
            \/ /\ run'[r].pc = "next" /\ run'[r].cur = run[r].cur /\ Same(r)
               /\ \A s \in run'[r].extension \cup run'[r].public : life[s] = "on"
<1> DEFINE C == {s \in Wanted(r) : life[s] = "on"}
           A == {s \in C : Mode(s) = "EXTENSION"}
           B == {s \in C : Mode(s) = "PUBLIC"}
<1>1. run[r].pc = "list" /\ UNCHANGED <<dbVars, req, historyVars>>
  BY DEF List, ListFrom
<1>2. CASE C = {}
  <2>1. Return(r)
    BY <1>2 DEF List, ListFrom
  <2> QED
    BY <1>1, <2>1, ReturnRun
<1>3. CASE C # {}
  <2>1. Wanted(r) \subseteq Source
    <3>1. CASE run[r].job = None
      BY <3>1 DEF Wanted
    <3>2. CASE run[r].job # None
      <4>1. run[r].job \in Job
        BY <3>2 DEF TypeOK, RunRecord
      <4>2. job[run[r].job].want \subseteq Source
        BY <4>1 DEF TypeOK, JobRecord
      <4> QED
        BY <3>2, <4>2 DEF Wanted
    <3> QED
      BY <3>1, <3>2
  <2>2. A \in SUBSET Source /\ B \in SUBSET Source /\ \A s \in A \cup B : life[s] = "on"
    BY <2>1
  <2>3. run' = [run EXCEPT ![r].pc = "next", ![r].extension = A, ![r].public = B]
    BY <1>3 DEF List, ListFrom
  <2> HIDE DEF A, B, C
  <2>4. /\ run' \in [Run -> RunRecord] /\ Only(r)
        /\ run'[r].pc = "next" /\ run'[r].extension = A /\ run'[r].public = B
        /\ run'[r].cur = run[r].cur /\ Same(r)
    BY <2>2, <2>3, ListedRun
  <2> QED
    BY <1>1, <2>2, <2>4
<1> QED
  BY <1>2, <1>3

\* A source of mode EXTENSION gets its status, or the run ends.
LEMMA MarkRun ==
  ASSUME TypeOK, NEW r \in Run, MarkExtension(r)
  PROVE  /\ run[r].pc = "next" /\ run' \in [Run -> RunRecord] /\ Only(r)
         /\ UNCHANGED <<life, feed, lease, req, madeFor, edited, faults, requests>>
         /\ \E s \in run[r].extension :
              \/ /\ s \in Source /\ Exists(s) /\ Stamp(s, "EXTENSION_REQUIRED")
                 /\ run'[r].pc = "next" /\ run'[r].cur = run[r].cur /\ Same(r)
                 /\ run'[r].extension = run[r].extension \ {s}
                 /\ run'[r].public = run[r].public
              \/ ~Exists(s) /\ Over(r) /\ UNCHANGED <<shown, orphaned>>
<1>1. /\ run[r].pc = "next"
      /\ UNCHANGED <<life, feed, lease, req, madeFor, edited, faults, requests>>
  BY DEF MarkExtension
<1>2. PICK s \in run[r].extension :
        \/ /\ Exists(s)
           /\ Stamp(s, "EXTENSION_REQUIRED")
           /\ run' = [run EXCEPT ![r].extension = @ \ {s}]
           /\ UNCHANGED job
        \/ ~Exists(s) /\ Abort(r) /\ UNCHANGED <<shown, orphaned>>
  BY DEF MarkExtension
<1>3. s \in Source
  BY DEF TypeOK, RunRecord
<1>4. CASE ~Exists(s) /\ Abort(r) /\ UNCHANGED <<shown, orphaned>>
  BY <1>1, <1>4, AbortRun
<1>5. CASE /\ Exists(s) /\ Stamp(s, "EXTENSION_REQUIRED")
           /\ run' = [run EXCEPT ![r].extension = @ \ {s}]
  <2>1. /\ run' \in [Run -> RunRecord] /\ Only(r)
        /\ run'[r].pc = run[r].pc /\ run'[r].cur = run[r].cur /\ Same(r)
        /\ run'[r].extension = run[r].extension \ {s} /\ run'[r].public = run[r].public
    BY <1>3, <1>5, MarkedRun
  <2> QED
    BY <1>1, <1>3, <1>5, <2>1
<1> QED
  BY <1>2, <1>4, <1>5

\* A run starts on a source or ends.
LEMMA StartRun ==
  ASSUME TypeOK, NEW r \in Run, Start(r)
  PROVE  /\ run[r].pc = "next" /\ run[r].extension = {}
         /\ run' \in [Run -> RunRecord] /\ Only(r)
         /\ UNCHANGED <<life, feed, lease, req, madeFor, edited, faults, requests>>
         /\ \/ \E s \in run[r].public :
                 \/ /\ s \in Source /\ Exists(s) /\ Stamp(s, "RUNNING")
                    /\ run'[r].pc = "collect" /\ run'[r].cur = s /\ Same(r)
                    /\ run'[r].extension = {} /\ run'[r].public = run[r].public \ {s}
                 \/ ~Exists(s) /\ Over(r) /\ UNCHANGED <<shown, orphaned>>
            \/ run[r].public = {} /\ Over(r) /\ UNCHANGED <<shown, orphaned>>
<1>1. /\ run[r].pc = "next" /\ run[r].extension = {}
      /\ UNCHANGED <<life, feed, lease, req, madeFor, edited, faults, requests>>
  BY DEF Start
<1>2. CASE run[r].public = {} /\ Return(r) /\ UNCHANGED <<shown, orphaned>>
  BY <1>1, <1>2, ReturnRun
<1>3. ASSUME NEW s \in run[r].public, ~Exists(s), Abort(r), UNCHANGED <<shown, orphaned>>
      PROVE  run' \in [Run -> RunRecord] /\ Only(r) /\ Over(r)
  BY <1>3, AbortRun
<1>4. ASSUME NEW s \in run[r].public, Exists(s), Stamp(s, "RUNNING"),
             run' = [run EXCEPT ![r].pc = "collect", ![r].cur = s, ![r].public = @ \ {s}]
      PROVE  /\ s \in Source /\ run' \in [Run -> RunRecord] /\ Only(r)
             /\ run'[r].pc = "collect" /\ run'[r].cur = s /\ Same(r)
             /\ run'[r].extension = {} /\ run'[r].public = run[r].public \ {s}
  <2>1. s \in Source
    BY DEF TypeOK, RunRecord
  <2> QED
    BY <1>1, <1>4, <2>1, StartedRun
<1>5. \/ \E s \in run[r].public :
           \/ /\ Exists(s) /\ Stamp(s, "RUNNING")
              /\ run' = [run EXCEPT ![r].pc = "collect", ![r].cur = s, ![r].public = @ \ {s}]
           \/ ~Exists(s) /\ Abort(r) /\ UNCHANGED <<shown, orphaned>>
      \/ run[r].public = {} /\ Return(r) /\ UNCHANGED <<shown, orphaned>>
  BY DEF Start
<1> QED
  BY <1>1, <1>2, <1>3, <1>4, <1>5

\* A run settles its source.
LEMMA SettleRun ==
  ASSUME TypeOK, NEW r \in Run, Settle(r)
  PROVE  /\ run[r].pc = "collect" /\ run' \in [Run -> RunRecord] /\ Only(r)
         /\ UNCHANGED <<life, feed, lease, job, req, madeFor, edited, faults, requests>>
         /\ Exists(run[r].cur)
         /\ \E result \in {"DONE", "PARTIAL"} : Stamp(run[r].cur, result)
         /\ run'[r].pc = "next" /\ run'[r].cur = None /\ Same(r)
         /\ run'[r].extension = run[r].extension /\ run'[r].public = run[r].public
BY NextRun DEF Settle

\* A run fails at its source, and records that or ends.
LEMMA ThrowRun ==
  ASSUME TypeOK, NEW r \in Run, CollectThrows(r)
  PROVE  /\ run[r].pc = "collect" /\ run' \in [Run -> RunRecord] /\ Only(r)
         /\ UNCHANGED <<dbVars, job, req, historyVars>>
         /\ run'[r].pc = "fail" /\ run'[r].cur = run[r].cur /\ Same(r)
         /\ run'[r].extension = run[r].extension /\ run'[r].public = run[r].public
BY FailedRun DEF CollectThrows
LEMMA FailRun ==
  ASSUME TypeOK, NEW r \in Run, Fail(r)
  PROVE  /\ run[r].pc = "fail" /\ run' \in [Run -> RunRecord] /\ Only(r)
         /\ UNCHANGED <<life, feed, lease, req, madeFor, edited, faults, requests>>
         /\ \/ /\ Exists(run[r].cur) /\ Stamp(run[r].cur, "FAILED")
               /\ run'[r].pc = "next" /\ run'[r].cur = None /\ Same(r)
               /\ run'[r].extension = run[r].extension /\ run'[r].public = run[r].public
            \/ ~Exists(run[r].cur) /\ Over(r) /\ UNCHANGED <<shown, orphaned>>
<1>1. /\ run[r].pc = "fail"
      /\ UNCHANGED <<life, feed, lease, req, madeFor, edited, faults, requests>>
  BY DEF Fail
<1>2. CASE ~Exists(run[r].cur) /\ Abort(r) /\ UNCHANGED <<shown, orphaned>>
  BY <1>1, <1>2, AbortRun
<1>3. CASE /\ Exists(run[r].cur) /\ Stamp(run[r].cur, "FAILED")
           /\ run' = [run EXCEPT ![r].pc = "next", ![r].cur = None]
  BY <1>1, <1>3, NextRun
<1> QED
  BY <1>2, <1>3 DEF Fail

\* A run starts.
LEMMA BeginRun ==
  ASSUME TypeOK, NEW w \in Worker, NEW r \in Run, NEW j \in Job \cup {None}, Begin(w, r, j)
  PROVE  /\ run[r].pc = "idle" /\ run' \in [Run -> RunRecord] /\ Only(r)
         /\ run'[r].pc = "list" /\ run'[r].worker = w /\ run'[r].job = j
         /\ run'[r].cur = None /\ run'[r].extension = {} /\ run'[r].public = {}
<1> DEFINE rec == [IdleRun EXCEPT !.pc = "list", !.worker = w, !.job = j]
<1>1. /\ rec \in RunRecord /\ rec.pc = "list" /\ rec.worker = w /\ rec.job = j
      /\ rec.cur = None /\ rec.extension = {} /\ rec.public = {}
  BY DEF IdleRun, RunRecord
<1>2. run[r].pc = "idle" /\ run' = [run EXCEPT ![r] = rec]
  BY DEF Begin
<1> HIDE DEF rec
<1> QED
  BY <1>1, <1>2, Updated

\* Every step preserves the types of the runs.
LEMMA RunTypeStep == IInv /\ [Next]_vars => run' \in [Run -> RunRecord]
<1> SUFFICES ASSUME TypeOK, RunsAreBacked, ReqsAreBacked, [Next]_vars
             PROVE  run' \in [Run -> RunRecord]
  BY DEF IInv
<1>0. run \in [Run -> RunRecord]
  BY DEF TypeOK
<1>1. ASSUME NEW s \in Source, Create(s) PROVE run' \in [Run -> RunRecord]
  BY <1>0, <1>1 DEF Create, AddSource, CountRequest, dbVars
<1>2. ASSUME NEW s \in Source, DeleteSource(s) PROVE run' \in [Run -> RunRecord]
  BY <1>0, <1>2 DEF DeleteSource, CountRequest
<1>3. ASSUME NEW s \in Source, NEW q \in Req, ReadForUpdate(q, s)
      PROVE  run' \in [Run -> RunRecord]
  BY <1>0, <1>3 DEF ReadForUpdate, CountRequest
<1>4. ASSUME NEW q \in Req, WriteUpdate(q) PROVE run' \in [Run -> RunRecord]
  <2>1. req[q].src \in Source /\ req[q].enabled \in BOOLEAN
    BY <1>4 DEF WriteUpdate, ReqsAreBacked, TypeOK, ReqRecord
  <2>2. run' = run \/ run' = Noted(req[q].src, req[q].enabled)
    BY <1>4 DEF WriteUpdate
  <2> QED
    BY <1>0, <2>1, <2>2, UpdatedRuns
<1>5. ASSUME NEW q \in Req, CreateMissing(q) PROVE run' \in [Run -> RunRecord]
  BY <1>0, <1>5 DEF CreateMissing, AddSource, Done
<1>6. ASSUME NEW q \in Req, RequestDies(q) PROVE run' \in [Run -> RunRecord]
  BY <1>0, <1>6 DEF RequestDies, Done
<1>7. ASSUME NEW q \in Req, NEW f \in Feed, AskSettings(q, f) PROVE run' \in [Run -> RunRecord]
  BY <1>0, <1>7 DEF AskSettings
<1>8. ASSUME NEW q \in Req, NEW f \in Feed, ResolveBatch(q, f) PROVE run' \in [Run -> RunRecord]
  BY <1>0, <1>8 DEF ResolveBatch
<1>9. ASSUME NEW j \in Job, RunSources(j) PROVE run' \in [Run -> RunRecord]
  BY <1>0, <1>9 DEF RunSources, CountRequest
<1>10. ASSUME NEW j \in Job, RecoverJob(j) PROVE run' \in [Run -> RunRecord]
  BY <1>0, <1>10 DEF RecoverJob
<1>11. ASSUME NEW j \in Job, PromoteJob(j) PROVE run' \in [Run -> RunRecord]
  BY <1>0, <1>11 DEF PromoteJob
<1>12. ASSUME NEW w \in Worker, NEW r \in Run, TimerFires(w, r)
      PROVE  run' \in [Run -> RunRecord]
  BY <1>12, BeginRun DEF TimerFires
<1>13. ASSUME NEW w \in Worker, NEW r \in Run, NEW j \in Job, TakeJob(w, r, j)
      PROVE  run' \in [Run -> RunRecord]
  BY <1>13, BeginRun DEF TakeJob
<1>14. ASSUME NEW r \in Run, List(r) PROVE run' \in [Run -> RunRecord]
  BY <1>14, ListRun
<1>15. ASSUME NEW r \in Run, MarkExtension(r) PROVE run' \in [Run -> RunRecord]
  BY <1>15, MarkRun
<1>16. ASSUME NEW r \in Run, Start(r) PROVE run' \in [Run -> RunRecord]
  BY <1>16, StartRun
<1>17. ASSUME NEW r \in Run, Settle(r) PROVE run' \in [Run -> RunRecord]
  BY <1>17, SettleRun
<1>18. ASSUME NEW r \in Run, CollectThrows(r) PROVE run' \in [Run -> RunRecord]
  BY <1>18, ThrowRun
<1>19. ASSUME NEW r \in Run, Fail(r) PROVE run' \in [Run -> RunRecord]
  BY <1>19, FailRun
<1>20. ASSUME NEW r \in Run, StatementFails(r) PROVE run' \in [Run -> RunRecord]
  BY <1>20, AbortRun DEF StatementFails
<1>21. ASSUME NEW w \in Worker, WorkerDies(w) PROVE run' \in [Run -> RunRecord]
  BY <1>21, LostRuns DEF WorkerDies
<1>22. ASSUME LeaseExpires PROVE run' \in [Run -> RunRecord]
  BY <1>22, LateRuns DEF LeaseExpires
<1>23. ASSUME UNCHANGED vars PROVE run' \in [Run -> RunRecord]
  BY <1>0, <1>23 DEF vars
<1> QED
  BY <1>1, <1>2, <1>3, <1>4, <1>5, <1>6, <1>7, <1>8, <1>9, <1>10, <1>11, <1>12, <1>13,
     <1>14, <1>15, <1>16, <1>17, <1>18, <1>19, <1>20, <1>21, <1>22, <1>23
     DEF Next, RunStep

\* ... and of the jobs.
LEMMA JobRecords ==
  ASSUME TypeOK, NEW j \in Job
  PROVE  /\ NoJob \in JobRecord /\ job[j] \in JobRecord
         /\ \A n \in Nat : [job[j] EXCEPT !.state = "delayed", !.holder = None, !.made = n]
                             \in JobRecord
         /\ \A n \in Nat : [job[j] EXCEPT !.state = "waiting", !.stalls = n] \in JobRecord
         /\ [job[j] EXCEPT !.holder = None] \in JobRecord
         /\ job[j].made + 1 \in Nat /\ job[j].stalls + 1 \in Nat
<1>1. job[j] \in JobRecord
  BY DEF TypeOK
<1>2. NoJob \in JobRecord
  BY DEF NoJob, JobRecord
<1>3. ASSUME NEW n \in Nat
      PROVE  /\ [job[j] EXCEPT !.state = "delayed", !.holder = None, !.made = n] \in JobRecord
             /\ [job[j] EXCEPT !.state = "waiting", !.stalls = n] \in JobRecord
  BY <1>1 DEF JobRecord
<1>4. [job[j] EXCEPT !.holder = None] \in JobRecord
  BY <1>1 DEF JobRecord
<1>5. job[j].made + 1 \in Nat /\ job[j].stalls + 1 \in Nat
  BY <1>1 DEF JobRecord
<1> QED
  BY <1>1, <1>2, <1>3, <1>4, <1>5

LEMMA AbortJob ==
  ASSUME TypeOK, NEW r \in Run, Abort(r) \/ Return(r)
  PROVE  job' \in [Job -> JobRecord]
<1>1. CASE Return(r)
  BY <1>1, JobRecords DEF Return
<1>2. CASE Abort(r)
  <2> DEFINE again(j) == [job[j] EXCEPT !.state = "delayed", !.holder = None, !.made = job[j].made + 1]
  <2>1. job' = [j \in Job |-> IF j # run[r].job THEN job[j]
                              ELSE IF job[j].made + 1 < JobAttempts THEN again(j) ELSE NoJob]
    BY <1>2 DEF Abort
  <2>2. \A j \in Job : again(j) \in JobRecord /\ job[j] \in JobRecord /\ NoJob \in JobRecord
    BY JobRecords
  <2> HIDE DEF again
  <2> QED
    BY <2>1, <2>2
<1> QED
  BY <1>1, <1>2

LEMMA JobTypeStep == IInv /\ [Next]_vars => job' \in [Job -> JobRecord]
<1> SUFFICES ASSUME TypeOK, [Next]_vars PROVE job' \in [Job -> JobRecord]
  BY DEF IInv
<1>0. job \in [Job -> JobRecord]
  BY DEF TypeOK
<1>1. ASSUME NEW s \in Source, Create(s) PROVE job' \in [Job -> JobRecord]
  BY <1>0, <1>1 DEF Create, AddSource, CountRequest, dbVars
<1>2. ASSUME NEW s \in Source, DeleteSource(s) PROVE job' \in [Job -> JobRecord]
  BY <1>0, <1>2 DEF DeleteSource, CountRequest
<1>3. ASSUME NEW s \in Source, NEW q \in Req, ReadForUpdate(q, s)
      PROVE  job' \in [Job -> JobRecord]
  BY <1>0, <1>3 DEF ReadForUpdate, CountRequest
<1>4. ASSUME NEW q \in Req, WriteUpdate(q) PROVE job' \in [Job -> JobRecord]
  BY <1>0, <1>4 DEF WriteUpdate, Done
<1>5. ASSUME NEW q \in Req, CreateMissing(q) PROVE job' \in [Job -> JobRecord]
  BY <1>0, <1>5 DEF CreateMissing, AddSource, Done
<1>6. ASSUME NEW q \in Req, RequestDies(q) PROVE job' \in [Job -> JobRecord]
  BY <1>0, <1>6 DEF RequestDies, Done
<1>7. ASSUME NEW q \in Req, NEW f \in Feed, AskSettings(q, f) PROVE job' \in [Job -> JobRecord]
  BY <1>0, <1>7 DEF AskSettings
<1>8. ASSUME NEW q \in Req, NEW f \in Feed, ResolveBatch(q, f) PROVE job' \in [Job -> JobRecord]
  BY <1>0, <1>8 DEF ResolveBatch
<1>9. ASSUME NEW j \in Job, RunSources(j) PROVE job' \in [Job -> JobRecord]
  <2>1. PICK want \in SUBSET Source :
          job' = [job EXCEPT ![j].state = "waiting", ![j].want = want]
    BY <1>9 DEF RunSources
  <2>2. [job[j] EXCEPT !.state = "waiting", !.want = want] \in JobRecord
    <3>1. job[j] \in JobRecord
      BY <1>0
    <3> QED
      BY <3>1 DEF JobRecord
  <2>3. job' = [job EXCEPT ![j] = [job[j] EXCEPT !.state = "waiting", !.want = want]]
    BY <1>0, <2>1 DEF JobRecord
  <2> QED
    BY <1>0, <2>2, <2>3
<1>10. ASSUME NEW j \in Job, RecoverJob(j) PROVE job' \in [Job -> JobRecord]
  <2> DEFINE again == [job[j] EXCEPT !.state = "waiting", !.stalls = job[j].stalls + 1]
  <2>1. job' = [job EXCEPT ![j] = IF job[j].stalls < MaxStalls THEN again ELSE NoJob]
    BY <1>10 DEF RecoverJob
  <2>2. again \in JobRecord /\ NoJob \in JobRecord
    BY JobRecords
  <2> HIDE DEF again
  <2> QED
    BY <1>0, <2>1, <2>2
<1>11. ASSUME NEW j \in Job, PromoteJob(j) PROVE job' \in [Job -> JobRecord]
  <2>1. [job[j] EXCEPT !.state = "waiting"] \in JobRecord
    <3>1. job[j] \in JobRecord
      BY <1>0
    <3> QED
      BY <3>1 DEF JobRecord
  <2>2. job' = [job EXCEPT ![j] = [job[j] EXCEPT !.state = "waiting"]]
    BY <1>11 DEF PromoteJob
  <2> QED
    BY <1>0, <2>1, <2>2
<1>12. ASSUME NEW w \in Worker, NEW r \in Run, TimerFires(w, r)
      PROVE  job' \in [Job -> JobRecord]
  BY <1>0, <1>12 DEF TimerFires
<1>13. ASSUME NEW w \in Worker, NEW r \in Run, NEW j \in Job, TakeJob(w, r, j)
      PROVE  job' \in [Job -> JobRecord]
  <2>1. [job[j] EXCEPT !.state = "active", !.holder = r] \in JobRecord
    <3>1. job[j] \in JobRecord
      BY <1>0
    <3> QED
      BY <3>1 DEF JobRecord
  <2>2. job' = [job EXCEPT ![j] = [job[j] EXCEPT !.state = "active", !.holder = r]]
    BY <1>0, <1>13 DEF TakeJob, JobRecord
  <2> QED
    BY <1>0, <2>1, <2>2
<1>14. ASSUME NEW r \in Run, List(r) PROVE job' \in [Job -> JobRecord]
  BY <1>0, <1>14, AbortJob DEF List, ListFrom
<1>15. ASSUME NEW r \in Run, MarkExtension(r) PROVE job' \in [Job -> JobRecord]
  BY <1>0, <1>15, AbortJob DEF MarkExtension
<1>16. ASSUME NEW r \in Run, Start(r) PROVE job' \in [Job -> JobRecord]
  BY <1>0, <1>16, AbortJob DEF Start
<1>17. ASSUME NEW r \in Run, Settle(r) PROVE job' \in [Job -> JobRecord]
  BY <1>0, <1>17 DEF Settle, Stamp
<1>18. ASSUME NEW r \in Run, CollectThrows(r) PROVE job' \in [Job -> JobRecord]
  BY <1>0, <1>18 DEF CollectThrows
<1>19. ASSUME NEW r \in Run, Fail(r) PROVE job' \in [Job -> JobRecord]
  BY <1>0, <1>19, AbortJob DEF Fail
<1>20. ASSUME NEW r \in Run, StatementFails(r) PROVE job' \in [Job -> JobRecord]
  BY <1>20, AbortJob DEF StatementFails
<1>21. ASSUME NEW w \in Worker, WorkerDies(w) PROVE job' \in [Job -> JobRecord]
  <2> DEFINE left(j) == [job[j] EXCEPT !.holder = None]
             lost == {r \in Run : run[r].worker = w}
  <2>1. job' = [j \in Job |-> IF job[j].holder \in lost THEN left(j) ELSE job[j]]
    BY <1>21 DEF WorkerDies
  <2>2. \A j \in Job : left(j) \in JobRecord /\ job[j] \in JobRecord
    BY JobRecords
  <2> HIDE DEF left, lost
  <2> QED
    BY <2>1, <2>2
<1>22. ASSUME LeaseExpires PROVE job' \in [Job -> JobRecord]
  BY <1>0, <1>22 DEF LeaseExpires
<1>23. ASSUME UNCHANGED vars PROVE job' \in [Job -> JobRecord]
  BY <1>0, <1>23 DEF vars
<1> QED
  BY <1>1, <1>2, <1>3, <1>4, <1>5, <1>6, <1>7, <1>8, <1>9, <1>10, <1>11, <1>12, <1>13,
     <1>14, <1>15, <1>16, <1>17, <1>18, <1>19, <1>20, <1>21, <1>22, <1>23
     DEF Next, RunStep

\* ... and of the rows, the requests and the history.
LEMMA RowTypeStep ==
  IInv /\ [Next]_vars =>
    /\ life' \in [Source -> {"unborn", "on", "off", "gone"}]
    /\ feed' \in [Source -> Feed \cup {None}]
    /\ shown' \in [Source -> Status \cup {"none"}]
    /\ lease' \in Worker \cup {None}
    /\ req' \in [Req -> ReqRecord] /\ ReqsAreBacked'
    /\ madeFor' \in [Source -> Feed \cup {None}]
    /\ orphaned' \subseteq Source /\ edited' \subseteq Source
    /\ faults' \in Nat /\ requests' \in Nat
<1> DEFINE G == /\ life' \in [Source -> {"unborn", "on", "off", "gone"}]
                /\ feed' \in [Source -> Feed \cup {None}]
                /\ shown' \in [Source -> Status \cup {"none"}]
                /\ lease' \in Worker \cup {None}
                /\ req' \in [Req -> ReqRecord] /\ ReqsAreBacked'
                /\ madeFor' \in [Source -> Feed \cup {None}]
                /\ orphaned' \subseteq Source /\ edited' \subseteq Source
                /\ faults' \in Nat /\ requests' \in Nat
<1> SUFFICES ASSUME TypeOK, RunsAreBacked, ReqsAreBacked, [Next]_vars PROVE G
  BY DEF IInv
<1> USE BoundAssumption, FeedAssumption
    DEF TypeOK, ReqsAreBacked, ReqRecord, IdleReq, Status, dbVars, historyVars
<1>1. ASSUME NEW s \in Source, Create(s) PROVE G
  BY <1>1 DEF Create, AddSource, CountRequest, dbVars
<1>2. ASSUME NEW s \in Source, DeleteSource(s) PROVE G
  BY <1>2 DEF DeleteSource, CountRequest
<1>3. ASSUME NEW s \in Source, NEW q \in Req, ReadForUpdate(q, s) PROVE G
  <2>1. PICK f \in Feed, on \in BOOLEAN :
          req' = [req EXCEPT ![q] = [pc |-> "write", src |-> s, feed |-> f, enabled |-> on]]
    BY <1>3 DEF ReadForUpdate
  <2> DEFINE rec == [pc |-> "write", src |-> s, feed |-> f, enabled |-> on]
  <2>2. rec \in ReqRecord /\ rec.pc = "write" /\ rec.src = s /\ rec.feed = f
    OBVIOUS
  <2>3. req' = [req EXCEPT ![q] = rec]
    BY <2>1
  <2> HIDE DEF rec
  <2>4. req' \in [Req -> ReqRecord] /\ ReqsAreBacked'
    BY <2>2, <2>3
  <2> QED
    BY <1>3, <2>4 DEF ReadForUpdate, CountRequest
<1>4. ASSUME NEW q \in Req, WriteUpdate(q) PROVE G
  BY <1>4 DEF WriteUpdate, Done
<1>5. ASSUME NEW q \in Req, CreateMissing(q) PROVE G
  <2>1. req[q] \in ReqRecord /\ (req[q].pc \in {"settings", "batch"} => req[q].feed \in Feed)
    OBVIOUS
  <2>2. PICK s \in Source, f \in Feed, status \in {"none", "IDLE"}, page \in Feed \cup {None} :
          AddSource(s, f, status, page)
    BY <1>5, <2>1 DEF CreateMissing
  <2>3. /\ life' = [life EXCEPT ![s] = "on"] /\ feed' = [feed EXCEPT ![s] = f]
        /\ shown' = [shown EXCEPT ![s] = status] /\ madeFor' = [madeFor EXCEPT ![s] = page]
    BY <2>2 DEF AddSource
  <2>4. req' = [req EXCEPT ![q] = IdleReq]
    BY <1>5 DEF CreateMissing, Done
  <2>5. req' \in [Req -> ReqRecord] /\ ReqsAreBacked'
    BY <2>4
  <2> QED
    BY <1>5, <2>3, <2>5 DEF CreateMissing
<1>6. ASSUME NEW q \in Req, RequestDies(q) PROVE G
  BY <1>6 DEF RequestDies, Done
<1>7. ASSUME NEW q \in Req, NEW f \in Feed, AskSettings(q, f) PROVE G
  BY <1>7 DEF AskSettings
<1>8. ASSUME NEW q \in Req, NEW f \in Feed, ResolveBatch(q, f) PROVE G
  BY <1>8 DEF ResolveBatch
<1>9. ASSUME NEW j \in Job, RunSources(j) PROVE G
  BY <1>9 DEF RunSources, CountRequest
<1>10. ASSUME NEW j \in Job, RecoverJob(j) PROVE G
  BY <1>10 DEF RecoverJob
<1>11. ASSUME NEW j \in Job, PromoteJob(j) PROVE G
  BY <1>11 DEF PromoteJob
<1>12. ASSUME NEW w \in Worker, NEW r \in Run, TimerFires(w, r) PROVE G
  BY <1>12 DEF TimerFires
<1>13. ASSUME NEW w \in Worker, NEW r \in Run, NEW j \in Job, TakeJob(w, r, j) PROVE G
  BY <1>13 DEF TakeJob
<1>14. ASSUME NEW r \in Run, List(r) PROVE G
  BY <1>14 DEF List, ListFrom, Return
<1>15. ASSUME NEW r \in Run, MarkExtension(r) PROVE G
  <2>1. PICK s \in run[r].extension : \/ /\ s \in Source /\ Stamp(s, "EXTENSION_REQUIRED")
                                      \/ UNCHANGED <<shown, orphaned>>
    BY <1>15, MarkRun
  <2>2. UNCHANGED <<life, feed, lease, req, madeFor, edited, faults, requests>>
    BY <1>15, MarkRun
  <2> QED
    BY <2>1, <2>2 DEF Stamp
<1>16. ASSUME NEW r \in Run, Start(r) PROVE G
  <2>1. \/ \E s \in Source : Stamp(s, "RUNNING")
        \/ UNCHANGED <<shown, orphaned>>
    BY <1>16, StartRun
  <2>2. UNCHANGED <<life, feed, lease, req, madeFor, edited, faults, requests>>
    BY <1>16, StartRun
  <2> QED
    BY <2>1, <2>2 DEF Stamp
<1>17. ASSUME NEW r \in Run, Settle(r) PROVE G
  <2>1. run[r].cur \in Source
    BY <1>17, NullAssumption DEF Settle, RunsAreBacked, RunRecord
  <2> QED
    BY <1>17, <2>1 DEF Settle, Stamp
<1>18. ASSUME NEW r \in Run, CollectThrows(r) PROVE G
  BY <1>18 DEF CollectThrows
<1>19. ASSUME NEW r \in Run, Fail(r) PROVE G
  <2>1. run[r].cur \in Source
    BY <1>19, NullAssumption DEF Fail, RunsAreBacked, RunRecord
  <2> QED
    BY <1>19, <2>1 DEF Fail, Stamp
<1>20. ASSUME NEW r \in Run, StatementFails(r) PROVE G
  BY <1>20 DEF StatementFails, CountFault, Orphans
<1>21. ASSUME NEW w \in Worker, WorkerDies(w) PROVE G
  <2>1. orphaned' \subseteq Source
    BY <1>21 DEF WorkerDies, Orphans
  <2> QED
    BY <1>21, <2>1 DEF WorkerDies, CountFault
<1>22. ASSUME LeaseExpires PROVE G
  BY <1>22 DEF LeaseExpires
<1>23. ASSUME UNCHANGED vars PROVE G
  BY <1>23 DEF vars
<1> QED
  BY <1>1, <1>2, <1>3, <1>4, <1>5, <1>6, <1>7, <1>8, <1>9, <1>10, <1>11, <1>12, <1>13,
     <1>14, <1>15, <1>16, <1>17, <1>18, <1>19, <1>20, <1>21, <1>22, <1>23
     DEF Next, RunStep

-----------------------------------------------------------------------------
(* A predicate of one run, when the others stay as they are. *)

Backed(r) == /\ run[r].cur # None <=> run[r].pc \in {"collect", "fail"}
             /\ run[r].pc \in {"idle", "list"} => run[r].extension = {} /\ run[r].public = {}
             /\ Timed(r) => run[r].worker \in Worker
LEMMA OnlyBacked ==
  ASSUME RunsAreBacked, NEW r \in Run, Only(r), Backed(r)' PROVE RunsAreBacked'
BY DEF RunsAreBacked, Only, Backed, Timed
LEMMA KeptBacked ==
  ASSUME RunsAreBacked, \A r \in Run : WorkKept(r) PROVE RunsAreBacked'
BY DEF RunsAreBacked, WorkKept, Timed
LEMMA OverBacked ==
  ASSUME NEW r \in Run, Over(r) PROVE Backed(r)'
BY DEF Over, Backed, Timed

Leased(r) == Timed(r) /\ ~run[r].late => lease = run[r].worker
LEMMA OnlyLeased ==
  ASSUME TimersHoldTheLease, NEW r \in Run, Only(r), UNCHANGED lease, Leased(r)'
  PROVE  TimersHoldTheLease'
BY DEF TimersHoldTheLease, Only, Leased, Timed
LEMMA OverLeased ==
  ASSUME NEW r \in Run, Over(r) PROVE Leased(r)'
BY DEF Over, Leased, Timed
LEMMA SameLeased ==
  ASSUME TimersHoldTheLease, NEW r \in Run, Same(r), run[r].pc # "idle", UNCHANGED lease
  PROVE  Leased(r)'
BY DEF TimersHoldTheLease, Same, Leased, Timed

Quiet(r) == \A s \in Holds(r) : life[s] = "off" => s \in run[r].off
LEMMA OnlyQuiet ==
  ASSUME DisabledStaysQuiet, NEW r \in Run, Only(r), UNCHANGED life, Quiet(r)'
  PROVE  DisabledStaysQuiet'
BY DEF DisabledStaysQuiet, Only, Quiet, Holds
LEMMA OverQuiet ==
  ASSUME NEW r \in Run, Over(r) PROVE Quiet(r)'
BY DEF Over, Quiet, Holds
LEMMA LessQuiet ==
  ASSUME DisabledStaysQuiet, NEW r \in Run, Same(r), UNCHANGED life,
         Holds(r)' \subseteq Holds(r)
  PROVE  Quiet(r)'
BY DEF DisabledStaysQuiet, Same, Quiet

-----------------------------------------------------------------------------
(* The parts of the invariant *)

\* Only a source that exists gets a status.
LEMMA RowsStep == IInv /\ [Next]_vars => RowsAreBacked'
<1> SUFFICES ASSUME TypeOK, RowsAreBacked, ReqsAreBacked, [Next]_vars PROVE RowsAreBacked'
  BY DEF IInv
<1> USE DEF RowsAreBacked, Exists, dbVars, historyVars
<1>1. ASSUME NEW s \in Source, Create(s) PROVE RowsAreBacked'
  BY <1>1 DEF TypeOK, Create, AddSource, CountRequest, dbVars
<1>2. ASSUME NEW s \in Source, DeleteSource(s) PROVE RowsAreBacked'
  BY <1>2 DEF TypeOK, DeleteSource, CountRequest
<1>3. ASSUME NEW s \in Source, NEW q \in Req, ReadForUpdate(q, s) PROVE RowsAreBacked'
  BY <1>3 DEF TypeOK, ReadForUpdate, CountRequest
<1>4. ASSUME NEW q \in Req, WriteUpdate(q) PROVE RowsAreBacked'
  BY <1>4 DEF TypeOK, WriteUpdate, Done
<1>5. ASSUME NEW q \in Req, CreateMissing(q) PROVE RowsAreBacked'
  BY <1>5 DEF TypeOK, CreateMissing, AddSource, Done
<1>6. ASSUME NEW q \in Req, RequestDies(q) PROVE RowsAreBacked'
  BY <1>6 DEF TypeOK, RequestDies, Done
<1>7. ASSUME NEW q \in Req, NEW f \in Feed, AskSettings(q, f) PROVE RowsAreBacked'
  BY <1>7 DEF TypeOK, AskSettings
<1>8. ASSUME NEW q \in Req, NEW f \in Feed, ResolveBatch(q, f) PROVE RowsAreBacked'
  BY <1>8 DEF TypeOK, ResolveBatch
<1>9. ASSUME NEW j \in Job, RunSources(j) PROVE RowsAreBacked'
  BY <1>9 DEF TypeOK, RunSources, CountRequest
<1>10. ASSUME NEW j \in Job, RecoverJob(j) PROVE RowsAreBacked'
  BY <1>10 DEF TypeOK, RecoverJob
<1>11. ASSUME NEW j \in Job, PromoteJob(j) PROVE RowsAreBacked'
  BY <1>11 DEF TypeOK, PromoteJob
<1>12. ASSUME NEW w \in Worker, NEW r \in Run, TimerFires(w, r) PROVE RowsAreBacked'
  BY <1>12 DEF TypeOK, TimerFires
<1>13. ASSUME NEW w \in Worker, NEW r \in Run, NEW j \in Job, TakeJob(w, r, j)
      PROVE  RowsAreBacked'
  BY <1>13 DEF TypeOK, TakeJob
<1>14. ASSUME NEW r \in Run, List(r) PROVE RowsAreBacked'
  BY <1>14 DEF TypeOK, List, ListFrom, Return
<1>15. ASSUME NEW r \in Run, MarkExtension(r) PROVE RowsAreBacked'
  <2>1. UNCHANGED <<life, feed, madeFor, edited>>
    BY <1>15 DEF MarkExtension
  <2>2. \/ \E s \in Source : Exists(s) /\ Stamp(s, "EXTENSION_REQUIRED")
        \/ UNCHANGED shown
    BY <1>15, MarkRun
  <2> QED
    BY <2>1, <2>2 DEF Stamp, TypeOK
<1>16. ASSUME NEW r \in Run, Start(r) PROVE RowsAreBacked'
  <2>1. UNCHANGED <<life, feed, madeFor, edited>>
    BY <1>16 DEF Start
  <2>2. \/ \E s \in Source : Exists(s) /\ Stamp(s, "RUNNING")
        \/ UNCHANGED shown
    BY <1>16, StartRun
  <2> QED
    BY <2>1, <2>2 DEF Stamp, TypeOK
<1>17. ASSUME NEW r \in Run, Settle(r) PROVE RowsAreBacked'
  BY <1>17 DEF TypeOK, Settle, Stamp
<1>18. ASSUME NEW r \in Run, CollectThrows(r) PROVE RowsAreBacked'
  BY <1>18 DEF TypeOK, CollectThrows
<1>19. ASSUME NEW r \in Run, Fail(r) PROVE RowsAreBacked'
  BY <1>19 DEF TypeOK, Fail, Stamp
<1>20. ASSUME NEW r \in Run, StatementFails(r) PROVE RowsAreBacked'
  BY <1>20 DEF TypeOK, StatementFails, CountFault
<1>21. ASSUME NEW w \in Worker, WorkerDies(w) PROVE RowsAreBacked'
  BY <1>21 DEF TypeOK, WorkerDies, CountFault
<1>22. ASSUME LeaseExpires PROVE RowsAreBacked'
  BY <1>22 DEF TypeOK, LeaseExpires
<1>23. ASSUME UNCHANGED vars PROVE RowsAreBacked'
  BY <1>23 DEF vars
<1> QED
  BY <1>1, <1>2, <1>3, <1>4, <1>5, <1>6, <1>7, <1>8, <1>9, <1>10, <1>11, <1>12, <1>13,
     <1>14, <1>15, <1>16, <1>17, <1>18, <1>19, <1>20, <1>21, <1>22, <1>23
     DEF Next, RunStep

LEMMA RunsStep == IInv /\ [Next]_vars => RunsAreBacked'
<1> SUFFICES ASSUME TypeOK, RunsAreBacked, ReqsAreBacked, [Next]_vars PROVE RunsAreBacked'
  BY DEF IInv
<1>0. ASSUME UNCHANGED run PROVE RunsAreBacked'
  BY <1>0, KeptBacked DEF WorkKept
<1> USE NullAssumption
<1>1. ASSUME NEW s \in Source, Create(s) PROVE RunsAreBacked'
  BY <1>0, <1>1 DEF Create, AddSource, CountRequest, dbVars
<1>2. ASSUME NEW s \in Source, DeleteSource(s) PROVE RunsAreBacked'
  BY <1>0, <1>2 DEF DeleteSource, CountRequest
<1>3. ASSUME NEW s \in Source, NEW q \in Req, ReadForUpdate(q, s) PROVE RunsAreBacked'
  BY <1>0, <1>3 DEF ReadForUpdate, CountRequest
<1>4. ASSUME NEW q \in Req, WriteUpdate(q) PROVE RunsAreBacked'
  <2>1. req[q].src \in Source /\ req[q].enabled \in BOOLEAN
    BY <1>4 DEF WriteUpdate, ReqsAreBacked, TypeOK, ReqRecord
  <2>2. run' = run \/ run' = Noted(req[q].src, req[q].enabled)
    BY <1>4 DEF WriteUpdate
  <2> QED
    BY <1>0, <2>1, <2>2, UpdatedRuns, KeptBacked
<1>5. ASSUME NEW q \in Req, CreateMissing(q) PROVE RunsAreBacked'
  BY <1>0, <1>5 DEF CreateMissing, AddSource, Done
<1>6. ASSUME NEW q \in Req, RequestDies(q) PROVE RunsAreBacked'
  BY <1>0, <1>6 DEF RequestDies, Done
<1>7. ASSUME NEW q \in Req, NEW f \in Feed, AskSettings(q, f) PROVE RunsAreBacked'
  BY <1>0, <1>7 DEF AskSettings
<1>8. ASSUME NEW q \in Req, NEW f \in Feed, ResolveBatch(q, f) PROVE RunsAreBacked'
  BY <1>0, <1>8 DEF ResolveBatch
<1>9. ASSUME NEW j \in Job, RunSources(j) PROVE RunsAreBacked'
  BY <1>0, <1>9 DEF RunSources, CountRequest
<1>10. ASSUME NEW j \in Job, RecoverJob(j) PROVE RunsAreBacked'
  BY <1>0, <1>10 DEF RecoverJob
<1>11. ASSUME NEW j \in Job, PromoteJob(j) PROVE RunsAreBacked'
  BY <1>0, <1>11 DEF PromoteJob
<1>12. ASSUME NEW w \in Worker, NEW r \in Run, TimerFires(w, r) PROVE RunsAreBacked'
  <2>1. Begin(w, r, None)
    BY <1>12 DEF TimerFires
  <2> QED
    BY <2>1, BeginRun, OnlyBacked DEF Backed
<1>13. ASSUME NEW w \in Worker, NEW r \in Run, NEW j \in Job, TakeJob(w, r, j)
      PROVE  RunsAreBacked'
  <2>1. Begin(w, r, j)
    BY <1>13 DEF TakeJob
  <2> QED
    BY <2>1, BeginRun, OnlyBacked DEF Backed
<1>14. ASSUME NEW r \in Run, List(r) PROVE RunsAreBacked'
  <2>1. Backed(r)'
    BY <1>14, ListRun, OverBacked DEF Backed, Same, Timed, RunsAreBacked
  <2> QED
    BY <1>14, <2>1, ListRun, OnlyBacked
<1>15. ASSUME NEW r \in Run, MarkExtension(r) PROVE RunsAreBacked'
  <2>1. Backed(r)'
    BY <1>15, MarkRun, OverBacked DEF Backed, Same, Timed, RunsAreBacked
  <2> QED
    BY <1>15, <2>1, MarkRun, OnlyBacked
<1>16. ASSUME NEW r \in Run, Start(r) PROVE RunsAreBacked'
  <2>1. Backed(r)'
    BY <1>16, StartRun, OverBacked DEF Backed, Same, Timed, RunsAreBacked
  <2> QED
    BY <1>16, <2>1, StartRun, OnlyBacked
<1>17. ASSUME NEW r \in Run, Settle(r) PROVE RunsAreBacked'
  <2>1. Backed(r)'
    BY <1>17, SettleRun DEF Backed, Same, Timed, RunsAreBacked
  <2> QED
    BY <1>17, <2>1, SettleRun, OnlyBacked
<1>18. ASSUME NEW r \in Run, CollectThrows(r) PROVE RunsAreBacked'
  <2>1. Backed(r)'
    BY <1>18, ThrowRun DEF Backed, Same, Timed, RunsAreBacked
  <2> QED
    BY <1>18, <2>1, ThrowRun, OnlyBacked
<1>19. ASSUME NEW r \in Run, Fail(r) PROVE RunsAreBacked'
  <2>1. Backed(r)'
    BY <1>19, FailRun, OverBacked DEF Backed, Same, Timed, RunsAreBacked
  <2> QED
    BY <1>19, <2>1, FailRun, OnlyBacked
<1>20. ASSUME NEW r \in Run, StatementFails(r) PROVE RunsAreBacked'
  BY <1>20, AbortRun, OverBacked, OnlyBacked DEF StatementFails
<1>21. ASSUME NEW w \in Worker, WorkerDies(w) PROVE RunsAreBacked'
  <2>1. \A r \in Run : Over(r) \/ run'[r] = run[r]
    BY <1>21, LostRuns DEF WorkerDies
  <2> QED
    BY <2>1 DEF RunsAreBacked, Over, Timed
<1>22. ASSUME LeaseExpires PROVE RunsAreBacked'
  BY <1>22, LateRuns, KeptBacked DEF LeaseExpires
<1>23. ASSUME UNCHANGED vars PROVE RunsAreBacked'
  BY <1>0, <1>23 DEF vars
<1> QED
  BY <1>1, <1>2, <1>3, <1>4, <1>5, <1>6, <1>7, <1>8, <1>9, <1>10, <1>11, <1>12, <1>13,
     <1>14, <1>15, <1>16, <1>17, <1>18, <1>19, <1>20, <1>21, <1>22, <1>23
     DEF Next, RunStep

\* A status RUNNING comes with a collection and goes with it, or the source
\* is orphaned.
LEMMA HonestStep == IInv /\ [Next]_vars => RunningIsHonest'
<1> SUFFICES ASSUME TypeOK, RunsAreBacked, ReqsAreBacked, RowsAreBacked, RunningIsHonest,
                    [Next]_vars
             PROVE  RunningIsHonest'
  BY DEF IInv
<1>0. ASSUME UNCHANGED <<run, shown, orphaned>> PROVE RunningIsHonest'
  BY <1>0 DEF RunningIsHonest, Collecting
<1>a. ASSUME \A r \in Run : WorkKept(r), \A s \in Source : shown'[s] = "RUNNING" =>
               shown[s] = "RUNNING" /\ (s \in orphaned => s \in orphaned')
      PROVE  RunningIsHonest'
  BY <1>a DEF RunningIsHonest, Collecting, WorkKept
<1>b. ASSUME NEW r \in Run, Only(r), run[r].cur = None,
             \A s \in Source : shown'[s] = "RUNNING" =>
               shown[s] = "RUNNING" /\ (s \in orphaned => s \in orphaned')
      PROVE  RunningIsHonest'
  <2>1. \A s \in Source : ~Collecting(r, s)
    BY <1>b, NullAssumption DEF Collecting
  <2> QED
    BY <1>b, <2>1 DEF RunningIsHonest, Collecting, Only
<1>c. ASSUME NEW r \in Run, Only(r), run[r].cur # None, shown'[run[r].cur] # "RUNNING",
             \A s \in Source : shown'[s] = "RUNNING" =>
               shown[s] = "RUNNING" /\ (s \in orphaned => s \in orphaned')
      PROVE  RunningIsHonest'
  BY <1>c DEF RunningIsHonest, Collecting, Only
<1>d. \A r \in Run : run[r].cur \in Source \cup {None} /\ run[r].extension \subseteq Source
  BY DEF TypeOK, RunRecord
<1> USE DEF dbVars, historyVars
<1>1. ASSUME NEW s \in Source, Create(s) PROVE RunningIsHonest'
  <2>1. \A x \in Source : shown'[x] = "RUNNING" =>
          shown[x] = "RUNNING" /\ (x \in orphaned => x \in orphaned')
    BY <1>1 DEF Create, AddSource, CountRequest, dbVars, TypeOK
  <2> QED
    BY <1>1, <2>1, <1>a DEF Create, WorkKept
<1>2. ASSUME NEW s \in Source, DeleteSource(s) PROVE RunningIsHonest'
  <2>1. \A x \in Source : shown'[x] = "RUNNING" =>
          shown[x] = "RUNNING" /\ (x \in orphaned => x \in orphaned')
    BY <1>2 DEF DeleteSource, CountRequest, TypeOK
  <2> QED
    BY <1>2, <2>1, <1>a DEF DeleteSource, WorkKept
<1>3. ASSUME NEW s \in Source, NEW q \in Req, ReadForUpdate(q, s) PROVE RunningIsHonest'
  BY <1>0, <1>3 DEF ReadForUpdate, CountRequest
<1>4. ASSUME NEW q \in Req, WriteUpdate(q) PROVE RunningIsHonest'
  <2>1. \A x \in Source : shown'[x] = "RUNNING" =>
          shown[x] = "RUNNING" /\ (x \in orphaned => x \in orphaned')
    BY <1>4 DEF WriteUpdate, Done, TypeOK
  <2>2. req[q].src \in Source /\ req[q].enabled \in BOOLEAN
    BY <1>4 DEF WriteUpdate, ReqsAreBacked, TypeOK, ReqRecord
  <2>3. run' = run \/ run' = Noted(req[q].src, req[q].enabled)
    BY <1>4 DEF WriteUpdate
  <2>4. \A r \in Run : WorkKept(r)
    BY <2>2, <2>3, UpdatedRuns DEF WorkKept
  <2> QED
    BY <2>1, <2>4, <1>a
<1>5. ASSUME NEW q \in Req, CreateMissing(q) PROVE RunningIsHonest'
  <2>1. \A x \in Source : shown'[x] = "RUNNING" =>
          shown[x] = "RUNNING" /\ (x \in orphaned => x \in orphaned')
    BY <1>5 DEF CreateMissing, AddSource, Done, TypeOK
  <2> QED
    BY <1>5, <2>1, <1>a DEF CreateMissing, WorkKept
<1>6. ASSUME NEW q \in Req, RequestDies(q) PROVE RunningIsHonest'
  BY <1>0, <1>6 DEF RequestDies, Done
<1>7. ASSUME NEW q \in Req, NEW f \in Feed, AskSettings(q, f) PROVE RunningIsHonest'
  BY <1>0, <1>7 DEF AskSettings
<1>8. ASSUME NEW q \in Req, NEW f \in Feed, ResolveBatch(q, f) PROVE RunningIsHonest'
  BY <1>0, <1>8 DEF ResolveBatch
<1>9. ASSUME NEW j \in Job, RunSources(j) PROVE RunningIsHonest'
  BY <1>0, <1>9 DEF RunSources, CountRequest
<1>10. ASSUME NEW j \in Job, RecoverJob(j) PROVE RunningIsHonest'
  BY <1>0, <1>10 DEF RecoverJob
<1>11. ASSUME NEW j \in Job, PromoteJob(j) PROVE RunningIsHonest'
  BY <1>0, <1>11 DEF PromoteJob
<1>12. ASSUME NEW w \in Worker, NEW r \in Run, TimerFires(w, r) PROVE RunningIsHonest'
  <2>1. Begin(w, r, None) /\ UNCHANGED <<shown, orphaned>>
    BY <1>12 DEF TimerFires
  <2>2. run[r].cur = None /\ Only(r)
    BY <2>1, BeginRun DEF RunsAreBacked
  <2> QED
    BY <2>1, <2>2, <1>b
<1>13. ASSUME NEW w \in Worker, NEW r \in Run, NEW j \in Job, TakeJob(w, r, j)
      PROVE  RunningIsHonest'
  <2>1. Begin(w, r, j) /\ UNCHANGED <<shown, orphaned>>
    BY <1>13 DEF TakeJob
  <2>2. run[r].cur = None /\ Only(r)
    BY <2>1, BeginRun DEF RunsAreBacked
  <2> QED
    BY <2>1, <2>2, <1>b
<1>14. ASSUME NEW r \in Run, List(r) PROVE RunningIsHonest'
  <2>1. run[r].cur = None /\ Only(r) /\ UNCHANGED <<shown, orphaned>>
    BY <1>14, ListRun DEF RunsAreBacked
  <2> QED
    BY <2>1, <1>b
<1>15. ASSUME NEW r \in Run, MarkExtension(r) PROVE RunningIsHonest'
  <2>1. run[r].cur = None /\ Only(r)
    BY <1>15, MarkRun DEF RunsAreBacked
  <2>2. \/ \E s \in Source : Stamp(s, "EXTENSION_REQUIRED")
        \/ UNCHANGED <<shown, orphaned>>
    BY <1>15, MarkRun
  <2>3. \A s \in Source : shown'[s] = "RUNNING" =>
          shown[s] = "RUNNING" /\ (s \in orphaned => s \in orphaned')
    BY <2>2 DEF Stamp, TypeOK
  <2> QED
    BY <2>1, <2>3, <1>b
<1>16. ASSUME NEW r \in Run, Start(r) PROVE RunningIsHonest'
  <2>1. run[r].cur = None /\ Only(r)
    BY <1>16, StartRun DEF RunsAreBacked
  <2>2. CASE UNCHANGED <<shown, orphaned>>
    BY <2>1, <2>2, <1>b
  <2>3. ASSUME NEW s \in Source, Stamp(s, "RUNNING"),
               run'[r].pc = "collect", run'[r].cur = s
        PROVE  RunningIsHonest'
    <3>1. Collecting(r, s)'
      BY <2>3 DEF Collecting
    <3>2. \A x \in Source \ {s} : shown'[x] = "RUNNING" =>
            x \in orphaned' \/ \E p \in Run : Collecting(p, x)'
      <4>1. \A x \in Source \ {s} : shown'[x] = shown[x] /\ (x \in orphaned => x \in orphaned')
        BY <2>3 DEF Stamp, TypeOK
      <4>2. \A x \in Source, p \in Run : Collecting(p, x) => p # r /\ Collecting(p, x)'
        BY <2>1, NullAssumption DEF Collecting, Only
      <4> QED
        BY <4>1, <4>2 DEF RunningIsHonest
    <3> QED
      BY <3>1, <3>2 DEF RunningIsHonest
  <2> QED
    BY <1>16, <2>2, <2>3, StartRun
<1>17. ASSUME NEW r \in Run, Settle(r) PROVE RunningIsHonest'
  <2>1. run[r].cur # None /\ Only(r)
    BY <1>17, SettleRun DEF RunsAreBacked
  <2>2. PICK result \in {"DONE", "PARTIAL"} : Stamp(run[r].cur, result)
    BY <1>17, SettleRun
  <2>3. /\ shown'[run[r].cur] # "RUNNING"
        /\ \A s \in Source : shown'[s] = "RUNNING" =>
             shown[s] = "RUNNING" /\ (s \in orphaned => s \in orphaned')
    BY <1>d, <2>1, <2>2 DEF Stamp, TypeOK
  <2> QED
    BY <2>1, <2>3, <1>c
<1>18. ASSUME NEW r \in Run, CollectThrows(r) PROVE RunningIsHonest'
  <2>1. UNCHANGED <<shown, orphaned>>
    BY <1>18 DEF CollectThrows
  <2>2. /\ Only(r) /\ run[r].pc = "collect"
        /\ run'[r].pc = "fail" /\ run'[r].cur = run[r].cur
    BY <1>18, ThrowRun
  <2>3. ASSUME NEW x \in Source, NEW p \in Run, Collecting(p, x) PROVE Collecting(p, x)'
    <3>1. CASE p = r
      BY <2>2, <2>3, <3>1 DEF Collecting
    <3>2. CASE p # r
      BY <2>2, <2>3, <3>2 DEF Collecting, Only
    <3> QED
      BY <3>1, <3>2
  <2> QED
    BY <2>1, <2>3 DEF RunningIsHonest
<1>19. ASSUME NEW r \in Run, Fail(r) PROVE RunningIsHonest'
  <2>1. run[r].cur # None /\ Only(r)
    BY <1>19, FailRun DEF RunsAreBacked
  <2>2. CASE Stamp(run[r].cur, "FAILED")
    <3>1. /\ shown'[run[r].cur] # "RUNNING"
          /\ \A s \in Source : shown'[s] = "RUNNING" =>
               shown[s] = "RUNNING" /\ (s \in orphaned => s \in orphaned')
      BY <1>d, <2>1, <2>2 DEF Stamp, TypeOK
    <3> QED
      BY <2>1, <3>1, <1>c
  <2>3. CASE ~Exists(run[r].cur) /\ UNCHANGED <<shown, orphaned>>
    <3>1. shown'[run[r].cur] # "RUNNING"
      BY <1>d, <2>1, <2>3 DEF RowsAreBacked
    <3> QED
      BY <2>1, <2>3, <3>1, <1>c
  <2> QED
    BY <1>19, <2>2, <2>3, FailRun
<1>20. ASSUME NEW r \in Run, StatementFails(r) PROVE RunningIsHonest'
  <2>1. Only(r) /\ UNCHANGED shown /\ orphaned' = orphaned \cup Orphans(r)
    BY <1>20, AbortRun DEF StatementFails
  <2>2. ASSUME NEW x \in Source, NEW p \in Run, Collecting(p, x)
        PROVE  Collecting(p, x)' \/ (p = r /\ run[r].cur = x)
    <3>1. CASE p = r
      BY <2>2, <3>1 DEF Collecting
    <3>2. CASE p # r
      BY <2>1, <2>2, <3>2 DEF Collecting, Only
    <3> QED
      BY <3>1, <3>2
  <2> QED
    BY <2>1, <2>2 DEF RunningIsHonest, Orphans
<1>21. ASSUME NEW w \in Worker, WorkerDies(w) PROVE RunningIsHonest'
  <2> DEFINE lost == {p \in Run : run[p].worker = w}
  <2>1. UNCHANGED shown /\ orphaned' = orphaned \cup UNION {Orphans(r) : r \in lost}
    BY <1>21 DEF WorkerDies
  <2>2. \A r \in Run : r \in lost \/ run'[r] = run[r]
    BY <1>21, LostRuns DEF WorkerDies
  <2> HIDE DEF lost
  <2>3. ASSUME NEW s \in Source, shown'[s] = "RUNNING"
        PROVE  s \in orphaned' \/ \E r \in Run : Collecting(r, s)'
    <3>1. CASE s \in orphaned
      BY <2>1, <3>1
    <3>2. CASE s \notin orphaned
      <4>1. PICK r \in Run : Collecting(r, s)
        BY <2>1, <2>3, <3>2 DEF RunningIsHonest
      <4>2. CASE run'[r] = run[r]
        BY <4>1, <4>2 DEF Collecting
      <4>3. CASE r \in lost
        <5>1. s \in Orphans(r)
          BY <2>1, <2>3, <4>1 DEF Collecting, Orphans
        <5> QED
          BY <2>1, <4>3, <5>1
      <4> QED
        BY <2>2, <4>2, <4>3
    <3> QED
      BY <3>1, <3>2
  <2> QED
    BY <2>3 DEF RunningIsHonest
<1>22. ASSUME LeaseExpires PROVE RunningIsHonest'
  <2>1. UNCHANGED <<shown, orphaned>> /\ \A r \in Run : WorkKept(r)
    BY <1>22, LateRuns DEF LeaseExpires
  <2> QED
    BY <2>1, <1>a
<1>23. ASSUME UNCHANGED vars PROVE RunningIsHonest'
  BY <1>0, <1>23 DEF vars
<1> QED
  BY <1>1, <1>2, <1>3, <1>4, <1>5, <1>6, <1>7, <1>8, <1>9, <1>10, <1>11, <1>12, <1>13,
     <1>14, <1>15, <1>16, <1>17, <1>18, <1>19, <1>20, <1>21, <1>22, <1>23
     DEF Next, RunStep

\* A timer's run starts under the lease, which is its worker's until it
\* expires.
LEMMA LeaseStep == IInv /\ [Next]_vars => TimersHoldTheLease'
<1> SUFFICES ASSUME TypeOK, RunsAreBacked, ReqsAreBacked, TimersHoldTheLease, [Next]_vars
             PROVE  TimersHoldTheLease'
  BY DEF IInv
<1>0. ASSUME UNCHANGED <<run, lease>> PROVE TimersHoldTheLease'
  BY <1>0 DEF TimersHoldTheLease, Timed
<1> USE DEF dbVars, historyVars
<1>1. ASSUME NEW s \in Source, Create(s) PROVE TimersHoldTheLease'
  BY <1>0, <1>1 DEF Create, AddSource, CountRequest, dbVars
<1>2. ASSUME NEW s \in Source, DeleteSource(s) PROVE TimersHoldTheLease'
  BY <1>0, <1>2 DEF DeleteSource, CountRequest
<1>3. ASSUME NEW s \in Source, NEW q \in Req, ReadForUpdate(q, s) PROVE TimersHoldTheLease'
  BY <1>0, <1>3 DEF ReadForUpdate, CountRequest
<1>4. ASSUME NEW q \in Req, WriteUpdate(q) PROVE TimersHoldTheLease'
  <2>1. req[q].src \in Source /\ req[q].enabled \in BOOLEAN
    BY <1>4 DEF WriteUpdate, ReqsAreBacked, TypeOK, ReqRecord
  <2>2. UNCHANGED lease /\ (run' = run \/ run' = Noted(req[q].src, req[q].enabled))
    BY <1>4 DEF WriteUpdate
  <2>3. \A r \in Run : WorkKept(r) /\ run'[r].late = run[r].late
    BY <2>1, <2>2, UpdatedRuns DEF WorkKept
  <2> QED
    BY <2>2, <2>3 DEF TimersHoldTheLease, Timed, WorkKept
<1>5. ASSUME NEW q \in Req, CreateMissing(q) PROVE TimersHoldTheLease'
  BY <1>0, <1>5 DEF CreateMissing, AddSource, Done
<1>6. ASSUME NEW q \in Req, RequestDies(q) PROVE TimersHoldTheLease'
  BY <1>0, <1>6 DEF RequestDies, Done
<1>7. ASSUME NEW q \in Req, NEW f \in Feed, AskSettings(q, f) PROVE TimersHoldTheLease'
  BY <1>0, <1>7 DEF AskSettings
<1>8. ASSUME NEW q \in Req, NEW f \in Feed, ResolveBatch(q, f) PROVE TimersHoldTheLease'
  BY <1>0, <1>8 DEF ResolveBatch
<1>9. ASSUME NEW j \in Job, RunSources(j) PROVE TimersHoldTheLease'
  BY <1>0, <1>9 DEF RunSources, CountRequest
<1>10. ASSUME NEW j \in Job, RecoverJob(j) PROVE TimersHoldTheLease'
  BY <1>0, <1>10 DEF RecoverJob
<1>11. ASSUME NEW j \in Job, PromoteJob(j) PROVE TimersHoldTheLease'
  BY <1>0, <1>11 DEF PromoteJob
<1>12. ASSUME NEW w \in Worker, NEW r \in Run, TimerFires(w, r) PROVE TimersHoldTheLease'
  <2>1. Begin(w, r, None) /\ lease \in {None, w} /\ lease' = w
    BY <1>12 DEF TimerFires
  <2>2. Only(r) /\ run'[r].worker = w
    BY <2>1, BeginRun
  <2>3. \A p \in Run : Timed(p) /\ ~run[p].late => run[p].worker = w
    BY <2>1, NullAssumption DEF TimersHoldTheLease, RunsAreBacked
  <2> QED
    BY <2>1, <2>2, <2>3 DEF TimersHoldTheLease, Timed, Only
<1>13. ASSUME NEW w \in Worker, NEW r \in Run, NEW j \in Job, TakeJob(w, r, j)
      PROVE  TimersHoldTheLease'
  <2>1. Begin(w, r, j) /\ UNCHANGED lease
    BY <1>13 DEF TakeJob
  <2>2. Only(r) /\ run'[r].job = j
    BY <2>1, BeginRun
  <2> QED
    BY <2>1, <2>2, NullAssumption, OnlyLeased DEF Leased, Timed
<1>14. ASSUME NEW r \in Run, List(r) PROVE TimersHoldTheLease'
  <2>1. Only(r) /\ UNCHANGED lease /\ (Over(r) \/ (Same(r) /\ run[r].pc # "idle"))
    BY <1>14, ListRun
  <2> QED
    BY <2>1, OverLeased, SameLeased, OnlyLeased
<1>15. ASSUME NEW r \in Run, MarkExtension(r) PROVE TimersHoldTheLease'
  <2>1. Only(r) /\ UNCHANGED lease /\ (Over(r) \/ (Same(r) /\ run[r].pc # "idle"))
    BY <1>15, MarkRun
  <2> QED
    BY <2>1, OverLeased, SameLeased, OnlyLeased
<1>16. ASSUME NEW r \in Run, Start(r) PROVE TimersHoldTheLease'
  <2>1. Only(r) /\ UNCHANGED lease /\ (Over(r) \/ (Same(r) /\ run[r].pc # "idle"))
    BY <1>16, StartRun
  <2> QED
    BY <2>1, OverLeased, SameLeased, OnlyLeased
<1>17. ASSUME NEW r \in Run, Settle(r) PROVE TimersHoldTheLease'
  <2>1. Only(r) /\ UNCHANGED lease /\ (Over(r) \/ (Same(r) /\ run[r].pc # "idle"))
    BY <1>17, SettleRun
  <2> QED
    BY <2>1, OverLeased, SameLeased, OnlyLeased
<1>18. ASSUME NEW r \in Run, CollectThrows(r) PROVE TimersHoldTheLease'
  <2>1. Only(r) /\ UNCHANGED lease /\ (Over(r) \/ (Same(r) /\ run[r].pc # "idle"))
    BY <1>18, ThrowRun
  <2> QED
    BY <2>1, OverLeased, SameLeased, OnlyLeased
<1>19. ASSUME NEW r \in Run, Fail(r) PROVE TimersHoldTheLease'
  <2>1. Only(r) /\ UNCHANGED lease /\ (Over(r) \/ (Same(r) /\ run[r].pc # "idle"))
    BY <1>19, FailRun
  <2> QED
    BY <2>1, OverLeased, SameLeased, OnlyLeased
<1>20. ASSUME NEW r \in Run, StatementFails(r) PROVE TimersHoldTheLease'
  BY <1>20, AbortRun, OverLeased, OnlyLeased DEF StatementFails
<1>21. ASSUME NEW w \in Worker, WorkerDies(w) PROVE TimersHoldTheLease'
  <2>1. UNCHANGED lease /\ \A r \in Run : Over(r) \/ run'[r] = run[r]
    BY <1>21, LostRuns DEF WorkerDies
  <2> QED
    BY <2>1 DEF TimersHoldTheLease, Over, Timed
<1>22. ASSUME LeaseExpires PROVE TimersHoldTheLease'
  <2>1. \A r \in Run : WorkKept(r) /\ (Timed(r) => run'[r].late)
    BY <1>22, LateRuns DEF LeaseExpires
  <2> QED
    BY <2>1 DEF TimersHoldTheLease, Timed, WorkKept
<1>23. ASSUME UNCHANGED vars PROVE TimersHoldTheLease'
  BY <1>0, <1>23 DEF vars
<1> QED
  BY <1>1, <1>2, <1>3, <1>4, <1>5, <1>6, <1>7, <1>8, <1>9, <1>10, <1>11, <1>12, <1>13,
     <1>14, <1>15, <1>16, <1>17, <1>18, <1>19, <1>20, <1>21, <1>22, <1>23
     DEF Next, RunStep

\* A collection lists enabled sources only, and hears of those that are
\* disabled after.
LEMMA QuietStep == IInv /\ [Next]_vars => DisabledStaysQuiet'
<1> SUFFICES ASSUME TypeOK, RunsAreBacked, ReqsAreBacked, DisabledStaysQuiet, [Next]_vars
             PROVE  DisabledStaysQuiet'
  BY DEF IInv
<1>h. ASSUME NEW r \in Run PROVE Holds(r) \subseteq Source
  <2>1. run[r] \in RunRecord
    BY DEF TypeOK
  <2> QED
    BY <2>1 DEF RunRecord, Holds
<1>0. ASSUME UNCHANGED run,
             \A s \in Source : life'[s] = "off" => life[s] = "off"
      PROVE  DisabledStaysQuiet'
  <2>1. \A r \in Run : Holds(r)' = Holds(r)
    BY <1>0 DEF Holds
  <2> QED
    BY <1>h, <1>0, <2>1 DEF DisabledStaysQuiet
<1> USE DEF dbVars, historyVars
<1>1. ASSUME NEW s \in Source, Create(s) PROVE DisabledStaysQuiet'
  BY <1>0, <1>1 DEF Create, AddSource, CountRequest, dbVars, TypeOK
<1>2. ASSUME NEW s \in Source, DeleteSource(s) PROVE DisabledStaysQuiet'
  BY <1>0, <1>2 DEF DeleteSource, CountRequest, TypeOK
<1>3. ASSUME NEW s \in Source, NEW q \in Req, ReadForUpdate(q, s) PROVE DisabledStaysQuiet'
  BY <1>0, <1>3 DEF ReadForUpdate, CountRequest, TypeOK
<1>4. ASSUME NEW q \in Req, WriteUpdate(q) PROVE DisabledStaysQuiet'
  <2>1. req[q].src \in Source /\ req[q].enabled \in BOOLEAN
    BY <1>4 DEF WriteUpdate, ReqsAreBacked, TypeOK, ReqRecord
  <2>2. CASE UNCHANGED <<life, run>>
    BY <1>0, <2>2
  <2>3. CASE /\ life' = [life EXCEPT ![req[q].src] = IF req[q].enabled THEN "on" ELSE "off"]
             /\ run' = Noted(req[q].src, req[q].enabled)
    <3>1. \A r \in Run : /\ WorkKept(r) /\ run[r].off \subseteq run'[r].off
                         /\ req[q].src \in Holds(r) /\ ~req[q].enabled
                              => req[q].src \in run'[r].off
      BY <2>1, <2>3, UpdatedRuns
    <3>2. \A r \in Run : Holds(r)' = Holds(r)
      BY <3>1 DEF WorkKept, Holds
    <3>3. ASSUME NEW s \in Source, life'[s] = "off"
          PROVE  life[s] = "off" \/ (s = req[q].src /\ ~req[q].enabled)
      <4>1. life \in [Source -> {"unborn", "on", "off", "gone"}]
        BY DEF TypeOK
      <4>2. CASE s = req[q].src
        BY <2>3, <3>3, <4>1, <4>2
      <4>3. CASE s # req[q].src
        BY <2>3, <3>3, <4>1, <4>3
      <4> QED
        BY <4>2, <4>3
    <3> QED
      BY <1>h, <3>1, <3>2, <3>3 DEF DisabledStaysQuiet
  <2> QED
    BY <1>4, <2>2, <2>3 DEF WriteUpdate
<1>5. ASSUME NEW q \in Req, CreateMissing(q) PROVE DisabledStaysQuiet'
  BY <1>0, <1>5 DEF CreateMissing, AddSource, Done, TypeOK
<1>6. ASSUME NEW q \in Req, RequestDies(q) PROVE DisabledStaysQuiet'
  BY <1>0, <1>6 DEF RequestDies, Done, TypeOK
<1>7. ASSUME NEW q \in Req, NEW f \in Feed, AskSettings(q, f) PROVE DisabledStaysQuiet'
  BY <1>0, <1>7 DEF AskSettings, TypeOK
<1>8. ASSUME NEW q \in Req, NEW f \in Feed, ResolveBatch(q, f) PROVE DisabledStaysQuiet'
  BY <1>0, <1>8 DEF ResolveBatch, TypeOK
<1>9. ASSUME NEW j \in Job, RunSources(j) PROVE DisabledStaysQuiet'
  BY <1>0, <1>9 DEF RunSources, CountRequest, TypeOK
<1>10. ASSUME NEW j \in Job, RecoverJob(j) PROVE DisabledStaysQuiet'
  BY <1>0, <1>10 DEF RecoverJob, TypeOK
<1>11. ASSUME NEW j \in Job, PromoteJob(j) PROVE DisabledStaysQuiet'
  BY <1>0, <1>11 DEF PromoteJob, TypeOK
<1>12. ASSUME NEW w \in Worker, NEW r \in Run, TimerFires(w, r) PROVE DisabledStaysQuiet'
  <2>1. Begin(w, r, None) /\ UNCHANGED life
    BY <1>12 DEF TimerFires
  <2> QED
    BY <2>1, BeginRun, OnlyQuiet DEF Quiet, Holds
<1>13. ASSUME NEW w \in Worker, NEW r \in Run, NEW j \in Job, TakeJob(w, r, j)
      PROVE  DisabledStaysQuiet'
  <2>1. Begin(w, r, j) /\ UNCHANGED life
    BY <1>13 DEF TakeJob
  <2> QED
    BY <2>1, BeginRun, OnlyQuiet DEF Quiet, Holds
<1>14. ASSUME NEW r \in Run, List(r) PROVE DisabledStaysQuiet'
  <2>1. Only(r) /\ UNCHANGED life /\ run[r].cur = None
    BY <1>14, ListRun DEF RunsAreBacked
  <2>2. Quiet(r)'
    BY <1>14, <2>1, ListRun, OverQuiet DEF Quiet, Holds
  <2> QED
    BY <2>1, <2>2, OnlyQuiet
<1>15. ASSUME NEW r \in Run, MarkExtension(r) PROVE DisabledStaysQuiet'
  <2>1. Only(r) /\ UNCHANGED life
    BY <1>15, MarkRun
  <2>2. CASE Over(r)
    BY <2>1, <2>2, OverQuiet, OnlyQuiet
  <2>3. ASSUME Same(r), run'[r].extension \subseteq run[r].extension,
               run'[r].public \subseteq run[r].public,
               run'[r].cur = run[r].cur
        PROVE  DisabledStaysQuiet'
    <3>1. Holds(r)' \subseteq Holds(r)
      BY <2>3 DEF Holds
    <3> QED
      BY <2>1, <2>3, <3>1, LessQuiet, OnlyQuiet
  <2> QED
    BY <1>15, <2>2, <2>3, MarkRun
<1>16. ASSUME NEW r \in Run, Start(r) PROVE DisabledStaysQuiet'
  <2>1. Only(r) /\ UNCHANGED life
    BY <1>16, StartRun
  <2>2. CASE Over(r)
    BY <2>1, <2>2, OverQuiet, OnlyQuiet
  <2>3. ASSUME Same(r), run'[r].extension \subseteq run[r].extension,
               run'[r].public \subseteq run[r].public,
               run'[r].cur \in run[r].public
        PROVE  DisabledStaysQuiet'
    <3>1. Holds(r)' \subseteq Holds(r)
      BY <2>3 DEF Holds
    <3> QED
      BY <2>1, <2>3, <3>1, LessQuiet, OnlyQuiet
  <2> QED
    BY <1>16, <2>2, <2>3, StartRun
<1>17. ASSUME NEW r \in Run, Settle(r) PROVE DisabledStaysQuiet'
  <2>1. Only(r) /\ UNCHANGED life /\ (Over(r) \/ (Same(r) /\ Holds(r)' \subseteq Holds(r)))
    BY <1>17, SettleRun DEF Holds
  <2> QED
    BY <2>1, OverQuiet, LessQuiet, OnlyQuiet
<1>18. ASSUME NEW r \in Run, CollectThrows(r) PROVE DisabledStaysQuiet'
  <2>1. Only(r) /\ UNCHANGED life /\ (Over(r) \/ (Same(r) /\ Holds(r)' \subseteq Holds(r)))
    BY <1>18, ThrowRun DEF Holds
  <2> QED
    BY <2>1, OverQuiet, LessQuiet, OnlyQuiet
<1>19. ASSUME NEW r \in Run, Fail(r) PROVE DisabledStaysQuiet'
  <2>1. Only(r) /\ UNCHANGED life
    BY <1>19, FailRun
  <2>2. CASE Over(r)
    BY <2>1, <2>2, OverQuiet, OnlyQuiet
  <2>3. ASSUME Same(r), run'[r].extension \subseteq run[r].extension,
               run'[r].public \subseteq run[r].public,
               run'[r].cur = None
        PROVE  DisabledStaysQuiet'
    <3>1. Holds(r)' \subseteq Holds(r)
      BY <2>3 DEF Holds
    <3> QED
      BY <2>1, <2>3, <3>1, LessQuiet, OnlyQuiet
  <2> QED
    BY <1>19, <2>2, <2>3, FailRun
<1>20. ASSUME NEW r \in Run, StatementFails(r) PROVE DisabledStaysQuiet'
  BY <1>20, AbortRun, OverQuiet, OnlyQuiet DEF StatementFails
<1>21. ASSUME NEW w \in Worker, WorkerDies(w) PROVE DisabledStaysQuiet'
  <2>1. UNCHANGED life /\ \A r \in Run : Over(r) \/ run'[r] = run[r]
    BY <1>21, LostRuns DEF WorkerDies
  <2> QED
    BY <2>1 DEF DisabledStaysQuiet, Over, Holds
<1>22. ASSUME LeaseExpires PROVE DisabledStaysQuiet'
  <2>1. UNCHANGED life /\ \A r \in Run : WorkKept(r) /\ run'[r].off = run[r].off
    BY <1>22, LateRuns DEF LeaseExpires
  <2> QED
    BY <2>1 DEF DisabledStaysQuiet, Holds, WorkKept
<1>23. ASSUME UNCHANGED vars PROVE DisabledStaysQuiet'
  BY <1>0, <1>23 DEF vars
<1> QED
  BY <1>1, <1>2, <1>3, <1>4, <1>5, <1>6, <1>7, <1>8, <1>9, <1>10, <1>11, <1>12, <1>13,
     <1>14, <1>15, <1>16, <1>17, <1>18, <1>19, <1>20, <1>21, <1>22, <1>23
     DEF Next, RunStep

-----------------------------------------------------------------------------
(* Find-or-create *)

Room(f) == /\ IsFiniteSet(AutoSources(f))
           /\ Cardinality(AutoSources(f)) + Cardinality(Asking(f)) <= Cardinality(Req)

LEMMA RoomKept ==
  ASSUME NEW f \in Feed, Room(f), AutoSources(f)' \subseteq AutoSources(f),
         Asking(f)' \subseteq Asking(f)
  PROVE  Room(f)'
<1> DEFINE N(S) == Cardinality(S)
<1>1. Asking(f) \subseteq Req
  BY DEF Asking
<1>2. IsFiniteSet(Asking(f)) /\ N(Req) \in Nat
  BY <1>1, ReqAssumption, FS_Subset, FS_CardinalityType
<1>3. /\ N(Asking(f)') <= N(Asking(f)) /\ N(Asking(f)') \in Nat /\ N(Asking(f)) \in Nat
  BY <1>2, FS_Subset, FS_CardinalityType
<1>4. /\ IsFiniteSet(AutoSources(f)') /\ N(AutoSources(f)') <= N(AutoSources(f))
      /\ N(AutoSources(f)') \in Nat /\ N(AutoSources(f)) \in Nat
  BY FS_Subset, FS_CardinalityType DEF Room
<1>5. N(AutoSources(f)) + N(Asking(f)) <= N(Req)
  BY DEF Room
<1> HIDE DEF N
<1>6. N(AutoSources(f)') + N(Asking(f)') <= N(Req)
  BY <1>2, <1>3, <1>4, <1>5
<1> QED
  BY <1>4, <1>6 DEF Room, N

\* A request that finds no source: there is none of its page to count.
LEMMA RoomEmpty ==
  ASSUME NEW f \in Feed, AutoSources(f)' = {} PROVE Room(f)'
<1>1. Asking(f)' \subseteq Req
  BY DEF Asking
<1>2. /\ Cardinality(Asking(f)') <= Cardinality(Req)
      /\ Cardinality(Asking(f)') \in Nat /\ Cardinality(Req) \in Nat
  BY <1>1, ReqAssumption, FS_Subset, FS_CardinalityType
<1>3. IsFiniteSet(AutoSources(f)') /\ Cardinality(AutoSources(f)') = 0
  BY FS_EmptySet
<1> QED
  BY <1>2, <1>3 DEF Room

\* The source a request makes takes the request's place.
LEMMA RoomMoved ==
  ASSUME NEW f \in Feed, Room(f), NEW s, NEW q,
         q \in Asking(f), Asking(f)' = Asking(f) \ {q},
         AutoSources(f)' \subseteq AutoSources(f) \cup {s}
  PROVE  Room(f)'
<1> DEFINE N(S) == Cardinality(S)
           more == AutoSources(f) \cup {s}
<1>1. Asking(f) \subseteq Req
  BY DEF Asking
<1>2. IsFiniteSet(Asking(f)) /\ N(Req) \in Nat
  BY <1>1, ReqAssumption, FS_Subset, FS_CardinalityType
<1>3. N(Asking(f)') = N(Asking(f)) - 1 /\ N(Asking(f)) \in Nat
  BY <1>2, FS_RemoveElement, FS_CardinalityType
<1>4. IsFiniteSet(more) /\ N(more) <= N(AutoSources(f)) + 1 /\ N(AutoSources(f)) \in Nat
  <2>1. IsFiniteSet(AutoSources(f))
    BY DEF Room
  <2>2. N(AutoSources(f)) \in Nat
    BY <2>1, FS_CardinalityType
  <2>3. IsFiniteSet(more) /\ N(more) = IF s \in AutoSources(f) THEN N(AutoSources(f))
                                                             ELSE N(AutoSources(f)) + 1
    BY <2>1, FS_AddElement
  <2> HIDE DEF N
  <2> QED
    BY <2>2, <2>3
<1>5. /\ IsFiniteSet(AutoSources(f)') /\ N(AutoSources(f)') <= N(more)
      /\ N(AutoSources(f)') \in Nat /\ N(more) \in Nat
  BY <1>4, FS_Subset, FS_CardinalityType
<1>6. N(AutoSources(f)) + N(Asking(f)) <= N(Req)
  BY DEF Room
<1> HIDE DEF N, more
<1>7. N(AutoSources(f)') + N(Asking(f)') <= N(Req)
  BY <1>2, <1>3, <1>4, <1>5, <1>6
<1> QED
  BY <1>5, <1>7 DEF Room, N

\* The sources the settings made, and the requests about to make one, never
\* outnumber the requests.
LEMMA RoomStep == IInv /\ [Next]_vars => RoomIsShared'
<1> SUFFICES ASSUME TypeOK, RowsAreBacked, ReqsAreBacked, RoomIsShared, [Next]_vars,
                    NEW f \in Feed, Findable(f)
             PROVE  Room(f)'
  BY DEF IInv, RoomIsShared, Room
<1> DEFINE Less == /\ AutoSources(f)' \subseteq AutoSources(f)
                   /\ Asking(f)' \subseteq Asking(f)
<1>r. Room(f)
  BY DEF RoomIsShared, Room
<1>0. ASSUME Less PROVE Room(f)'
  BY <1>0, <1>r, RoomKept
<1>a. ASSUME UNCHANGED <<life, madeFor, edited, req>> PROVE Room(f)'
  <2>1. Less
    BY <1>a DEF AutoSources, Asking
  <2> QED
    BY <2>1, <1>0
<1>b. ASSUME NEW q \in Req, req' = [req EXCEPT ![q] = IdleReq]
      PROVE  Asking(f)' \subseteq Asking(f)
  BY <1>b DEF Asking, TypeOK, IdleReq
<1>c. life \in [Source -> {"unborn", "on", "off", "gone"}]
  BY DEF TypeOK
<1>d. madeFor \in [Source -> Feed \cup {None}]
  BY DEF TypeOK
<1>e. req \in [Req -> ReqRecord]
  BY DEF TypeOK
<1> USE DEF dbVars, historyVars
<1>1. ASSUME NEW s \in Source, Create(s) PROVE Room(f)'
  <2>1. AutoSources(f)' \subseteq AutoSources(f)
    BY <1>c, <1>d, <1>1, NullAssumption DEF Create, AddSource, AutoSources
  <2>2. Asking(f)' \subseteq Asking(f)
    BY <1>1 DEF Create, Asking
  <2> QED
    BY <2>1, <2>2, <1>0
<1>2. ASSUME NEW s \in Source, DeleteSource(s) PROVE Room(f)'
  <2>1. AutoSources(f)' \subseteq AutoSources(f)
    BY <1>c, <1>d, <1>2, NullAssumption DEF DeleteSource, AutoSources
  <2>2. Asking(f)' \subseteq Asking(f)
    BY <1>2 DEF DeleteSource, Asking
  <2> QED
    BY <2>1, <2>2, <1>0
<1>3. ASSUME NEW s \in Source, NEW q \in Req, ReadForUpdate(q, s) PROVE Room(f)'
  <2>1. AutoSources(f)' \subseteq AutoSources(f)
    BY <1>3 DEF ReadForUpdate, AutoSources
  <2>2. Asking(f)' \subseteq Asking(f)
    BY <1>e, <1>3 DEF ReadForUpdate, Asking, IdleReq
  <2> QED
    BY <2>1, <2>2, <1>0
<1>4. ASSUME NEW q \in Req, WriteUpdate(q) PROVE Room(f)'
  <2>1. CASE UNCHANGED <<life, edited>>
    <3>1. AutoSources(f)' \subseteq AutoSources(f)
      BY <1>4, <2>1 DEF WriteUpdate, AutoSources
    <3> QED
      BY <1>4, <1>b, <3>1, <1>0 DEF WriteUpdate, Done
  <2>2. CASE /\ Exists(req[q].src)
             /\ life' = [life EXCEPT ![req[q].src] = IF req[q].enabled THEN "on" ELSE "off"]
             /\ edited \subseteq edited' /\ (~req[q].enabled => req[q].src \in edited')
    <3>1. madeFor' = madeFor
      BY <1>4 DEF WriteUpdate
    <3>2. ASSUME NEW s \in Source, life'[s] = "on", s \notin edited'
          PROVE  life[s] = "on" /\ s \notin edited
      <4>1. CASE s = req[q].src
        BY <1>c, <2>2, <3>2, <4>1 DEF Exists, RowsAreBacked
      <4>2. CASE s # req[q].src
        BY <1>c, <2>2, <3>2, <4>2
      <4> QED
        BY <4>1, <4>2
    <3>3. AutoSources(f)' \subseteq AutoSources(f)
      BY <3>1, <3>2 DEF AutoSources
    <3> QED
      BY <1>4, <1>b, <3>3, <1>0 DEF WriteUpdate, Done
  <2>3. edited \subseteq edited' /\ (UNCHANGED edited \/ Exists(req[q].src))
    BY <1>4 DEF WriteUpdate
  <2> QED
    BY <1>4, <2>1, <2>2, <2>3 DEF WriteUpdate
<1>5. ASSUME NEW q \in Req, CreateMissing(q) PROVE Room(f)'
  <2>1. PICK s \in Source :
          /\ life[s] = "unborn" /\ life' = [life EXCEPT ![s] = "on"]
          /\ \/ /\ req[q].pc = "settings"
                /\ madeFor' = [madeFor EXCEPT ![s] = req[q].feed]
             \/ req[q].pc = "batch" /\ madeFor' = [madeFor EXCEPT ![s] = None]
    BY <1>5 DEF CreateMissing, AddSource
  <2>2. UNCHANGED edited
    BY <1>5 DEF CreateMissing
  <2>3. AutoSources(f)' \subseteq AutoSources(f) \cup {s}
    BY <1>c, <1>d, <2>1, <2>2 DEF AutoSources
  <2>4. req' = [req EXCEPT ![q] = IdleReq]
    BY <1>5 DEF CreateMissing, Done
  <2>5. CASE req[q].pc = "settings" /\ req[q].feed = f
    <3>1. q \in Asking(f) /\ Asking(f)' = Asking(f) \ {q}
      BY <1>e, <2>4, <2>5 DEF Asking, IdleReq
    <3> QED
      BY <1>r, <2>3, <3>1, RoomMoved
  <2>6. CASE ~(req[q].pc = "settings" /\ req[q].feed = f)
    <3>1. s \notin AutoSources(f)'
      BY <1>d, <2>1, <2>2, <2>6, NullAssumption DEF AutoSources
    <3>2. AutoSources(f)' \subseteq AutoSources(f)
      BY <2>3, <3>1
    <3> QED
      BY <1>b, <2>4, <3>2, <1>0
  <2> QED
    BY <2>5, <2>6
<1>6. ASSUME NEW q \in Req, RequestDies(q) PROVE Room(f)'
  <2>1. AutoSources(f)' \subseteq AutoSources(f)
    BY <1>6 DEF RequestDies, AutoSources
  <2>2. Asking(f)' \subseteq Asking(f)
    BY <1>6, <1>b DEF RequestDies, Done
  <2> QED
    BY <2>1, <2>2, <1>0
<1>7. ASSUME NEW q \in Req, NEW g \in Feed, AskSettings(q, g) PROVE Room(f)'
  <2>1. UNCHANGED <<life, madeFor, edited>>
    BY <1>7 DEF AskSettings
  <2>2. CASE f = g
    <3>1. AutoSources(f)' = {}
      <4> SUFFICES ASSUME NEW s \in AutoSources(f) PROVE FALSE
        BY <2>1 DEF AutoSources
      <4>1. s \in Source /\ life[s] = "on" /\ feed[s] = Stored[f]
        BY NullAssumption DEF AutoSources, RowsAreBacked
      <4>2. Answers(s, f)
        BY <4>1, FeedAssumption DEF Answers, Findable
      <4> QED
        BY <1>7, <2>2, <4>1, <4>2 DEF AskSettings
    <3> QED
      BY <3>1, RoomEmpty
  <2>3. CASE f # g
    <3>1. Asking(f)' \subseteq Asking(f)
      BY <1>e, <1>7, <2>3 DEF AskSettings, Asking, IdleReq
    <3>2. AutoSources(f)' \subseteq AutoSources(f)
      BY <2>1 DEF AutoSources
    <3> QED
      BY <3>1, <3>2, <1>0
  <2> QED
    BY <2>2, <2>3
<1>8. ASSUME NEW q \in Req, NEW g \in Feed, ResolveBatch(q, g) PROVE Room(f)'
  <2>1. AutoSources(f)' \subseteq AutoSources(f)
    BY <1>8 DEF ResolveBatch, AutoSources
  <2>2. Asking(f)' \subseteq Asking(f)
    BY <1>e, <1>8 DEF ResolveBatch, Asking, IdleReq
  <2> QED
    BY <2>1, <2>2, <1>0
<1>9. ASSUME NEW j \in Job, RunSources(j) PROVE Room(f)'
  BY <1>a, <1>9 DEF RunSources, CountRequest
<1>10. ASSUME NEW j \in Job, RecoverJob(j) PROVE Room(f)'
  BY <1>a, <1>10 DEF RecoverJob
<1>11. ASSUME NEW j \in Job, PromoteJob(j) PROVE Room(f)'
  BY <1>a, <1>11 DEF PromoteJob
<1>12. ASSUME NEW w \in Worker, NEW r \in Run, TimerFires(w, r) PROVE Room(f)'
  BY <1>a, <1>12 DEF TimerFires
<1>13. ASSUME NEW w \in Worker, NEW r \in Run, NEW j \in Job, TakeJob(w, r, j) PROVE Room(f)'
  BY <1>a, <1>13 DEF TakeJob
<1>14. ASSUME NEW r \in Run, List(r) PROVE Room(f)'
  BY <1>a, <1>14, ListRun
<1>15. ASSUME NEW r \in Run, MarkExtension(r) PROVE Room(f)'
  BY <1>a, <1>15, MarkRun
<1>16. ASSUME NEW r \in Run, Start(r) PROVE Room(f)'
  BY <1>a, <1>16, StartRun
<1>17. ASSUME NEW r \in Run, Settle(r) PROVE Room(f)'
  BY <1>a, <1>17, SettleRun
<1>18. ASSUME NEW r \in Run, CollectThrows(r) PROVE Room(f)'
  BY <1>a, <1>18, ThrowRun
<1>19. ASSUME NEW r \in Run, Fail(r) PROVE Room(f)'
  BY <1>a, <1>19, FailRun
<1>20. ASSUME NEW r \in Run, StatementFails(r) PROVE Room(f)'
  BY <1>a, <1>20 DEF StatementFails, CountFault
<1>21. ASSUME NEW w \in Worker, WorkerDies(w) PROVE Room(f)'
  BY <1>a, <1>21 DEF WorkerDies, CountFault
<1>22. ASSUME LeaseExpires PROVE Room(f)'
  BY <1>a, <1>22 DEF LeaseExpires
<1>23. ASSUME UNCHANGED vars PROVE Room(f)'
  BY <1>a, <1>23 DEF vars
<1> QED
  BY <1>1, <1>2, <1>3, <1>4, <1>5, <1>6, <1>7, <1>8, <1>9, <1>10, <1>11, <1>12, <1>13,
     <1>14, <1>15, <1>16, <1>17, <1>18, <1>19, <1>20, <1>21, <1>22, <1>23
     DEF Next, RunStep

-----------------------------------------------------------------------------
(* Theorems *)

LEMMA InitIInv == Init => IInv
<1> SUFFICES ASSUME Init PROVE IInv
  OBVIOUS
<1>1. \A s \in Source : life[s] \in {"unborn", "on", "off"}
  BY DEF Init
<1>2. IdleRun \in RunRecord /\ NoJob \in JobRecord /\ IdleReq \in ReqRecord
  BY DEF IdleRun, RunRecord, NoJob, JobRecord, IdleReq, ReqRecord
<1>3. /\ run \in [Run -> RunRecord] /\ job \in [Job -> JobRecord] /\ req \in [Req -> ReqRecord]
  BY <1>2 DEF Init
<1>4. TypeOK
  BY <1>1, <1>3, NullAssumption DEF Init, TypeOK, Status
<1>5. RowsAreBacked /\ RunningIsHonest
  BY <1>1 DEF Init, RowsAreBacked, RunningIsHonest, Exists
<1>6. \A r \in Run : run[r] = IdleRun
  BY DEF Init
<1>7. RunsAreBacked /\ TimersHoldTheLease /\ DisabledStaysQuiet
  BY <1>6, IdleRecord DEF RunsAreBacked, TimersHoldTheLease, DisabledStaysQuiet, Timed, Holds
<1>8. \A q \in Req : req[q].pc = "idle"
  BY DEF Init, IdleReq
<1>9. ReqsAreBacked
  BY <1>8 DEF ReqsAreBacked
<1>10. RoomIsShared
  <2>1. ASSUME NEW f \in Feed PROVE AutoSources(f) = {} /\ Asking(f) = {}
    BY <1>8, NullAssumption DEF Init, AutoSources, Asking
  <2>2. Cardinality(Req) \in Nat
    BY ReqAssumption, FS_CardinalityType
  <2> QED
    BY <2>1, <2>2, FS_EmptySet DEF RoomIsShared
<1> QED
  BY <1>4, <1>5, <1>7, <1>9, <1>10 DEF IInv

LEMMA Invariance == Spec => []IInv
<1>1. IInv /\ [Next]_vars => IInv'
  <2> SUFFICES ASSUME IInv, [Next]_vars PROVE IInv'
    OBVIOUS
  <2>1. TypeOK'
    BY RunTypeStep, JobTypeStep, RowTypeStep DEF TypeOK
  <2>2. ReqsAreBacked'
    BY RowTypeStep
  <2> QED
    BY <2>1, <2>2, RowsStep, RunsStep, HonestStep, LeaseStep, QuietStep, RoomStep DEF IInv
<1> QED
  BY InitIInv, <1>1, PTL DEF Spec

\* The steps that end a collection.
LEMMA ContainedStep ==
  IInv /\ [Next]_vars =>
    [\A r \in Run : run[r].public # {} /\ run'[r].pc = "idle" =>
       faults' > faults \/ \E s \in Holds(r) : ~Exists(s)]_vars
<1> DEFINE A(r) == run[r].public # {} /\ run'[r].pc = "idle" =>
                     faults' > faults \/ \E s \in Holds(r) : ~Exists(s)
           G == \A r \in Run : A(r)
<1> SUFFICES ASSUME TypeOK, RunsAreBacked, ReqsAreBacked, [Next]_vars PROVE G \/ UNCHANGED vars
  BY DEF IInv
<1>0. ASSUME \A r \in Run : run'[r].pc = run[r].pc \/ run'[r].pc # "idle" PROVE G
  BY <1>0 DEF RunsAreBacked
<1>a. ASSUME NEW r \in Run, Only(r), A(r) PROVE G
  BY <1>a DEF RunsAreBacked, Only
<1>f. ASSUME faults' > faults PROVE G
  BY <1>f
<1> HIDE DEF G
<1> USE DEF dbVars, historyVars
<1>1. ASSUME NEW s \in Source, Create(s) PROVE G \/ UNCHANGED vars
  BY <1>0, <1>1 DEF Create, AddSource, CountRequest, dbVars
<1>2. ASSUME NEW s \in Source, DeleteSource(s) PROVE G \/ UNCHANGED vars
  BY <1>0, <1>2 DEF DeleteSource, CountRequest
<1>3. ASSUME NEW s \in Source, NEW q \in Req, ReadForUpdate(q, s) PROVE G \/ UNCHANGED vars
  BY <1>0, <1>3 DEF ReadForUpdate, CountRequest
<1>4. ASSUME NEW q \in Req, WriteUpdate(q) PROVE G \/ UNCHANGED vars
  <2>1. req[q].src \in Source /\ req[q].enabled \in BOOLEAN
    BY <1>4 DEF WriteUpdate, ReqsAreBacked, TypeOK, ReqRecord
  <2>2. run' = run \/ run' = Noted(req[q].src, req[q].enabled)
    BY <1>4 DEF WriteUpdate
  <2>3. \A r \in Run : run'[r].pc = run[r].pc
    BY <2>1, <2>2, UpdatedRuns DEF WorkKept
  <2> QED
    BY <2>3, <1>0
<1>5. ASSUME NEW q \in Req, CreateMissing(q) PROVE G \/ UNCHANGED vars
  BY <1>0, <1>5 DEF CreateMissing, AddSource, Done
<1>6. ASSUME NEW q \in Req, RequestDies(q) PROVE G \/ UNCHANGED vars
  BY <1>0, <1>6 DEF RequestDies, Done
<1>7. ASSUME NEW q \in Req, NEW f \in Feed, AskSettings(q, f) PROVE G \/ UNCHANGED vars
  BY <1>0, <1>7 DEF AskSettings
<1>8. ASSUME NEW q \in Req, NEW f \in Feed, ResolveBatch(q, f) PROVE G \/ UNCHANGED vars
  BY <1>0, <1>8 DEF ResolveBatch
<1>9. ASSUME NEW j \in Job, RunSources(j) PROVE G \/ UNCHANGED vars
  BY <1>0, <1>9 DEF RunSources, CountRequest
<1>10. ASSUME NEW j \in Job, RecoverJob(j) PROVE G \/ UNCHANGED vars
  BY <1>0, <1>10 DEF RecoverJob
<1>11. ASSUME NEW j \in Job, PromoteJob(j) PROVE G \/ UNCHANGED vars
  BY <1>0, <1>11 DEF PromoteJob
<1>12. ASSUME NEW w \in Worker, NEW r \in Run, TimerFires(w, r) PROVE G \/ UNCHANGED vars
  <2>1. Begin(w, r, None)
    BY <1>12 DEF TimerFires
  <2>2. Only(r) /\ run'[r].pc = "list"
    BY <2>1, BeginRun
  <2> QED
    BY <2>2, <1>a
<1>13. ASSUME NEW w \in Worker, NEW r \in Run, NEW j \in Job, TakeJob(w, r, j)
      PROVE  G \/ UNCHANGED vars
  <2>1. Begin(w, r, j)
    BY <1>13 DEF TakeJob
  <2>2. Only(r) /\ run'[r].pc = "list"
    BY <2>1, BeginRun
  <2> QED
    BY <2>2, <1>a
<1>14. ASSUME NEW r \in Run, List(r) PROVE G \/ UNCHANGED vars
  <2>1. Only(r) /\ run[r].public = {}
    BY <1>14, ListRun DEF RunsAreBacked
  <2> QED
    BY <2>1, <1>a
<1>15. ASSUME NEW r \in Run, MarkExtension(r) PROVE G \/ UNCHANGED vars
  <2>1. Only(r) /\ (run'[r].pc = "next" \/ \E s \in run[r].extension : ~Exists(s))
    BY <1>15, MarkRun
  <2> QED
    BY <2>1, <1>a DEF Holds
<1>16. ASSUME NEW r \in Run, Start(r) PROVE G \/ UNCHANGED vars
  <2>1. /\ Only(r)
        /\ \/ run'[r].pc = "collect" \/ run[r].public = {}
           \/ \E s \in run[r].public : ~Exists(s)
    BY <1>16, StartRun
  <2> QED
    BY <2>1, <1>a DEF Holds
<1>17. ASSUME NEW r \in Run, Settle(r) PROVE G \/ UNCHANGED vars
  <2>1. Only(r) /\ run'[r].pc = "next"
    BY <1>17, SettleRun
  <2> QED
    BY <2>1, <1>a
<1>18. ASSUME NEW r \in Run, CollectThrows(r) PROVE G \/ UNCHANGED vars
  <2>1. Only(r) /\ run'[r].pc = "fail"
    BY <1>18, ThrowRun
  <2> QED
    BY <2>1, <1>a
<1>19. ASSUME NEW r \in Run, Fail(r) PROVE G \/ UNCHANGED vars
  <2>1. /\ Only(r) /\ run[r].cur # None
        /\ (run'[r].pc = "next" \/ ~Exists(run[r].cur))
    BY <1>19, FailRun DEF RunsAreBacked
  <2> QED
    BY <2>1, <1>a DEF Holds
<1>20. ASSUME NEW r \in Run, StatementFails(r) PROVE G \/ UNCHANGED vars
  <2>1. faults' > faults
    BY <1>20 DEF StatementFails, CountFault, TypeOK
  <2> QED
    BY <2>1, <1>f
<1>21. ASSUME NEW w \in Worker, WorkerDies(w) PROVE G \/ UNCHANGED vars
  <2>1. faults' > faults
    BY <1>21 DEF WorkerDies, CountFault, TypeOK
  <2> QED
    BY <2>1, <1>f
<1>22. ASSUME LeaseExpires PROVE G \/ UNCHANGED vars
  <2>1. \A r \in Run : run'[r].pc = run[r].pc
    BY <1>22, LateRuns DEF LeaseExpires, WorkKept
  <2> QED
    BY <2>1, <1>0
<1>23. ASSUME UNCHANGED vars PROVE G \/ UNCHANGED vars
  BY <1>23
<1> QED
  BY <1>1, <1>2, <1>3, <1>4, <1>5, <1>6, <1>7, <1>8, <1>9, <1>10, <1>11, <1>12, <1>13,
     <1>14, <1>15, <1>16, <1>17, <1>18, <1>19, <1>20, <1>21, <1>22, <1>23
     DEF Next, RunStep

\* Every variable stays in its type.
THEOREM TypeCorrect == Spec => []TypeOK
BY Invariance, PTL DEF IInv

\* Every status RUNNING stands for a collection, or for one that died with its
\* worker or failed to record its failure (collect, updateStatus).
THEOREM RunningHonest == Spec => []RunningIsHonest
BY Invariance, PTL DEF IInv

\* Two workers are on their timers' collections at once only when one of them
\* outlasted its lease (the worker's CollectorLease upsert).
THEOREM LeaseExcludes == Spec => []LeaseIsExclusive
<1>1. IInv => LeaseIsExclusive
  BY DEF IInv, TimersHoldTheLease, LeaseIsExclusive
<1> QED
  BY <1>1, Invariance, PTL

\* A collection is on a disabled source only when it had listed it before it
\* was disabled (list(), update()).
THEOREM DisabledQuiet == Spec => []DisabledStaysQuiet
BY Invariance, PTL DEF IInv

\* The settings make no more enabled sources of a page, for as long as no edit
\* changes them, than there are requests at once (resolve: find, then create).
THEOREM DuplicatesBound == Spec => []DuplicatesAreBounded
<1>1. IInv => DuplicatesAreBounded
  <2> SUFFICES ASSUME IInv, NEW f \in Feed, Findable(f)
               PROVE  Cardinality(AutoSources(f)) <= Cardinality(Req)
    BY DEF DuplicatesAreBounded
  <2>1. /\ IsFiniteSet(AutoSources(f))
        /\ Cardinality(AutoSources(f)) + Cardinality(Asking(f)) <= Cardinality(Req)
    BY DEF IInv, RoomIsShared
  <2>2. Asking(f) \subseteq Req
    BY DEF Asking
  <2>3. IsFiniteSet(Asking(f)) /\ Cardinality(Req) \in Nat
    BY <2>2, ReqAssumption, FS_Subset, FS_CardinalityType
  <2>4. Cardinality(Asking(f)) \in Nat /\ Cardinality(AutoSources(f)) \in Nat
    BY <2>1, <2>3, FS_CardinalityType
  <2> QED
    BY <2>1, <2>3, <2>4
<1> QED
  BY <1>1, Invariance, PTL

\* A collection gives up with sources left only when one of them was removed
\* or something other than Reddit failed (collect's inner try).
THEOREM FailureContained == Spec => FailureIsContained
<1> DEFINE A(r) == run[r].public # {} /\ run'[r].pc = "idle" =>
                     faults' > faults \/ \E s \in Holds(r) : ~Exists(s)
<1>1. IInv /\ [Next]_vars => [\A r \in Run : A(r)]_vars
  BY ContainedStep
<1> QED
  BY <1>1, Invariance, PTL DEF Spec, FailureIsContained

-----------------------------------------------------------------------------
(* The login at Reddit *)

\* A synchronisation in progress carries the cookies of its browser.
LEMMA ProgressIsRunning ==
  ASSUME SyncTypeOK, NEW s \in Sync
  PROVE  /\ sync[s] = IdleSync \/ sync[s] \in InTransit \cup Renaming
         /\ sync[s].pc # "idle" => sync[s] # IdleSync
         /\ sync[s] # IdleSync => /\ sync[s].sent \in Sent
                                  /\ s \in Running(sync[s].sent.browser)
                                  /\ sync[s].sent.browser \in Browser
         /\ \A b \in Browser : s \in Running(b) => sync[s].sent.browser = b
<1>1. sync[s] = IdleSync \/ sync[s] \in InTransit \cup Renaming
  BY DEF SyncTypeOK
<1>2. sync[s].pc # "idle" => sync[s] # IdleSync
  BY DEF IdleSync
<1>3. ASSUME sync[s] # IdleSync
      PROVE  /\ sync[s].sent \in Sent
             /\ s \in Running(sync[s].sent.browser)
             /\ sync[s].sent.browser \in Browser
  <2>1. sync[s].sent \in Sent
    BY <1>1, <1>3 DEF InTransit, Renaming
  <2> QED
    BY <1>3, <2>1 DEF Running, Sent
<1> QED
  BY <1>1, <1>2, <1>3 DEF Running

LEMMA InProgressIsNotIdle ==
  ASSUME NEW h \in InTransit \cup Renaming
  PROVE  h # IdleSync /\ h.sent \in Sent
BY DEF InTransit, Renaming, IdleSync

\* One record changes.
LEMMA RecordChanges ==
  ASSUME SyncTypeOK, NEW s \in Sync, NEW h \in InTransit \cup Renaming,
         sync' = [sync EXCEPT ![s] = h]
  PROVE  /\ sync' \in [Sync -> {IdleSync} \cup InTransit \cup Renaming]
         /\ sync'[s] = h /\ \A t \in Sync \ {s} : sync'[t] = sync[t]
         /\ \A b \in Browser : h.sent.browser # b => Running(b)' = Running(b) \ {s}
         /\ \A b \in Browser : h.sent.browser = b => Running(b)' = Running(b) \cup {s}
<1>1. /\ sync' \in [Sync -> {IdleSync} \cup InTransit \cup Renaming]
      /\ sync'[s] = h /\ \A t \in Sync \ {s} : sync'[t] = sync[t]
  BY DEF SyncTypeOK
<1> QED
  BY <1>1, InProgressIsNotIdle DEF Running

LEMMA RecordEnds ==
  ASSUME SyncTypeOK, NEW s \in Sync, Finish(s)
  PROVE  /\ sync' \in [Sync -> {IdleSync} \cup InTransit \cup Renaming]
         /\ \A t \in Sync \ {s} : sync'[t] = sync[t]
         /\ \A b \in Browser : Running(b)' = Running(b) \ {s}
<1>1. /\ sync' \in [Sync -> {IdleSync} \cup InTransit \cup Renaming]
      /\ sync'[s] = IdleSync /\ \A t \in Sync \ {s} : sync'[t] = sync[t]
  BY DEF SyncTypeOK, Finish
<1> QED
  BY <1>1 DEF Running

\* The initial states.
LEMMA SessionInitHolds == SessionInit => SessionIInv
<1> SUFFICES ASSUME SessionInit PROVE SessionIInv
  OBVIOUS
<1>1. jar \in [Browser -> Jar]
  <2>1. 0 \in 0..MaxChanges
    BY SessionAssumption
  <2>2. [edition : {0}, login : Login \cup {Anonymous, Nothing}] \subseteq Jar
    BY <2>1 DEF Jar
  <2>3. jar \in [Browser -> [edition : {0}, login : Login \cup {Anonymous, Nothing}]]
    BY DEF SessionInit
  <2> QED
    BY <2>2, <2>3
<1>2. SessionTypeOK
  BY <1>1 DEF SessionInit, SessionTypeOK, SyncTypeOK, BackendTypeOK
<1>3. \A b \in Browser : Running(b) = {} /\ device[b] = "none"
  BY DEF SessionInit, Running
<1> QED
  BY <1>2, <1>3 DEF SessionInit, SessionIInv, SyncIInv, BackendIInv, SessionTypeOK, SyncsAreCurrent,
                           FileIsCurrent, KeptIsUsed


\* A synchronisation goes on.
LEMMA MoveHolds ==
  ASSUME SyncIInv, NEW s \in Sync, NEW h \in InTransit \cup Renaming, sync[s] # IdleSync,
         h.sent = sync[s].sent, sync' = [sync EXCEPT ![s] = h],
         UNCHANGED <<jar, timer, device, ended, file, excused>>,
         temp' \in [Moment -> Sent \cup {NoFile}]
  PROVE  SyncIInv'
<1>1. /\ sync' \in [Sync -> {IdleSync} \cup InTransit \cup Renaming]
      /\ sync'[s] = h /\ \A t \in Sync \ {s} : sync'[t] = sync[t]
      /\ \A b \in Browser : h.sent.browser # b => Running(b)' = Running(b) \ {s}
      /\ \A b \in Browser : h.sent.browser = b => Running(b)' = Running(b) \cup {s}
  BY RecordChanges DEF SyncIInv
<1>2. /\ s \in Running(sync[s].sent.browser) /\ sync[s].sent.browser \in Browser
      /\ \A b \in Browser : s \in Running(b) => sync[s].sent.browser = b
  BY ProgressIsRunning DEF SyncIInv
<1>3. ASSUME NEW b \in Browser PROVE Running(b)' = Running(b)
  <2>1. CASE h.sent.browser = b
    <3>1. s \in Running(b) /\ Running(b)' = Running(b) \cup {s}
      BY <1>1, <1>2, <2>1
    <3> QED
      BY <3>1
  <2>2. CASE h.sent.browser # b
    <3>1. s \notin Running(b) /\ Running(b)' = Running(b) \ {s}
      BY <1>1, <1>2, <2>2
    <3> QED
      BY <3>1
  <2> QED
    BY <2>1, <2>2
<1>4. \A t \in Sync : sync'[t].sent = sync[t].sent
  BY <1>1
<1>5. SyncTypeOK'
  BY <1>1 DEF SyncIInv, SyncTypeOK
<1>6. SyncsAreCurrent'
  <2>1. \A b \in Browser : Running(b) \subseteq Sync
    BY DEF Running
  <2> QED
    BY <1>3, <1>4, <2>1 DEF SyncIInv, SyncsAreCurrent
<1>7. FileIsCurrent'
  BY <1>3 DEF SyncIInv, FileIsCurrent
<1> QED
  BY <1>5, <1>6, <1>7 DEF SyncIInv

\* The records change in no way that matters: no synchronisation begins or ends.
LEMMA NothingMovesHolds ==
  ASSUME SyncIInv, UNCHANGED <<device, sync, file, excused, temp>>,
         jar' \in [Browser -> Jar], ended' \subseteq Login,
         timer \subseteq timer', timer' \subseteq Browser,
         \A b \in Browser : jar'[b] = jar[b] \/ b \in timer'
  PROVE  SyncIInv'
<1>1. \A b \in Browser : UNCHANGED Running(b)
  BY DEF Running
<1>2. SyncTypeOK'
  BY DEF SyncIInv, SyncTypeOK
<1>3. SyncsAreCurrent'
  BY <1>1 DEF SyncIInv, SyncsAreCurrent
<1>4. FileIsCurrent'
  BY <1>1 DEF SyncIInv, FileIsCurrent
<1> QED
  BY <1>2, <1>3, <1>4 DEF SyncIInv

\* A synchronisation begins, for a browser whose device is paired by now.
LEMMA StartSyncHolds ==
  ASSUME SyncIInv, NEW s \in Sync, NEW b \in Browser, StartSync(s, b),
         UNCHANGED <<jar, ended>>, timer' \subseteq timer, timer \ {b} \subseteq timer',
         device' \in [Browser -> {"none", "active", "revoked"}], device'[b] # "none",
         \A c \in Browser \ {b} : device'[c] = device[c],
         (timer' = timer /\ device' = device) \/ b \in timer \/ device[b] = "none"
  PROVE  SyncIInv'
<1>1. UNCHANGED <<temp, file>>
  BY DEF StartSync
<1>2. CASE jar[b].login = Nothing
  <2>1. UNCHANGED <<sync, excused>> /\ \A c \in Browser : UNCHANGED Running(c)
    BY <1>2 DEF StartSync, Running
  <2>2. SyncTypeOK'
    BY <1>1, <2>1 DEF SyncIInv, SyncTypeOK
  <2>3. SyncsAreCurrent'
    BY <1>2, <2>1 DEF SyncIInv, SyncsAreCurrent
  <2>4. FileIsCurrent'
    BY <1>1, <1>2, <2>1 DEF SyncIInv, FileIsCurrent
  <2> QED
    BY <2>2, <2>3, <2>4 DEF SyncIInv
<1>3. CASE jar[b].login # Nothing
  <2>1. PICK h \in InTransit \cup Renaming : h = [pc |-> "ticket", sent |-> [browser |-> b, jar |-> jar[b]]]
    BY DEF SyncIInv, SyncTypeOK, InTransit, Sent
  <2>2. h.sent.browser = b /\ h.sent.jar = jar[b] /\ sync' = [sync EXCEPT ![s] = h]
        /\ excused' = IF Running(b) = {} THEN excused \ {b} ELSE excused \cup {b}
    BY <1>3, <2>1 DEF StartSync
  <2>3. /\ sync' \in [Sync -> {IdleSync} \cup InTransit \cup Renaming]
        /\ sync'[s] = h /\ \A t \in Sync \ {s} : sync'[t] = sync[t]
        /\ \A c \in Browser : h.sent.browser # c => Running(c)' = Running(c) \ {s}
        /\ \A c \in Browser : h.sent.browser = c => Running(c)' = Running(c) \cup {s}
    <3>1. SyncTypeOK
      BY DEF SyncIInv
    <3>2. sync' = [sync EXCEPT ![s] = h] /\ h \in InTransit \cup Renaming
      BY <2>2
    <3> QED
      BY <3>1, <3>2, RecordChanges
  <2>4. \A c \in Browser : s \notin Running(c)
    BY DEF StartSync, Running
  <2>5. Running(b)' = Running(b) \cup {s} /\ \A c \in Browser \ {b} : Running(c)' = Running(c)
    <3>1. Running(b)' = Running(b) \cup {s}
      BY <2>2, <2>3
    <3>2. ASSUME NEW c \in Browser \ {b} PROVE Running(c)' = Running(c)
      <4>1. Running(c)' = Running(c) \ {s} /\ s \notin Running(c)
        BY <2>2, <2>3, <2>4
      <4> QED
        BY <4>1
    <3> QED
      BY <3>1, <3>2
  <2>6. SyncTypeOK'
    BY <1>1, <2>2, <2>3 DEF SyncIInv, SyncTypeOK
  <2>7. SyncsAreCurrent'
    <3> SUFFICES ASSUME NEW c \in Browser, NEW t \in Running(c)'
                 PROVE  /\ device'[c] # "none"
                        /\ c \notin excused' =>
                             /\ Running(c)' = {t}
                             /\ c \in timer' \/ jar[c].login = Nothing \/ sync'[t].sent.jar = jar[c]
      BY DEF SyncsAreCurrent
    <3>1. CASE c = b
      BY <2>2, <2>3, <2>5, <3>1
    <3>2. CASE c # b
      <4>1. t \in Running(c) /\ t \in Sync /\ t # s
        BY <2>4, <2>5, <3>2 DEF Running
      <4>2. sync'[t] = sync[t] /\ (c \in timer => c \in timer') /\ (c \notin excused' => c \notin excused)
        BY <2>2, <2>3, <3>2, <4>1
      <4> QED
        BY <2>5, <3>2, <4>1, <4>2 DEF SyncIInv, SyncsAreCurrent
    <3> QED
      BY <3>1, <3>2
  <2>8. FileIsCurrent'
    <3> SUFFICES ASSUME NEW c \in Browser \ (excused' \cup timer'),
                        device'[c] # "none", Running(c)' = {}, jar[c].login # Nothing
                 PROVE  file = [browser |-> c, jar |-> jar[c]]
      BY <1>1 DEF FileIsCurrent
    <3>1. c # b /\ Running(c) = {}
      BY <2>5
    <3> QED
      BY <2>2, <3>1 DEF SyncIInv, FileIsCurrent
  <2> QED
    BY <2>6, <2>7, <2>8 DEF SyncIInv
<1> QED
  BY <1>2, <1>3

\* A synchronisation ends: with its cookies in the file, or its browser excused.
LEMMA EndSyncHolds ==
  ASSUME SyncIInv, NEW s \in Sync, NEW b \in Browser, sync[s] # IdleSync, b = sync[s].sent.browser,
         Finish(s), UNCHANGED <<jar, timer, device, ended>>,
         temp' \in [Moment -> Sent \cup {NoFile}], file' \in Sent \cup {NoFile},
         excused \subseteq excused', excused' \subseteq Browser,
         \/ b \in excused' /\ (file' = file \/ Browser \subseteq excused')
         \/ file' = sync[s].sent /\ Browser \ {b} \subseteq excused'
  PROVE  SyncIInv'
<1>1. /\ sync' \in [Sync -> {IdleSync} \cup InTransit \cup Renaming]
      /\ \A t \in Sync \ {s} : sync'[t] = sync[t]
      /\ \A c \in Browser : Running(c)' = Running(c) \ {s}
  BY RecordEnds DEF SyncIInv
<1>2. s \in Running(b) /\ sync[s].sent \in Sent /\ \A c \in Browser : s \in Running(c) => c = b
  BY ProgressIsRunning DEF SyncIInv
<1>3. SyncTypeOK'
  BY <1>1 DEF SyncIInv, SyncTypeOK
<1>4. SyncsAreCurrent'
  <2> SUFFICES ASSUME NEW c \in Browser, NEW t \in Running(c)'
               PROVE  /\ device[c] # "none"
                      /\ c \notin excused' =>
                           /\ Running(c)' = {t}
                           /\ c \in timer \/ jar[c].login = Nothing \/ sync'[t].sent.jar = jar[c]
    BY DEF SyncsAreCurrent
  <2>1. t \in Running(c) /\ t \in Sync \ {s}
    BY <1>1 DEF Running
  <2> QED
    BY <1>1, <2>1 DEF SyncIInv, SyncsAreCurrent
<1>5. FileIsCurrent'
  <2> SUFFICES ASSUME NEW c \in Browser \ (excused' \cup timer),
                      device[c] # "none", Running(c)' = {}, jar[c].login # Nothing
               PROVE  file' = [browser |-> c, jar |-> jar[c]]
    BY DEF FileIsCurrent
  <2>1. CASE c = b
    <3>1. sync[s].sent.jar = jar[b] /\ file' = sync[s].sent
      BY <1>2, <2>1 DEF SyncIInv, SyncsAreCurrent
    <3> QED
      BY <1>2, <2>1, <3>1 DEF Sent
  <2>2. CASE c # b
    <3>1. file' = file /\ Running(c) = {}
      BY <1>1, <1>2, <2>2
    <3> QED
      BY <3>1 DEF SyncIInv, FileIsCurrent
  <2> QED
    BY <2>1, <2>2
<1> QED
  BY <1>3, <1>4, <1>5 DEF SyncIInv

LEMMA BrowserStartsHolds == ASSUME SyncIInv, NEW b \in Browser, BrowserStarts(b) PROVE SyncIInv'
<1> DEFINE gone == {s \in Running(b) : sync[s].pc = "ticket"}
<1>1. /\ timer' = timer \cup {b} /\ UNCHANGED <<jar, device, ended, temp, file>>
      /\ sync' = [s \in Sync |-> IF s \in gone THEN IdleSync ELSE sync[s]]
      /\ excused' = IF gone = {} THEN excused ELSE excused \cup {b}
  BY DEF BrowserStarts
<1>2. \A c \in Browser : Running(c)' = Running(c) \ gone
  <2>1. \A s \in Sync : sync'[s] = IF s \in gone THEN IdleSync ELSE sync[s]
    BY <1>1
  <2> QED
    BY <2>1 DEF Running
<1>3. \A c \in Browser \ {b} : \A s \in Running(c) : s \notin gone
  BY DEF Running
<1>4. \A c \in Browser \ {b} : Running(c)' = Running(c)
  BY <1>2, <1>3
<1>5. \A s \in Sync \ gone : sync'[s] = sync[s]
  BY <1>1
<1>6. SyncTypeOK'
  <2>1. sync' \in [Sync -> {IdleSync} \cup InTransit \cup Renaming]
    BY <1>1 DEF SyncIInv, SyncTypeOK
  <2> QED
    BY <1>1, <2>1 DEF SyncIInv, SyncTypeOK
<1>7. SyncsAreCurrent'
  <2> SUFFICES ASSUME NEW c \in Browser, NEW t \in Running(c)'
               PROVE  /\ device[c] # "none"
                      /\ c \notin excused' =>
                           /\ Running(c)' = {t}
                           /\ c \in timer' \/ jar[c].login = Nothing \/ sync'[t].sent.jar = jar[c]
    BY <1>1 DEF SyncsAreCurrent
  <2>1. t \in Running(c) /\ t \in Sync \ gone
    BY <1>2 DEF Running
  <2>2. device[c] # "none" /\ (c \notin excused => Running(c) = {t})
    BY <2>1 DEF SyncIInv, SyncsAreCurrent
  <2>3. CASE c = b
    <3>1. c \in timer' /\ (c \notin excused' => Running(c)' = Running(c) /\ c \notin excused)
      BY <1>1, <1>2, <2>3
    <3> QED
      BY <2>2, <3>1
  <2>4. CASE c # b
    <3>1. c \notin excused' => c \notin excused
      BY <1>1
    <3>2. Running(c)' = Running(c) /\ sync'[t] = sync[t] /\ (c \in timer => c \in timer')
      BY <1>1, <1>4, <1>5, <2>1, <2>4
    <3> QED
      BY <2>1, <2>2, <3>1, <3>2 DEF SyncIInv, SyncsAreCurrent
  <2> QED
    BY <2>3, <2>4
<1>8. FileIsCurrent'
  <2> SUFFICES ASSUME NEW c \in Browser \ (excused' \cup timer'),
                      device[c] # "none", Running(c)' = {}, jar[c].login # Nothing
               PROVE  file = [browser |-> c, jar |-> jar[c]]
    BY <1>1 DEF FileIsCurrent
  <2>1. c # b /\ Running(c) = {} /\ c \notin excused /\ c \notin timer
    BY <1>1, <1>4
  <2> QED
    BY <2>1 DEF SyncIInv, FileIsCurrent
<1> QED
  BY <1>6, <1>7, <1>8 DEF SyncIInv

LEMMA RevokeDeviceHolds == ASSUME SyncIInv, NEW b \in Browser, RevokeDevice(b) PROVE SyncIInv'
<1>1. /\ device[b] = "active" /\ device' = [device EXCEPT ![b] = "revoked"]
      /\ UNCHANGED <<jar, timer, ended, sync, temp, file, excused>>
  BY DEF RevokeDevice, apiVars
<1>2. \A c \in Browser : device'[c] # "none" <=> device[c] # "none"
  BY <1>1 DEF SyncIInv, SyncTypeOK
<1>3. \A c \in Browser : UNCHANGED Running(c)
  BY <1>1 DEF Running
<1>4. SyncTypeOK'
  BY <1>1 DEF SyncIInv, SyncTypeOK
<1>5. SyncsAreCurrent'
  BY <1>1, <1>2, <1>3 DEF SyncIInv, SyncsAreCurrent
<1>6. FileIsCurrent'
  BY <1>1, <1>2, <1>3 DEF SyncIInv, FileIsCurrent
<1> QED
  BY <1>4, <1>5, <1>6 DEF SyncIInv

\* What the browser and its user do.
LEMMA BrowserHolds ==
  ASSUME SyncIInv, NEW b \in Browser, CookiesChange(b) \/ BrowserStarts(b) \/ RevokeDevice(b)
  PROVE  SyncIInv'
<1>1. CASE CookiesChange(b)
  <2>1. PICK l \in Login \cup {Anonymous, Nothing} :
          jar' = [jar EXCEPT ![b] = [edition |-> @.edition + 1, login |-> l]]
    BY <1>1 DEF CookiesChange
  <2>2. PICK j \in Jar : j = [edition |-> jar[b].edition + 1, login |-> l]
    <3>1. jar[b].edition \in 0..MaxChanges /\ jar[b].edition < MaxChanges
      BY <1>1 DEF CookiesChange, SyncIInv, SyncTypeOK, Jar
    <3>2. jar[b].edition + 1 \in 0..MaxChanges
      BY <3>1, SessionAssumption
    <3> QED
      BY <3>2 DEF Jar
  <2>3. jar' = [jar EXCEPT ![b] = j]
    BY <2>1, <2>2 DEF SyncIInv, SyncTypeOK
  <2>4. jar' \in [Browser -> Jar] /\ \A c \in Browser \ {b} : jar'[c] = jar[c]
    BY <2>3 DEF SyncIInv, SyncTypeOK
  <2>5. timer' = timer \cup {b} /\ ended' \subseteq Login
        /\ UNCHANGED <<device, sync, file, excused, temp>>
    BY <1>1 DEF CookiesChange, apiVars, SyncIInv, SyncTypeOK
  <2>6. timer \subseteq timer' /\ timer' \subseteq Browser
        /\ \A c \in Browser : jar'[c] = jar[c] \/ c \in timer'
    BY <2>4, <2>5 DEF SyncIInv, SyncTypeOK
  <2> QED
    BY <2>4, <2>5, <2>6, NothingMovesHolds
<1> QED
  BY <1>1, BrowserStartsHolds, RevokeDeviceHolds

LEMMA RedditEndsHolds == ASSUME SyncIInv, NEW l \in Login, RedditEnds(l) PROVE SyncIInv'
<1>1. UNCHANGED <<device, sync, file, excused, temp, jar, timer>> /\ ended' = ended \cup {l}
  BY DEF RedditEnds, apiVars
<1> QED
  BY <1>1, NothingMovesHolds DEF SyncIInv, SyncTypeOK

\* The timer of a browser that is not paired does nothing.
LEMMA IdleTimerHolds ==
  ASSUME SyncIInv, NEW b \in Browser, device[b] = "none", timer' = timer \ {b},
         UNCHANGED <<jar, device, ended, sync, temp, file, excused>>
  PROVE  SyncIInv'
<1>1. \A c \in Browser : UNCHANGED Running(c)
  BY DEF Running
<1>2. SyncTypeOK'
  BY DEF SyncIInv, SyncTypeOK
<1>3. SyncsAreCurrent'
  BY <1>1 DEF SyncIInv, SyncsAreCurrent
<1>4. FileIsCurrent'
  BY <1>1 DEF SyncIInv, FileIsCurrent
<1> QED
  BY <1>2, <1>3, <1>4 DEF SyncIInv

LEMMA BeginningHolds ==
  ASSUME SyncIInv, NEW s \in Sync, NEW b \in Browser,
         PairDevice(s, b) \/ SyncTimerFires(s, b) \/ AskSync(s, b)
  PROVE  SyncIInv'
<1>1. CASE PairDevice(s, b)
  <2>1. /\ device[b] = "none" /\ device' = [device EXCEPT ![b] = "active"] /\ StartSync(s, b)
        /\ UNCHANGED <<jar, timer, ended>>
    BY <1>1 DEF PairDevice
  <2>2. /\ device' \in [Browser -> {"none", "active", "revoked"}] /\ device'[b] # "none"
        /\ \A c \in Browser \ {b} : device'[c] = device[c]
    BY <2>1 DEF SyncIInv, SyncTypeOK
  <2> QED
    BY <2>1, <2>2, StartSyncHolds
<1>2. CASE SyncTimerFires(s, b)
  <2>1. CASE device[b] = "none"
    BY <1>2, <2>1, IdleTimerHolds DEF SyncTimerFires, apiVars
  <2>2. CASE device[b] # "none"
    <3>1. b \in timer /\ timer' = timer \ {b} /\ StartSync(s, b) /\ UNCHANGED <<jar, device, ended>>
      BY <1>2, <2>2 DEF SyncTimerFires
    <3>2. device' \in [Browser -> {"none", "active", "revoked"}]
      BY <3>1 DEF SyncIInv, SyncTypeOK
    <3> QED
      BY <2>2, <3>1, <3>2, StartSyncHolds
  <2> QED
    BY <2>1, <2>2
<1>3. CASE AskSync(s, b)
  <2>1. device[b] # "none" /\ StartSync(s, b) /\ UNCHANGED <<jar, timer, device, ended>>
    BY <1>3 DEF AskSync, cookieVars
  <2>2. device' \in [Browser -> {"none", "active", "revoked"}]
    BY <2>1 DEF SyncIInv, SyncTypeOK
  <2> QED
    BY <2>1, <2>2, StartSyncHolds
<1> QED
  BY <1>1, <1>2, <1>3

\* The steps of a synchronisation.
LEMMA TicketHolds ==
  ASSUME SyncIInv, NEW s \in Sync, CreateDeviceTicket(s) \/ FindTicket(s)
  PROVE  SyncIInv'
<1>1. PICK to \in {"send", "save"} : sync' = [sync EXCEPT ![s].pc = to]
  BY DEF CreateDeviceTicket, FindTicket, Goto
<1>2. sync[s].pc \in {"ticket", "send"}
      /\ UNCHANGED <<jar, timer, device, ended, file, excused, temp>>
  BY DEF CreateDeviceTicket, FindTicket, Goto, cookieVars
<1>3. sync[s] \in InTransit /\ sync[s] # IdleSync
  BY <1>2, ProgressIsRunning DEF SyncIInv, Renaming
<1>4. PICK h \in InTransit \cup Renaming : h = [sync[s] EXCEPT !.pc = to]
  BY <1>3 DEF InTransit
<1>5. h.sent = sync[s].sent /\ sync' = [sync EXCEPT ![s] = h]
  BY <1>1, <1>3, <1>4 DEF InTransit, SyncIInv, SyncTypeOK
<1> QED
  BY <1>2, <1>3, <1>5, MoveHolds DEF SyncIInv, SyncTypeOK

LEMMA WriteTemporaryHolds ==
  ASSUME SyncIInv, NEW s \in Sync, NEW m \in Moment, WriteTemporary(s, m)
  PROVE  SyncIInv'
<1>1. sync[s] # IdleSync /\ sync[s].sent \in Sent
  BY ProgressIsRunning DEF WriteTemporary, SyncIInv
<1>2. PICK h \in InTransit \cup Renaming : h = [pc |-> "rename", sent |-> sync[s].sent, stamp |-> m]
  BY <1>1 DEF Renaming
<1>3. h.sent = sync[s].sent /\ sync' = [sync EXCEPT ![s] = h]
  BY <1>2 DEF WriteTemporary, SyncIInv, SyncTypeOK
<1>4. temp' \in [Moment -> Sent \cup {NoFile}]
  BY <1>1 DEF WriteTemporary, SyncIInv, SyncTypeOK
<1> QED
  BY <1>1, <1>3, <1>4, MoveHolds DEF WriteTemporary, cookieVars

LEMMA SyncFailsHolds == ASSUME SyncIInv, NEW s \in Sync, SyncFails(s) PROVE SyncIInv'
<1>1. PICK b \in Browser : b = sync[s].sent.browser
  BY ProgressIsRunning DEF SyncFails, SyncIInv
<1>2. /\ sync[s] # IdleSync /\ Finish(s) /\ excused' = excused \cup {b}
      /\ UNCHANGED <<jar, timer, device, ended, file>>
  BY <1>1 DEF SyncFails, FailSync, cookieVars
<1>3. temp' \in [Moment -> Sent \cup {NoFile}]
  BY DEF SyncFails, SyncIInv, SyncTypeOK
<1> QED
  BY <1>1, <1>2, <1>3, EndSyncHolds DEF SyncIInv, SyncTypeOK

LEMMA RenameTemporaryHolds == ASSUME SyncIInv, NEW s \in Sync, RenameTemporary(s) PROVE SyncIInv'
<1>1. sync[s].pc = "rename" /\ sync[s] # IdleSync
  BY ProgressIsRunning DEF RenameTemporary, SyncIInv
<1>2. PICK b \in Browser : b = sync[s].sent.browser
  BY <1>1, ProgressIsRunning DEF SyncIInv
<1>3. PICK m \in Moment : m = sync[s].stamp
  BY <1>1, ProgressIsRunning DEF SyncIInv, InTransit, Renaming
<1>4. UNCHANGED <<jar, timer, device, ended>> /\ Finish(s)
  BY DEF RenameTemporary, FailSync, cookieVars
<1>5. CASE temp[m] # NoFile
  <2>1. /\ temp[m] \in Sent /\ file' = temp[m] /\ temp' = [temp EXCEPT ![m] = NoFile]
        /\ excused' = excused \cup (IF temp[m] = sync[s].sent THEN Browser \ {temp[m].browser} ELSE Browser)
    BY <1>3, <1>5 DEF RenameTemporary, SyncIInv, SyncTypeOK
  <2>2. temp' \in [Moment -> Sent \cup {NoFile}] /\ excused \subseteq excused' /\ excused' \subseteq Browser
    BY <2>1 DEF SyncIInv, SyncTypeOK
  <2>3. CASE temp[m] = sync[s].sent
    <3>1. file' = sync[s].sent /\ Browser \ {b} \subseteq excused'
      BY <1>2, <2>1, <2>3
    <3> QED
      BY <1>1, <1>2, <1>4, <2>1, <2>2, <3>1, EndSyncHolds
  <2>4. CASE temp[m] # sync[s].sent
    <3>1. b \in excused' /\ Browser \subseteq excused'
      BY <2>1, <2>4
    <3> QED
      BY <1>1, <1>2, <1>4, <2>1, <2>2, <3>1, EndSyncHolds
  <2> QED
    BY <2>3, <2>4
<1>6. CASE temp[m] = NoFile
  <2>1. UNCHANGED <<temp, file>> /\ excused' = excused \cup {b}
    BY <1>2, <1>3, <1>6 DEF RenameTemporary, FailSync
  <2> QED
    BY <1>1, <1>2, <1>4, <2>1, EndSyncHolds DEF SyncIInv, SyncTypeOK
<1> QED
  BY <1>5, <1>6

\* The collector leaves the cookies and their synchronisations alone, and these
\* leave the collector.
LEMMA SyncStepHolds ==
  ASSUME SyncIInv, Step
  PROVE  SyncIInv' /\ (Collects \/ UNCHANGED backendVars)
<1>1. ASSUME NEW b \in Browser, CookiesChange(b) \/ BrowserStarts(b) \/ RevokeDevice(b)
      PROVE  SyncIInv' /\ UNCHANGED backendVars
  BY <1>1, BrowserHolds DEF CookiesChange, BrowserStarts, RevokeDevice
<1>2. ASSUME NEW l \in Login, RedditEnds(l) PROVE SyncIInv' /\ UNCHANGED backendVars
  BY <1>2, RedditEndsHolds DEF RedditEnds
<1>3. ASSUME NEW s \in Sync, NEW b \in Browser, PairDevice(s, b) \/ SyncTimerFires(s, b) \/ AskSync(s, b)
      PROVE  SyncIInv' /\ UNCHANGED backendVars
  BY <1>3, BeginningHolds DEF PairDevice, SyncTimerFires, AskSync
<1>4. ASSUME NEW s \in Sync,
             \/ CreateDeviceTicket(s) \/ FindTicket(s) \/ SyncFails(s)
             \/ \E m \in Moment : WriteTemporary(s, m)
             \/ RenameTemporary(s)
      PROVE  SyncIInv' /\ UNCHANGED backendVars
  BY <1>4, TicketHolds, SyncFailsHolds, WriteTemporaryHolds, RenameTemporaryHolds
     DEF CreateDeviceTicket, FindTicket, SyncFails, WriteTemporary, RenameTemporary
<1>5. ASSUME Collects PROVE SyncIInv'
  <2>1. UNCHANGED <<cookieVars, apiVars, excused>>
    BY <1>5 DEF Collects, LaunchBackend, NavigateHome, ApplySyncedSession, NavigateAgain, CloseBackend
  <2>2. UNCHANGED <<jar, timer, device, ended, sync, temp, file, excused>>
    BY <2>1 DEF cookieVars, apiVars
  <2> QED
    BY <2>2, NothingMovesHolds DEF SyncIInv, SyncTypeOK
<1> QED
  BY <1>1, <1>2, <1>3, <1>4, <1>5 DEF Step, Collects

\* What kept says of the file and the launch.
LEMMA BackendStepHolds ==
  ASSUME SyncIInv, SyncIInv', BackendIInv, SessionNext, Collects \/ UNCHANGED backendVars
  PROVE  BackendIInv'
<1>1. kept' = (check' # "closed" /\ Holding' /\ (check = "closed" \/ (kept /\ file' = file)))
  BY DEF SessionNext
<1>2. kept' \in BOOLEAN
  BY <1>1
<1>3. CASE UNCHANGED backendVars
  BY <1>1, <1>2, <1>3 DEF BackendIInv, BackendTypeOK, KeptIsUsed, backendVars
<1>4. CASE Collects
  <2>1. UNCHANGED <<file, ended>>
    BY <1>4 DEF Collects, LaunchBackend, NavigateHome, ApplySyncedSession, NavigateAgain, CloseBackend,
                cookieVars, apiVars
  <2>2. Holding' <=> Holding
    BY <2>1 DEF Holding, Alive
  <2>3. file # NoFile => file \in Sent
    BY DEF SyncIInv, SyncTypeOK
  <2>4. BackendTypeOK'
    BY <1>2, <1>4
       DEF Collects, LaunchBackend, NavigateHome, ApplySyncedSession, NavigateAgain, CloseBackend, Move,
           BackendIInv, BackendTypeOK
  <2>5. KeptIsUsed'
    <3> SUFFICES ASSUME kept'
                 PROVE  /\ check' \notin {"closed", "required"}
                        /\ check' = "again" => profile' = file.jar.login
      BY <1>1, <2>1 DEF KeptIsUsed
    <3>1. Holding /\ check' # "closed" /\ (check = "closed" \/ kept)
      BY <1>1, <2>2
    <3>2. CASE LaunchBackend
      BY <3>2 DEF LaunchBackend, Move
    <3>3. CASE NavigateHome
      BY <3>3 DEF NavigateHome, Move
    <3>4. CASE ApplySyncedSession
      BY <3>1, <3>4 DEF ApplySyncedSession, Move, Holding, Alive
    <3>5. CASE NavigateAgain
      <4>1. check = "again" /\ kept
        BY <3>1, <3>5 DEF NavigateAgain, Move
      <4>2. Alive(profile)
        BY <3>1, <4>1 DEF BackendIInv, KeptIsUsed, Holding
      <4> QED
        BY <3>5, <4>2 DEF NavigateAgain, Move
    <3>6. CASE CloseBackend
      BY <3>1, <3>6 DEF CloseBackend
    <3> QED
      BY <1>4, <3>2, <3>3, <3>4, <3>5, <3>6 DEF Collects
  <2> QED
    BY <2>4, <2>5 DEF BackendIInv
<1> QED
  BY <1>3, <1>4

\* The inductive invariant holds in every reachable state.
THEOREM SessionInductive == SessionSpec => []SessionIInv
<1>1. SessionIInv /\ [SessionNext]_sessionVars => SessionIInv'
  <2> SUFFICES ASSUME SessionIInv, [SessionNext]_sessionVars PROVE SessionIInv'
    OBVIOUS
  <2>1. CASE SessionNext
    <3>1. Step /\ SyncIInv /\ BackendIInv
      BY <2>1 DEF SessionNext, SessionIInv
    <3>2. SyncIInv' /\ (Collects \/ UNCHANGED backendVars)
      BY <3>1, SyncStepHolds
    <3>3. BackendIInv'
      BY <2>1, <3>1, <3>2, BackendStepHolds
    <3> QED
      BY <3>2, <3>3 DEF SessionIInv
  <2>2. CASE UNCHANGED sessionVars
    <3>1. UNCHANGED <<jar, timer, device, ended, sync, temp, file, excused, profile, check, kept>>
      BY <2>2 DEF sessionVars, cookieVars, apiVars, backendVars
    <3>2. SyncIInv'
      BY <3>1, NothingMovesHolds DEF SessionIInv, SyncIInv, SyncTypeOK
    <3>3. BackendIInv'
      BY <3>1 DEF SessionIInv, BackendIInv, BackendTypeOK, KeptIsUsed, Holding, Alive
    <3> QED
      BY <3>2, <3>3 DEF SessionIInv
  <2> QED
    BY <2>1, <2>2
<1> QED
  BY <1>1, SessionInitHolds, PTL DEF SessionSpec

\* For any number of browsers and synchronisations, what a browser shows Reddit
\* is in the file once its extension has nothing left to do, but for a reason.
THEOREM StaleIsExcused == SessionSpec => []StaleForAReason
<1>1. SessionIInv => StaleForAReason
  BY DEF SessionIInv, SyncIInv, FileIsCurrent, StaleForAReason
<1> QED
  BY <1>1, SessionInductive, PTL

\* The collector never asks for a synchronisation while the file has kept one
\* login that Reddit accepts since the launch.
THEOREM RequiredIsHonest == SessionSpec => []SyncRequiredIsHonest
<1>1. SessionIInv => SyncRequiredIsHonest
  BY DEF SessionIInv, BackendIInv, KeptIsUsed, SyncRequiredIsHonest
<1> QED
  BY <1>1, SessionInductive, PTL

\* A set of numbers has its least.
LEMMA MinIsLeast ==
  ASSUME NEW S \in SUBSET Nat, S # {}
  PROVE  Min(S) \in S /\ \A x \in S : Min(S) <= x
<1>1. PICK least \in S : \A y \in S : <<y, least>> \notin OpToRel(<, Nat)
  BY NatLessThanWellFounded, WFMin
<1>2. \A y \in S : ~(y < least)
  BY <1>1 DEF OpToRel
<1>3. \A y \in S : least <= y
  BY <1>2
<1> QED
  BY <1>3 DEF Min

\* What the first cards of a page are is finite, and the last of them is one post.
LEMMA CardsAreFinite ==
  ASSUME NEW page \in Seq(Post), NEW n \in 0..Len(page)
  PROVE  /\ IsFiniteSet({page[i] : i \in 1..n})
         /\ n = 0 => {page[i] : i \in 1..n} = {}
         /\ n = Len(page) => {page[i] : i \in 1..n} = ToSet(page)
         /\ n > 0 => {page[i] : i \in 1..n} = {page[i] : i \in 1..(n - 1)} \cup {page[n]}
<1> DEFINE T == {page[i] : i \in 1..n}
<1>1. IsFiniteSet(1..n)
  BY FS_Interval
<1>2. [i \in 1..n |-> page[i]] \in Surjection(1..n, T)
  BY DEF Surjection
<1>3. IsFiniteSet(T)
  BY <1>1, <1>2, FS_Surjection
<1>4. n = 0 => T = {}
  OBVIOUS
<1>5. n = Len(page) => T = ToSet(page)
  BY DEF ToSet
<1>6. n > 0 => T = {page[i] : i \in 1..(n - 1)} \cup {page[n]}
  <2> SUFFICES ASSUME n > 0 PROVE T = {page[i] : i \in 1..(n - 1)} \cup {page[n]}
    OBVIOUS
  <2>1. n \in Nat /\ 1..n = (1..(n - 1)) \cup {n}
    OBVIOUS
  <2> QED
    BY <2>1
<1> QED
  BY <1>3, <1>4, <1>5, <1>6

\* The posts after a page of a crawl that has not enough are those before it and
\* those of the page it wants, or as many as it asks for.
LEMMA KeptIs ==
  ASSUME CrawlTypeOK, crawl.pc = "round", IsFiniteSet(crawl.posts), ~Reached(crawl.posts),
         NEW page \in Page
  PROVE  LET had == ToSet(page) \cap crawl.source.wanted IN
         /\ crawl.posts \subseteq Kept(page) /\ Kept(page) \subseteq crawl.posts \cup had
         /\ IsFiniteSet(Kept(page)) /\ IsFiniteSet(had)
         /\ Cardinality(Kept(page)) <= crawl.source.target
         /\ Cardinality(Kept(page)) < crawl.source.target => Kept(page) = crawl.posts \cup had
         /\ Kept(page) \subseteq Post
<1> DEFINE had == ToSet(page) \cap crawl.source.wanted
           target == crawl.source.target
           cards(n) == {page[i] : i \in 1..n}
           ends == {n \in 0..Len(page) : n = Len(page) \/ Reached(After(n, page))}
           m == Min(ends)
<1>1. page \in Seq(Post) /\ Len(page) \in Nat
  BY CrawlAssumption
<1>2. crawl.source \in CrawlSource /\ target \in Nat /\ crawl.posts \subseteq Post
      /\ crawl.source.wanted \subseteq Post
  BY CrawlAssumption DEF CrawlTypeOK, NoCrawl, CrawlSource
<1>0. \A n \in 0..Len(page) :
        /\ IsFiniteSet(cards(n))
        /\ n = 0 => cards(n) = {}
        /\ n = Len(page) => cards(n) = ToSet(page)
        /\ n > 0 => cards(n) = cards(n - 1) \cup {page[n]}
  BY <1>1, CardsAreFinite
<1>3. \A n \in 0..Len(page) : IsFiniteSet(cards(n)) /\ cards(n) \subseteq ToSet(page)
  BY <1>0, <1>1 DEF ToSet
<1>4. \A n \in 0..Len(page) : IsFiniteSet(After(n, page))
  BY <1>3, FS_Union, FS_Intersection DEF After
<1>5. IsFiniteSet(ToSet(page))
  <2>1. Len(page) \in 0..Len(page)
    BY <1>1
  <2> HIDE DEF cards
  <2> QED
    BY <1>0, <2>1
<1>6. m \in ends /\ \A x \in ends : m <= x
  <2>1. ends \in SUBSET Nat /\ Len(page) \in ends
    BY <1>1
  <2> HIDE DEF ends
  <2> QED
    BY <2>1, MinIsLeast
<1>7. m \in 0..Len(page) /\ (m = Len(page) \/ Reached(After(m, page)))
  BY <1>6
<1>8. Kept(page) = After(m, page)
  BY DEF Kept
<1> HIDE DEF m
<1>9. CASE m = 0
  <2>1. cards(0) = {} /\ After(0, page) = crawl.posts
    BY <1>1 DEF After
  <2>2. Len(page) = 0
    BY <1>7, <1>9, <2>1
  <2>3. ToSet(page) = {}
    BY <1>0, <1>1, <2>1, <2>2
  <2>4. Cardinality(crawl.posts) \in Nat /\ Cardinality(crawl.posts) < target
    BY <1>2, FS_CardinalityType DEF Reached
  <2> QED
    BY <1>2, <1>5, <1>8, <1>9, <2>1, <2>3, <2>4
<1>10. CASE m > 0
  <2>1. m - 1 \in 0..Len(page) /\ m - 1 \notin ends
    BY <1>1, <1>6, <1>7, <1>10
  <2>2. ~Reached(After(m - 1, page))
    BY <2>1
  <2>3. cards(m) = cards(m - 1) \cup {page[m]}
    BY <1>0, <1>7, <1>10
  <2>4. \/ After(m, page) = After(m - 1, page) \cup {page[m]}
        \/ After(m, page) = After(m - 1, page)
    BY <2>3 DEF After
  <2>5. IsFiniteSet(After(m - 1, page)) /\ Cardinality(After(m - 1, page)) \in Nat
    BY <1>4, <2>1, FS_CardinalityType
  <2>6. Cardinality(After(m - 1, page)) < target
    BY <1>2, <2>2, <2>5 DEF Reached
  <2>7. Cardinality(After(m, page)) <= Cardinality(After(m - 1, page)) + 1
    <3>1. CASE After(m, page) = After(m - 1, page)
      BY <2>5, <3>1
    <3>2. CASE After(m, page) = After(m - 1, page) \cup {page[m]}
      <4>1. Cardinality(After(m - 1, page) \cup {page[m]})
              = IF page[m] \in After(m - 1, page) THEN Cardinality(After(m - 1, page))
                ELSE Cardinality(After(m - 1, page)) + 1
        BY <2>5, FS_AddElement
      <4> QED
        BY <2>5, <3>2, <4>1
    <3> QED
      BY <2>4, <3>1, <3>2
  <2>8. IsFiniteSet(After(m, page)) /\ Cardinality(After(m, page)) \in Nat
    BY <1>4, <1>7, FS_CardinalityType
  <2>9. Cardinality(After(m, page)) <= target
    BY <1>2, <2>5, <2>6, <2>7, <2>8
  <2>10. ASSUME Cardinality(After(m, page)) < target
         PROVE  After(m, page) = crawl.posts \cup had
    <3>1. m = Len(page)
      BY <1>2, <1>7, <2>8, <2>10 DEF Reached
    <3>2. cards(m) = ToSet(page)
      BY <1>0, <1>7, <3>1
    <3> QED
      BY <3>2 DEF After
  <2>11. crawl.posts \subseteq After(m, page) /\ After(m, page) \subseteq crawl.posts \cup had
    BY <1>3, <1>7 DEF After
  <2>12. IsFiniteSet(had)
    BY <1>5, FS_Intersection
  <2> QED
    BY <1>2, <1>8, <2>8, <2>9, <2>10, <2>11, <2>12
<1> QED
  BY <1>1, <1>7, <1>9, <1>10

\* What some pages had: nothing before the first, no less with each, and what
\* the last one has on top.
LEMMA ShownGrows ==
  ASSUME NEW ps \in Seq(Page), NEW w, NEW m \in 0..Len(ps), NEW n \in 0..Len(ps), m <= n
  PROVE  /\ Shown(ps, w, m) \subseteq Shown(ps, w, n)
         /\ Shown(ps, w, 0) = {}
<1>1. 1..m \subseteq 1..n /\ 1..0 = {}
  OBVIOUS
<1> QED
  BY <1>1 DEF Shown
LEMMA ShownByNext ==
  ASSUME NEW ps \in Seq(Page), NEW w, NEW page \in Page
  PROVE  /\ Append(ps, page) \in Seq(Page) /\ Len(Append(ps, page)) = Len(ps) + 1
         /\ \A n \in 0..Len(ps) : Shown(Append(ps, page), w, n) = Shown(ps, w, n)
         /\ Shown(Append(ps, page), w, Len(ps) + 1)
              = Shown(ps, w, Len(ps)) \cup (ToSet(page) \cap w)
<1> DEFINE qs == Append(ps, page)  k == Len(ps)
<1>1. k \in Nat /\ qs \in Seq(Page) /\ Len(qs) = k + 1 /\ qs[k + 1] = page
  OBVIOUS
<1>2. \A i \in 1..k : qs[i] = ps[i]
  OBVIOUS
<1> HIDE DEF qs, k
<1>3. ASSUME NEW n \in 0..k PROVE Shown(qs, w, n) = Shown(ps, w, n)
  <2>1. \A i \in 1..n : qs[i] = ps[i]
    BY <1>1, <1>2
  <2> QED
    BY <2>1 DEF Shown
<1>4. Shown(qs, w, k + 1) = Shown(qs, w, k) \cup (ToSet(page) \cap w)
  <2>1. 1..(k + 1) = (1..k) \cup {k + 1}
    BY <1>1
  <2> QED
    BY <1>1, <2>1 DEF Shown
<1> QED
  BY <1>1, <1>3, <1>4 DEF qs, k

\* A site is being read.
LEMMA ReadingHas ==
  ASSUME CrawlTypeOK, crawl.pc \notin {"none", "details"}
  PROVE  /\ crawl \in [pc : {"round", "over", "last"}, source : CrawlSource, posts : SUBSET Post,
                       round : Nat, stalls : Nat, old : BOOLEAN]
         /\ crawl.source.target \in Nat /\ crawl.source.target > 0
         /\ crawl.source.scrolls \in Nat /\ crawl.source.scrolls > 0
         /\ crawl.source.stalls \in Nat /\ crawl.source.stalls > 0
         /\ pages \in Seq(Page) /\ scrolled \in Seq(Page)
<1>1. crawl \in [pc : {"round", "over", "last"}, source : CrawlSource, posts : SUBSET Post,
                 round : Nat, stalls : Nat, old : BOOLEAN]
  BY DEF CrawlTypeOK, NoCrawl
<1>2. crawl.source \in CrawlSource
  BY <1>1
<1> QED
  BY <1>1, <1>2, CrawlAssumption DEF CrawlTypeOK, CrawlSource

\* Before a page is read, the posts are all that the pages had, and not enough.
LEMMA RoundHas ==
  ASSUME CrawlIInv, crawl.pc = "round"
  PROVE  LET seen == Shown(pages, crawl.source.wanted, Len(pages)) IN
         /\ crawl.posts = seen /\ IsFiniteSet(seen) /\ ~Reached(crawl.posts)
         /\ Cardinality(crawl.posts) \in Nat
         /\ Cardinality(crawl.posts) < crawl.source.target
<1>1. crawl.source.target \in Nat
  BY ReadingHas DEF CrawlIInv
<1>2. IsFiniteSet(crawl.posts)
  BY FS_Subset DEF CrawlIInv, PostsAreSeen, SeenIn
<1>3. Cardinality(crawl.posts) \in Nat
  BY <1>2, FS_CardinalityType
<1> QED
  BY <1>1, <1>3 DEF CrawlIInv, PostsAreSeen, RoundsAreCounted, SeenIn, Reached

\* A page is read on a site.
LEMMA PageRead ==
  ASSUME CrawlIInv, crawl.pc = "round", NEW page \in Page, pages' = Append(pages, page),
         crawl'.source = crawl.source, crawl'.posts = Kept(page)
  PROVE  LET w == crawl.source.wanted
             seen == Shown(pages', w, Len(pages')) IN
         /\ PostsAreSeen'
         /\ pages' \in Seq(Page) /\ Len(pages') = Len(pages) + 1
         /\ Reached(Kept(page)) => Cardinality(seen) >= crawl.source.target
         /\ ~Reached(Kept(page)) =>
              (Kept(page) = crawl.posts <=> seen = Shown(pages, w, Len(pages)))
         /\ \A n \in 0..Len(pages) : Shown(pages', w, n) = Shown(pages, w, n)
         /\ Kept(page) \subseteq Post
<1> DEFINE w == crawl.source.wanted
           had == ToSet(page) \cap w
           old == Shown(pages, w, Len(pages))
           seen == Shown(pages', w, Len(pages'))
<1>1. pages \in Seq(Page) /\ crawl.source.target \in Nat
  BY ReadingHas DEF CrawlIInv
<1>2. /\ pages' \in Seq(Page) /\ Len(pages') = Len(pages) + 1
      /\ \A n \in 0..Len(pages) : Shown(pages', w, n) = Shown(pages, w, n)
      /\ Shown(pages', w, Len(pages) + 1) = old \cup had
  <2>1. /\ Append(pages, page) \in Seq(Page) /\ Len(Append(pages, page)) = Len(pages) + 1
        /\ \A n \in 0..Len(pages) : Shown(Append(pages, page), w, n) = Shown(pages, w, n)
        /\ Shown(Append(pages, page), w, Len(pages) + 1) = old \cup had
    <3> HIDE DEF w
    <3> QED
      BY <1>1, ShownByNext
  <2> HIDE DEF w, old, had
  <2> QED
    BY <2>1
<1>3. seen = old \cup had
  BY <1>2
<1>4. crawl.posts = old /\ IsFiniteSet(old) /\ ~Reached(crawl.posts)
  BY RoundHas
<1>5. /\ Kept(page) \subseteq old \cup had
      /\ IsFiniteSet(Kept(page)) /\ IsFiniteSet(had)
      /\ Cardinality(Kept(page)) <= crawl.source.target
      /\ Cardinality(Kept(page)) < crawl.source.target => Kept(page) = old \cup had
      /\ Kept(page) \subseteq Post
  BY <1>4, KeptIs DEF CrawlIInv
<1>6. IsFiniteSet(seen)
  <2> HIDE DEF had, old, seen
  <2> QED
    BY <1>3, <1>4, <1>5, FS_Union
<1>7. Cardinality(Kept(page)) \in Nat /\ Cardinality(seen) \in Nat
  BY <1>5, <1>6, FS_CardinalityType
<1>8. Cardinality(Kept(page)) <= Cardinality(seen)
  BY <1>3, <1>5, <1>6, FS_Subset
<1> HIDE DEF w, had, old, seen
<1>9. PostsAreSeen'
  <2> SUFFICES LET s == Shown(pages', crawl'.source.wanted, Len(pages')) IN
               /\ IsFiniteSet(s) /\ crawl'.posts \subseteq s
               /\ Cardinality(crawl'.posts) <= crawl'.source.target
               /\ Cardinality(crawl'.posts) < crawl'.source.target => crawl'.posts = s
    BY DEF PostsAreSeen, SeenIn
  <2>1. Shown(pages', crawl'.source.wanted, Len(pages')) = seen
    BY DEF seen, w
  <2> QED
    BY <1>3, <1>5, <1>6, <2>1
<1>10. Reached(Kept(page)) => Cardinality(seen) >= crawl.source.target
  BY <1>1, <1>7, <1>8 DEF Reached
<1>11. ~Reached(Kept(page)) => (Kept(page) = crawl.posts <=> seen = old)
  <2>1. ~Reached(Kept(page)) => Cardinality(Kept(page)) < crawl.source.target
    BY <1>1, <1>7 DEF Reached
  <2> QED
    BY <1>3, <1>4, <1>5, <2>1
<1> QED
  BY <1>2, <1>5, <1>9, <1>10, <1>11 DEF w, old, seen

LEMMA CrawlInitHolds == CrawlInit => CrawlIInv
<1> SUFFICES ASSUME CrawlInit PROVE CrawlIInv
  OBVIOUS
<1>1. crawl.pc = "none" /\ crawl = NoCrawl /\ pages = <<>> /\ scrolled = <<>>
  BY DEF CrawlInit, NoCrawl
<1>2. CrawlTypeOK
  BY <1>1 DEF CrawlTypeOK
<1> QED
  BY <1>1, <1>2 DEF CrawlIInv, PostsAreSeen, RoundsAreCounted, OverForAReason, OldAfterNothing,
    WorkersAreBusy, DetailsAreComplete

\* A source's page is opened.
LEMMA OpenPageHolds ==
  ASSUME CrawlIInv, NEW source \in CrawlSource, OpenPage(source)
  PROVE  CrawlIInv'
<1>1. /\ crawl' = [pc |-> "round", source |-> source, posts |-> {},
                   round |-> 0, stalls |-> 0, old |-> FALSE]
      /\ pages' = <<>> /\ scrolled' = <<>>
  BY DEF OpenPage, CrawlIInv, CrawlTypeOK, NoCrawl
<1>2. source.target \in Nat /\ source.target > 0 /\ source.scrolls \in Nat /\ source.stalls > 0
  BY CrawlAssumption DEF CrawlSource
<1>3. Shown(<<>>, source.wanted, 0) = {} /\ IsFiniteSet({}) /\ Cardinality({}) = 0
  BY FS_EmptySet DEF Shown
<1>4. CrawlTypeOK'
  BY <1>1 DEF CrawlTypeOK
<1>5. PostsAreSeen'
  <2>1. Shown(pages', crawl'.source.wanted, Len(pages')) = {} /\ crawl'.posts = {}
        /\ crawl'.source.target = source.target
    BY <1>1, <1>3
  <2> QED
    BY <1>2, <1>3, <2>1 DEF PostsAreSeen, SeenIn
<1>6. RoundsAreCounted'
  BY <1>1, <1>2, <1>3 DEF RoundsAreCounted, SeenIn, Reached
<1>7. OldAfterNothing'
  BY <1>1 DEF OldAfterNothing
<1> QED
  BY <1>1, <1>4, <1>5, <1>6, <1>7 DEF CrawlIInv, OverForAReason, WorkersAreBusy, DetailsAreComplete

\* What reading a page leaves of the state.
LEMMA ReadingIsTyped ==
  ASSUME CrawlIInv, crawl.pc = "round", NEW page \in Page,
         NEW posts \in SUBSET Post, NEW stalls \in Nat, NEW old \in BOOLEAN,
         pages' \in Seq(Page), scrolled' \in Seq(Page),
         GoOn(posts, stalls, old) \/ Stop(posts) \/ crawl' = [crawl EXCEPT !.pc = "last", !.posts = posts]
  PROVE  /\ CrawlTypeOK' /\ WorkersAreBusy' /\ DetailsAreComplete'
         /\ crawl'.source = crawl.source /\ crawl'.posts = posts
<1>1. crawl \in [pc : {"round", "over", "last"}, source : CrawlSource, posts : SUBSET Post,
                 round : Nat, stalls : Nat, old : BOOLEAN]
  BY ReadingHas DEF CrawlIInv
<1>2. /\ crawl' \in [pc : {"round", "over", "last"}, source : CrawlSource, posts : SUBSET Post,
                     round : Nat, stalls : Nat, old : BOOLEAN]
      /\ crawl'.source = crawl.source /\ crawl'.posts = posts
  <2>1. CASE GoOn(posts, stalls, old)
    <3>1. PICK pc \in {"round", "over"} :
            crawl' = [crawl EXCEPT !.pc = pc, !.round = @ + 1, !.posts = posts,
                                   !.stalls = stalls, !.old = old]
      BY <2>1 DEF GoOn
    <3>2. crawl' = [pc |-> pc, source |-> crawl.source, posts |-> posts,
                    round |-> crawl.round + 1, stalls |-> stalls, old |-> old]
      BY <1>1, <3>1
    <3>3. crawl.round + 1 \in Nat /\ crawl.source \in CrawlSource
      BY <1>1
    <3> QED
      BY <3>2, <3>3
  <2>2. CASE Stop(posts)
    BY <1>1, <2>2 DEF Stop
  <2>3. CASE crawl' = [crawl EXCEPT !.pc = "last", !.posts = posts]
    BY <1>1, <2>3
  <2> QED
    BY <2>1, <2>2, <2>3
<1>3. crawl'.pc # "details"
  BY <1>2
<1> QED
  BY <1>2, <1>3 DEF CrawlTypeOK, WorkersAreBusy, DetailsAreComplete

\* The last page read brings enough.
LEMMA ReadEnoughHolds ==
  ASSUME CrawlIInv, NEW page \in Page, ReadEnough(page)
  PROVE  CrawlIInv'
<1>1. /\ crawl.pc = "round" /\ pages' = Append(pages, page) /\ Reached(Kept(page))
      /\ Stop(Kept(page)) /\ scrolled' = scrolled
  BY DEF ReadEnough, Shows, Enough
<1>2. crawl \in [pc : {"round", "over", "last"}, source : CrawlSource, posts : SUBSET Post,
                 round : Nat, stalls : Nat, old : BOOLEAN]
  BY <1>1, ReadingHas DEF CrawlIInv
<1>3. /\ crawl'.pc = "over" /\ crawl'.source = crawl.source /\ crawl'.posts = Kept(page)
      /\ crawl'.old = crawl.old
  BY <1>1, <1>2 DEF Stop
<1>4. /\ PostsAreSeen' /\ pages' \in Seq(Page) /\ Kept(page) \subseteq Post
      /\ Cardinality(Shown(pages', crawl.source.wanted, Len(pages'))) >= crawl.source.target
  BY <1>1, <1>3, PageRead
<1>5. CrawlTypeOK' /\ WorkersAreBusy' /\ DetailsAreComplete'
  <2>1. scrolled' \in Seq(Page)
    BY <1>1 DEF CrawlIInv, CrawlTypeOK
  <2> QED
    BY <1>1, <1>4, <2>1, ReadingIsTyped
<1>6. RoundsAreCounted'
  BY <1>3 DEF RoundsAreCounted
<1>7. OverForAReason'
  BY <1>3, <1>4 DEF OverForAReason, HasReason, SeenIn
<1>8. OldAfterNothing'
  BY <1>1, <1>3 DEF CrawlIInv, OldAfterNothing
<1> QED
  BY <1>4, <1>5, <1>6, <1>7, <1>8 DEF CrawlIInv

\* Reading goes on, or ends for want of new posts, of rounds or of pages.
LEMMA ReadMoreHolds ==
  ASSUME CrawlIInv, NEW page \in Page, ReadMore(page)
  PROVE  CrawlIInv'
<1> DEFINE stalls == IF Kept(page) = crawl.posts THEN crawl.stalls + 1 ELSE 0
           w == crawl.source.wanted
           n == Len(pages)
<1>1. /\ crawl.pc = "round" /\ pages' = Append(pages, page)
      /\ ~Reached(Kept(page)) /\ ~Empty(page) /\ scrolled' = scrolled
  BY DEF ReadMore, Shows, Enough
<1>2. \/ stalls >= crawl.source.stalls /\ Stop(Kept(page))
      \/ stalls < crawl.source.stalls /\ GoOn(Kept(page), stalls, crawl.old)
      \/ crawl' = [crawl EXCEPT !.pc = "last", !.posts = Kept(page)]
  BY DEF ReadMore
<1>3. /\ crawl \in [pc : {"round", "over", "last"}, source : CrawlSource, posts : SUBSET Post,
                    round : Nat, stalls : Nat, old : BOOLEAN]
      /\ crawl.source.scrolls \in Nat /\ crawl.source.stalls \in Nat /\ crawl.source.stalls > 0
      /\ pages \in Seq(Page) /\ scrolled \in Seq(Page)
  BY <1>1, ReadingHas DEF CrawlIInv
<1>4. stalls \in Nat /\ n \in Nat /\ Len(scrolled) \in Nat
  BY <1>3
<1>5. crawl'.source = crawl.source /\ crawl'.posts = Kept(page) /\ crawl'.old = crawl.old
  <2>1. CASE Stop(Kept(page))
    BY <1>3, <2>1 DEF Stop
  <2>2. CASE GoOn(Kept(page), stalls, crawl.old)
    BY <1>3, <2>2 DEF GoOn
  <2>3. CASE crawl' = [crawl EXCEPT !.pc = "last", !.posts = Kept(page)]
    BY <1>3, <2>3
  <2> QED
    BY <1>2, <2>1, <2>2, <2>3
<1>6. /\ PostsAreSeen' /\ pages' \in Seq(Page) /\ Kept(page) \subseteq Post
      /\ Len(pages') = n + 1
      /\ Kept(page) = crawl.posts <=> Shown(pages', w, n + 1) = Shown(pages, w, n)
      /\ \A m \in 0..n : Shown(pages', w, m) = Shown(pages, w, m)
  <2>1. Len(pages') = n + 1
    BY <1>1, <1>3
  <2> QED
    BY <1>1, <1>5, <2>1, PageRead
<1>7. CrawlTypeOK' /\ WorkersAreBusy' /\ DetailsAreComplete'
  <2> HIDE DEF stalls
  <2> QED
    <3>1. \/ GoOn(Kept(page), stalls, crawl.old) \/ Stop(Kept(page))
          \/ crawl' = [crawl EXCEPT !.pc = "last", !.posts = Kept(page)]
      BY <1>2
    <3>2. Kept(page) \in SUBSET Post /\ crawl.old \in BOOLEAN
      BY <1>3, <1>6
    <3> QED
      BY <1>1, <1>3, <1>4, <1>6, <3>1, <3>2, ReadingIsTyped
<1>8. OldAfterNothing'
  <2>1. crawl'.pc \notin {"none", "details"}
    BY <1>3, <1>2 DEF Stop, GoOn
  <2> QED
    BY <1>1, <1>5, <2>1 DEF CrawlIInv, OldAfterNothing
<1>9. /\ crawl.stalls \in 0..n /\ crawl.stalls < crawl.source.stalls
      /\ Shown(pages, w, n - crawl.stalls) = Shown(pages, w, n)
      /\ crawl.stalls < n => Shown(pages, w, n - crawl.stalls - 1) # Shown(pages, w, n)
      /\ crawl.round = Len(scrolled) + n /\ crawl.round <= crawl.source.scrolls
      /\ ~crawl.old => scrolled = <<>>
  BY <1>1 DEF CrawlIInv, RoundsAreCounted, SeenIn
\* The last pages that brought nothing, counted with this one.
<1>10. /\ stalls \in 0..(n + 1)
       /\ Shown(pages', w, n + 1 - stalls) = Shown(pages', w, n + 1)
       /\ stalls < n + 1 => Shown(pages', w, n + 1 - stalls - 1) # Shown(pages', w, n + 1)
  <2>1. CASE Kept(page) = crawl.posts
    <3>1. stalls = crawl.stalls + 1 /\ n + 1 - stalls = n - crawl.stalls
          /\ n - crawl.stalls \in 0..n /\ stalls \in 0..(n + 1)
      BY <1>4, <1>9, <2>1
    <3>2. Shown(pages', w, n + 1 - stalls) = Shown(pages', w, n + 1)
      BY <1>6, <1>9, <2>1, <3>1
    <3>3. ASSUME stalls < n + 1
          PROVE  Shown(pages', w, n + 1 - stalls - 1) # Shown(pages', w, n + 1)
      <4>1. crawl.stalls < n /\ n + 1 - stalls - 1 = n - crawl.stalls - 1
            /\ n - crawl.stalls - 1 \in 0..n
        BY <1>4, <1>9, <3>1, <3>3
      <4> QED
        BY <1>6, <1>9, <2>1, <4>1
    <3> QED
      BY <3>1, <3>2, <3>3
  <2>2. CASE Kept(page) # crawl.posts
    <3>1. stalls = 0 /\ n + 1 - stalls = n + 1 /\ n + 1 - stalls - 1 = n /\ n \in 0..n
      BY <1>4, <2>2
    <3> QED
      BY <1>4, <1>6, <2>2, <3>1
  <2> QED
    BY <2>1, <2>2
<1>11. CASE stalls >= crawl.source.stalls /\ Stop(Kept(page))
  <2>1. crawl'.pc = "over"
    BY <1>3, <1>11 DEF Stop
  <2>2. stalls = crawl.source.stalls
    BY <1>3, <1>9, <1>11
  <2>3. DriedUp'
    <3>1. n + 1 >= crawl.source.stalls
      BY <1>4, <1>10, <2>2
    <3>2. Shown(pages', w, n + 1) = Shown(pages', w, n + 1 - crawl.source.stalls)
      BY <1>10, <2>2
    <3>3. Len(pages') = n + 1 /\ crawl'.source.wanted = w
          /\ crawl'.source.stalls = crawl.source.stalls
      BY <1>5, <1>6
    <3>4. Len(pages') >= crawl'.source.stalls
      BY <3>1, <3>3
    <3>5. Len(pages') - crawl'.source.stalls = n + 1 - crawl.source.stalls
      <4>1. n \in Nat /\ crawl.source.stalls \in Nat
        BY <1>3, <1>4
      <4> QED
        BY <3>3, <4>1
    <3>6. Shown(pages', crawl'.source.wanted, Len(pages'))
            = Shown(pages', crawl'.source.wanted, Len(pages') - crawl'.source.stalls)
      <4> HIDE DEF n, w
      <4> QED
        BY <3>2, <3>3, <3>5, Zenon
    <3> QED
      BY <3>4, <3>6 DEF DriedUp, SeenIn
  <2>4. OverForAReason' /\ RoundsAreCounted'
    BY <2>1, <2>3 DEF OverForAReason, HasReason, RoundsAreCounted
  <2> QED
    BY <1>6, <1>7, <1>8, <2>4 DEF CrawlIInv
<1>12. CASE stalls < crawl.source.stalls /\ GoOn(Kept(page), stalls, crawl.old)
  <2> HIDE DEF stalls
  <2>1. /\ crawl'.pc = IF crawl.round < crawl.source.scrolls THEN "round" ELSE "over"
        /\ crawl'.round = crawl.round + 1 /\ crawl'.stalls = stalls
    BY <1>1, <1>3, <1>12 DEF GoOn
  <2>2. CASE crawl.round < crawl.source.scrolls
    <3>1. ~Reached(crawl.posts)'
      BY <1>1, <1>5 DEF Reached
    <3>2. crawl'.round = Len(scrolled') + (n + 1) /\ crawl'.round <= crawl'.source.scrolls
      BY <1>1, <1>3, <1>4, <1>5, <1>9, <2>1, <2>2
    <3>3. ~crawl'.old /\ crawl'.source.subreddit /\ crawl'.round >= 2 => crawl'.posts # {}
      BY <1>1, <1>3, <1>5, <2>1 DEF Empty
    <3>4. RoundsAreCounted'
      BY <1>1, <1>5, <1>6, <1>9, <1>10, <1>12, <2>1, <3>1, <3>2, <3>3
      DEF RoundsAreCounted, SeenIn, Reached
    <3> QED
      BY <1>6, <1>7, <1>8, <2>1, <2>2, <3>4 DEF CrawlIInv, OverForAReason
  <2>3. CASE ~(crawl.round < crawl.source.scrolls)
    <3>1. UsedUp'
      BY <1>1, <1>3, <1>4, <1>5, <1>6, <1>9, <2>3 DEF UsedUp
    <3> QED
      BY <1>6, <1>7, <1>8, <2>1, <2>3, <3>1
      DEF CrawlIInv, OverForAReason, HasReason, RoundsAreCounted
  <2> QED
    BY <2>2, <2>3
<1>13. CASE crawl' = [crawl EXCEPT !.pc = "last", !.posts = Kept(page)]
  <2>1. crawl'.pc = "last"
    BY <1>3, <1>13
  <2> QED
    BY <1>6, <1>7, <1>8, <2>1 DEF CrawlIInv, OverForAReason, RoundsAreCounted
<1> QED
  BY <1>2, <1>11, <1>12, <1>13

\* A subreddit has shown nothing twice: old Reddit is read instead.
LEMMA FallBackHolds ==
  ASSUME CrawlIInv, NEW page \in Page, FallBack(page)
  PROVE  CrawlIInv'
<1> DEFINE w == crawl.source.wanted
<1>1. /\ crawl.pc = "round" /\ Kept(page) = {} /\ crawl.round >= 1
      /\ crawl.source.subreddit /\ ~crawl.old
      /\ GoOn({}, 0, TRUE) /\ pages' = <<>> /\ scrolled' = Append(pages, page)
  BY DEF FallBack, Empty
<1>2. /\ crawl \in [pc : {"round", "over", "last"}, source : CrawlSource, posts : SUBSET Post,
                    round : Nat, stalls : Nat, old : BOOLEAN]
      /\ crawl.source.scrolls \in Nat /\ crawl.source.stalls \in Nat /\ crawl.source.stalls > 0
      /\ crawl.source.target \in Nat /\ crawl.source.target > 0
      /\ pages \in Seq(Page)
  BY <1>1, ReadingHas DEF CrawlIInv
<1>3. /\ crawl'.pc = IF crawl.round < crawl.source.scrolls THEN "round" ELSE "over"
      /\ crawl'.source = crawl.source /\ crawl'.posts = {} /\ crawl'.old = TRUE
      /\ crawl'.round = crawl.round + 1 /\ crawl'.stalls = 0
  BY <1>1, <1>2 DEF GoOn
<1>4. IsFiniteSet({}) /\ Cardinality({}) = 0
  BY FS_EmptySet
<1>5. crawl.posts = {} /\ ToSet(page) \cap w = {} /\ Shown(pages, w, Len(pages)) = {}
  <2>1. crawl.posts = Shown(pages, w, Len(pages)) /\ IsFiniteSet(crawl.posts)
        /\ ~Reached(crawl.posts)
    BY <1>1, RoundHas
  <2>2. /\ crawl.posts \subseteq Kept(page)
        /\ Cardinality(Kept(page)) < crawl.source.target =>
             Kept(page) = crawl.posts \cup (ToSet(page) \cap w)
    BY <1>1, <2>1, KeptIs DEF CrawlIInv
  <2> QED
    BY <1>1, <1>2, <1>4, <2>1, <2>2
<1>6. Len(pages) = 1 /\ crawl.round = 1 /\ crawl.round <= crawl.source.scrolls
  BY <1>1, <1>2, <1>5 DEF CrawlIInv, RoundsAreCounted
<1>7. /\ scrolled' \in Seq(Page) /\ Len(scrolled') = 2
      /\ \A p \in ToSet(scrolled') : ToSet(p) \cap w = {}
  <2>1. scrolled' \in Seq(Page) /\ Len(scrolled') = 2
        /\ scrolled'[1] = pages[1] /\ scrolled'[2] = page
    <3>1. Append(pages, page) \in Seq(Page) /\ Len(Append(pages, page)) = Len(pages) + 1
          /\ \A i \in 1..Len(pages) : Append(pages, page)[i] = pages[i]
          /\ Append(pages, page)[Len(pages) + 1] = page
      BY <1>2
    <3> QED
      BY <1>1, <1>6, <3>1
  <2>2. ToSet(scrolled') = {pages[1], page}
    BY <2>1 DEF ToSet
  <2>3. ToSet(pages[1]) \cap w = {}
    BY <1>5, <1>6 DEF Shown
  <2> QED
    BY <1>5, <2>1, <2>2, <2>3
<1>8. CrawlTypeOK' /\ WorkersAreBusy' /\ DetailsAreComplete'
  <2>1. {} \in SUBSET Post /\ 0 \in Nat /\ TRUE \in BOOLEAN /\ pages' \in Seq(Page)
    BY <1>1
  <2> QED
    BY <1>1, <1>7, <2>1, ReadingIsTyped
<1>9. Shown(pages', crawl'.source.wanted, 0) = {} /\ pages' = <<>> /\ Len(pages') = 0
  BY <1>1 DEF Shown
<1>10. PostsAreSeen'
  <2>1. Shown(pages', crawl'.source.wanted, Len(pages')) = {}
    BY <1>9
  <2> QED
    BY <1>2, <1>3, <1>4, <2>1 DEF PostsAreSeen, SeenIn
<1>11. RoundsAreCounted'
  BY <1>2, <1>3, <1>4, <1>6, <1>7, <1>9 DEF RoundsAreCounted, SeenIn, Reached
<1>12. OverForAReason'
  <2>1. crawl'.pc = "over" => UsedUp'
    BY <1>2, <1>3, <1>6, <1>7, <1>9 DEF UsedUp
  <2> QED
    BY <2>1 DEF OverForAReason, HasReason
<1>13. OldAfterNothing'
  BY <1>1, <1>3, <1>7 DEF OldAfterNothing
<1> QED
  BY <1>8, <1>10, <1>11, <1>12, <1>13 DEF CrawlIInv

\* The first posts' pages are opened.
LEMMA EnrichDetailsHolds ==
  ASSUME CrawlIInv, EnrichDetails
  PROVE  CrawlIInv'
<1> DEFINE n == Cardinality(crawl.posts)
           first == Min({Workers, n})
<1>1. crawl.pc \in {"over", "last"} /\ crawl.posts # {}
      /\ crawl' = [pc |-> "details", got |-> [i \in 1..n |-> "nothing"],
                   open |-> 1..first, cursor |-> first]
      /\ pages' = <<>> /\ scrolled' = <<>>
  BY DEF EnrichDetails
<1>2. n \in Nat /\ n > 0 /\ Workers \in 1..4
  <2>1. IsFiniteSet(crawl.posts)
    BY <1>1, FS_Subset DEF CrawlIInv, PostsAreSeen
  <2> QED
    BY <1>1, <2>1, FS_CardinalityType, FS_EmptySet, CrawlAssumption
<1> HIDE DEF n
<1>3. first \in {Workers, n} /\ first <= Workers /\ first <= n
  <2>1. {Workers, n} \in SUBSET Nat /\ {Workers, n} # {}
    BY <1>2
  <2> QED
    BY <2>1, MinIsLeast
<1> HIDE DEF first
<1>4. first \in 1..n /\ Cardinality(1..first) = first /\ 1..first # {}
  <2>1. first \in 1..n /\ first \in Int /\ 1 \in Int
    BY <1>2, <1>3
  <2>2. Cardinality(1..first) = IF 1 > first THEN 0 ELSE first - 1 + 1
    BY <2>1, FS_Interval
  <2>3. Cardinality(1..first) = first
    BY <1>2, <2>1, <2>2
  <2>4. 1 \in 1..first
    BY <1>2, <2>1
  <2> QED
    BY <2>1, <2>3, <2>4
<1>5. CrawlTypeOK'
  <2>1. crawl' \in [pc : {"details"}, got : [1..n -> {"nothing", "details", "plain"}],
                    open : SUBSET (1..n), cursor : 0..n]
    BY <1>1, <1>2, <1>4
  <2> QED
    BY <1>1, <1>2, <2>1 DEF CrawlTypeOK
<1>6. WorkersAreBusy' /\ DetailsAreComplete'
  BY <1>1, <1>2, <1>3, <1>4 DEF WorkersAreBusy, DetailsAreComplete
<1> QED
  BY <1>1, <1>5, <1>6 DEF CrawlIInv, PostsAreSeen, RoundsAreCounted, OverForAReason, OldAfterNothing

\* A post's page is over, and the next one is opened.
LEMMA FetchDetailHolds ==
  ASSUME CrawlIInv, NEW i, FetchDetail(i)
  PROVE  CrawlIInv'
<1> DEFINE next == {crawl.cursor + 1} \cap DOMAIN crawl.got
           open == (crawl.open \ {i}) \cup next
<1>1. crawl.pc = "details" /\ i \in crawl.open /\ pages' = pages /\ scrolled' = scrolled
  BY DEF FetchDetail
<1>2. PICK g \in {"details", "plain"} :
        crawl' = [crawl EXCEPT !.got[i] = g, !.cursor = @ + Cardinality(next), !.open = open]
  BY DEF FetchDetail
<1>3. PICK n \in Nat :
        crawl \in [pc : {"details"}, got : [1..n -> {"nothing", "details", "plain"}],
                   open : SUBSET (1..n), cursor : 0..n]
  BY <1>1 DEF CrawlIInv, CrawlTypeOK, NoCrawl
<1>4. /\ crawl.got \in [1..n -> {"nothing", "details", "plain"}] /\ DOMAIN crawl.got = 1..n
      /\ crawl.open \subseteq 1..n /\ crawl.cursor \in 0..n /\ i \in 1..n
  BY <1>1, <1>3
<1>5. /\ Cardinality(crawl.open) <= Workers /\ crawl.open \subseteq 1..crawl.cursor
      /\ crawl.cursor + 1 \in 1..n => Cardinality(crawl.open) = Workers
      /\ \A j \in 1..n : crawl.got[j] = "nothing" <=> j \in crawl.open \/ j > crawl.cursor
  BY <1>1, <1>4 DEF CrawlIInv, WorkersAreBusy, DetailsAreComplete
<1>6. /\ IsFiniteSet(crawl.open \ {i}) /\ Cardinality(crawl.open) \in Nat
      /\ Cardinality(crawl.open \ {i}) = Cardinality(crawl.open) - 1
  <2>1. IsFiniteSet(crawl.open)
    <3>1. IsFiniteSet(1..n)
      BY <1>3, FS_Interval
    <3> QED
      BY <1>4, <3>1, FS_Subset
  <2> QED
    BY <1>1, <2>1, FS_RemoveElement, FS_CardinalityType
<1>7. /\ crawl'.pc = "details" /\ crawl'.got = [crawl.got EXCEPT ![i] = g]
      /\ crawl'.cursor = crawl.cursor + Cardinality(next) /\ crawl'.open = open
      /\ crawl' = [pc |-> crawl'.pc, got |-> crawl'.got, open |-> crawl'.open,
                   cursor |-> crawl'.cursor]
  BY <1>2, <1>3
<1>8. /\ crawl'.got \in [1..n -> {"nothing", "details", "plain"}]
      /\ \A j \in 1..n : crawl'.got[j] = IF j = i THEN g ELSE crawl.got[j]
  BY <1>4, <1>7
<1>9. Workers \in 1..4
  BY CrawlAssumption
<1>10. ASSUME crawl'.cursor \in 0..n, open \subseteq 1..n,
              Cardinality(open) <= Workers, open \subseteq 1..crawl'.cursor,
              crawl'.cursor + 1 \in 1..n => Cardinality(open) = Workers,
              open = {} => crawl'.cursor >= n,
              \A j \in 1..n : crawl'.got[j] = "nothing" <=> j \in open \/ j > crawl'.cursor
       PROVE  CrawlIInv'
  <2> HIDE DEF open
  <2>1. CrawlTypeOK'
    <3>1. crawl' \in [pc : {"details"}, got : [1..n -> {"nothing", "details", "plain"}],
                      open : SUBSET (1..n), cursor : 0..n]
      BY <1>7, <1>8, <1>10
    <3> QED
      BY <1>1, <1>3, <3>1 DEF CrawlIInv, CrawlTypeOK
  <2>2. DOMAIN crawl'.got = 1..n
    BY <1>8
  <2>3. WorkersAreBusy'
    BY <1>7, <1>10, <2>2 DEF WorkersAreBusy
  <2>4. DetailsAreComplete'
    <3>1. crawl'.open = {} => \A j \in 1..n : crawl'.got[j] # "nothing"
      <4> SUFFICES ASSUME open = {}, NEW j \in 1..n PROVE crawl'.got[j] # "nothing"
        BY <1>7
      <4>1. crawl'.cursor >= n /\ ~(j > crawl'.cursor)
        BY <1>3, <1>10
      <4>2. crawl'.got[j] = "nothing" <=> j \in open \/ j > crawl'.cursor
        BY <1>10
      <4> QED
        BY <4>1, <4>2
    <3> QED
      BY <1>7, <1>10, <2>2, <3>1 DEF DetailsAreComplete
  <2> QED
    BY <1>7, <2>1, <2>3, <2>4
    DEF CrawlIInv, PostsAreSeen, RoundsAreCounted, OverForAReason, OldAfterNothing
<1>11. CASE crawl.cursor + 1 \in 1..n
  <2>1. next = {crawl.cursor + 1} /\ Cardinality(next) = 1
    <3>1. next = {crawl.cursor + 1}
      BY <1>4, <1>11
    <3> QED
      BY <3>1, FS_Singleton
  <2>2. crawl.cursor + 1 \notin crawl.open \ {i}
    BY <1>4, <1>5
  <2>3. Cardinality(open) = Workers
    <3>1. open = (crawl.open \ {i}) \cup {crawl.cursor + 1}
      BY <2>1
    <3>2. Cardinality(open) = Cardinality(crawl.open \ {i}) + 1
      BY <1>6, <2>2, <3>1, FS_AddElement
    <3> QED
      BY <1>5, <1>6, <1>9, <1>11, <3>2
  <2>4. crawl'.cursor = crawl.cursor + 1 /\ open = (crawl.open \ {i}) \cup {crawl.cursor + 1}
    BY <1>7, <2>1
  <2> HIDE DEF open
  <2>5. open # {} /\ open \subseteq 1..n /\ open \subseteq 1..(crawl.cursor + 1)
    BY <1>4, <1>5, <1>11, <2>4
  <2>6. \A j \in 1..n : crawl'.got[j] = "nothing" <=> j \in open \/ j > crawl.cursor + 1
    <3> SUFFICES ASSUME NEW j \in 1..n
                 PROVE  crawl'.got[j] = "nothing" <=> j \in open \/ j > crawl.cursor + 1
      OBVIOUS
    <3>1. i \in 1..crawl.cursor /\ g # "nothing" /\ crawl.cursor \in Nat
      BY <1>1, <1>4, <1>5
    <3>2. CASE j = i
      <4>1. crawl'.got[j] # "nothing"
        BY <1>8, <3>1, <3>2
      <4>2. j \notin open /\ ~(j > crawl.cursor + 1)
        BY <2>4, <3>1, <3>2
      <4> QED
        BY <4>1, <4>2
    <3>3. CASE j # i
      <4>1. crawl'.got[j] = crawl.got[j]
        BY <1>8, <3>3
      <4>2. crawl.got[j] = "nothing" <=> j \in crawl.open \/ j > crawl.cursor
        BY <1>5
      <4>3. j \in open <=> j \in crawl.open \/ j = crawl.cursor + 1
        BY <2>4, <3>3
      <4>4. j > crawl.cursor <=> j = crawl.cursor + 1 \/ j > crawl.cursor + 1
        BY <3>1
      <4> QED
        BY <4>1, <4>2, <4>3, <4>4
    <3> QED
      BY <3>2, <3>3
  <2> QED
    BY <1>4, <1>9, <1>10, <1>11, <2>3, <2>4, <2>5, <2>6
<1>12. CASE crawl.cursor + 1 \notin 1..n
  <2>1. crawl.cursor = n
    BY <1>3, <1>4, <1>12
  <2>2. next = {} /\ Cardinality(next) = 0
    BY <1>4, <1>12, FS_EmptySet
  <2>3. crawl'.cursor = n /\ open = crawl.open \ {i}
    BY <1>3, <1>7, <2>1, <2>2
  <2> HIDE DEF open, next
  <2>4. Cardinality(open) <= Workers
    BY <1>5, <1>6, <1>9, <2>3
  <2>5. \A j \in 1..n : crawl'.got[j] = "nothing" <=> j \in open \/ j > n
    BY <1>4, <1>5, <1>8, <2>1, <2>3
  <2> QED
    BY <1>3, <1>4, <1>10, <2>3, <2>4, <2>5
<1> QED
  BY <1>11, <1>12

\* What the invariant says of the posts and of the end, as the run checks it.
LEMMA InvariantIsFaithful ==
  ASSUME CrawlIInv
  PROVE  CrawlIsFaithful
<1>1. PostsAreTaken
  <2> SUFFICES ASSUME crawl.pc \notin {"none", "details"} PROVE PostsAreTaken
    BY DEF PostsAreTaken
  <2> DEFINE seen == SeenIn(Len(pages))
             target == crawl.source.target
             taken == Cardinality(crawl.posts)
  <2>1. target \in Nat
    BY ReadingHas DEF CrawlIInv
  <2>2. /\ IsFiniteSet(seen) /\ crawl.posts \subseteq seen /\ taken <= target
        /\ taken < target => crawl.posts = seen
    BY DEF CrawlIInv, PostsAreSeen
  <2> HIDE DEF seen, target
  <2>3. IsFiniteSet(crawl.posts) /\ taken \in Nat /\ Cardinality(seen) \in Nat
        /\ taken <= Cardinality(seen)
    BY <2>2, FS_Subset, FS_CardinalityType
  <2>4. /\ Min({target, Cardinality(seen)}) \in {target, Cardinality(seen)}
        /\ Min({target, Cardinality(seen)}) <= target
        /\ Min({target, Cardinality(seen)}) <= Cardinality(seen)
    <3>1. {target, Cardinality(seen)} \in SUBSET Nat /\ {target, Cardinality(seen)} # {}
      BY <2>1, <2>3
    <3> QED
      BY <3>1, MinIsLeast
  <2>5. taken = Min({target, Cardinality(seen)})
    BY <2>1, <2>2, <2>3, <2>4
  <2> QED
    BY <2>2, <2>5 DEF PostsAreTaken, seen, target
<1>2. EndsForAReason
  <2> SUFFICES ASSUME crawl.pc = "round" PROVE ~HasReason
    BY DEF EndsForAReason, CrawlIInv, OverForAReason
  <2> DEFINE n == Len(pages)
             w == crawl.source.wanted
  <2>1. /\ crawl.source.target \in Nat /\ crawl.source.scrolls \in Nat
        /\ crawl.source.stalls \in Nat /\ crawl.source.stalls > 0
        /\ pages \in Seq(Page) /\ scrolled \in Seq(Page)
    BY ReadingHas DEF CrawlIInv
  <2>2. /\ crawl.stalls \in 0..n /\ crawl.stalls < crawl.source.stalls
        /\ crawl.stalls < n => Shown(pages, w, n - crawl.stalls - 1) # Shown(pages, w, n)
        /\ crawl.round = Len(scrolled) + n /\ crawl.round <= crawl.source.scrolls
    BY DEF CrawlIInv, RoundsAreCounted, SeenIn
  <2>3. ~(Cardinality(SeenIn(n)) >= crawl.source.target)
    BY RoundHas DEF SeenIn, Reached
  <2>4. ~UsedUp
    BY <2>1, <2>2 DEF UsedUp
  <2>5. ~DriedUp
    <3> SUFFICES ASSUME n >= crawl.source.stalls
                 PROVE  Shown(pages, w, n) # Shown(pages, w, n - crawl.source.stalls)
      BY DEF DriedUp, SeenIn
    <3>1. crawl.stalls < n /\ n \in Nat /\ n \in 0..n
          /\ n - crawl.source.stalls \in 0..n /\ n - crawl.stalls - 1 \in 0..n
          /\ n - crawl.source.stalls <= n - crawl.stalls - 1 /\ n - crawl.stalls - 1 <= n
      <4>1. PICK k \in Nat : k = n
        BY <2>1
      <4>2. PICK a \in 0..k : a = crawl.stalls
        BY <2>2, <4>1
      <4>3. PICK b \in Nat : b = crawl.source.stalls
        BY <2>1
      <4>4. a < b /\ b <= k
        BY <2>2, <4>1, <4>2, <4>3
      <4>5. a < k /\ k \in 0..k /\ k - b \in 0..k /\ k - a - 1 \in 0..k
            /\ k - b <= k - a - 1 /\ k - a - 1 <= k
        BY <4>4
      <4> QED
        BY <4>1, <4>2, <4>3, <4>5
    <3>2. Shown(pages, w, n - crawl.source.stalls) \subseteq Shown(pages, w, n - crawl.stalls - 1)
      BY <2>1, <3>1, ShownGrows
    <3>3. Shown(pages, w, n - crawl.stalls - 1) \subseteq Shown(pages, w, n)
      BY <2>1, <3>1, ShownGrows
    <3> QED
      BY <2>2, <3>1, <3>2, <3>3
  <2> QED
    BY <2>3, <2>4, <2>5 DEF HasReason
<1> QED
  BY <1>1, <1>2 DEF CrawlIInv, CrawlIsFaithful

\* For any pages Reddit may show and any limits, a crawl keeps the books that
\* its properties rest on.
THEOREM CrawlInductive == CrawlSpec => []CrawlIInv
<1>1. CrawlInit => CrawlIInv
  BY CrawlInitHolds
<1>2. CrawlIInv /\ [CrawlNext]_crawlVars => CrawlIInv'
  <2> SUFFICES ASSUME CrawlIInv, [CrawlNext]_crawlVars PROVE CrawlIInv'
    OBVIOUS
  <2>1. ASSUME NEW source \in CrawlSource, OpenPage(source) PROVE CrawlIInv'
    BY <2>1, OpenPageHolds
  <2>2. ASSUME NEW page \in Page, ReadEnough(page) PROVE CrawlIInv'
    BY <2>2, ReadEnoughHolds
  <2>3. ASSUME NEW page \in Page, FallBack(page) PROVE CrawlIInv'
    BY <2>3, FallBackHolds
  <2>4. ASSUME NEW page \in Page, ReadMore(page) PROVE CrawlIInv'
    BY <2>4, ReadMoreHolds
  <2>5. CASE EnrichDetails
    BY <2>5, EnrichDetailsHolds
  <2>6. ASSUME NEW i, FetchDetail(i) PROVE CrawlIInv'
    BY <2>6, FetchDetailHolds
  <2>7. CASE UNCHANGED crawlVars
    BY <2>7 DEF crawlVars, CrawlIInv, CrawlTypeOK, PostsAreSeen, RoundsAreCounted, OverForAReason,
      OldAfterNothing, WorkersAreBusy, DetailsAreComplete, HasReason, DriedUp, UsedUp, SeenIn, Reached
  <2> QED
    BY <2>1, <2>2, <2>3, <2>4, <2>5, <2>6, <2>7 DEF CrawlNext
<1> QED
  BY <1>1, <1>2, PTL DEF CrawlSpec

\* What a crawl takes is what the source asks for of what Reddit shows, it ends
\* for one of its reasons and not before, and every post's page is read once.
THEOREM CrawlFaithful == CrawlSpec => []CrawlIsFaithful
<1>1. CrawlIInv => CrawlIsFaithful
  BY InvariantIsFaithful
<1> QED
  BY <1>1, CrawlInductive, PTL

\* What is stored, and what an input is read against.
SourceRow == [type : Type \cup {OtherType}, subreddit : {"Name", "name", Null},
              query : Query \cup {Null}, state : {"on", "off"}, limits : [Limit -> Int]]
CurrentRow == [type : Type \cup {OtherType}, subreddit : {"Name", "name", Null, Absent},
               query : Query \cup {Null, Absent}, state : {"on", "off"}, limits : [Limit -> Int]]
\* An input, of the form, the settings or a page.
IsInput(i) ==
  \E given \in SUBSET Limit :
    i \in [type : Type \cup {Absent, OtherType}, subreddit : Subreddit \cup {Absent, Blank},
           query : Query \cup {Absent, Blank}, state : {"on", "off", Absent},
           limits : [given -> Int]]

LEMMA UsualIsInRange == Usual \in [Limit -> Int] /\ InRange(Usual)
BY DEF Usual, Limit, InRange, Least, Most

LEMMA DefaultIsRow == Default \in CurrentRow
BY UsualIsInRange DEF Default, CurrentRow, Type, Absent

LEMMA RowIsCurrent ==
  ASSUME NEW s \in SourceRow PROVE s \in CurrentRow
BY DEF SourceRow, CurrentRow

\* What normalize() makes of an input is a source with its limits in range, or none.
LEMMA NormalizeIs ==
  ASSUME NEW input, IsInput(input), NEW current \in CurrentRow, NEW s \in Normalize(input, current)
  PROVE  /\ s \in SourceRow /\ InRange(s.limits) /\ Accepted(s)
         /\ Normalize(input, current) = {s}
<1> DEFINE type == Given(input.type, current.type)
           text == Clean(Given(input.query, current.query))
           name == WithoutPrefix(Clean(Given(input.subreddit, current.subreddit)))
           query == IF type = "CUSTOM_URL" THEN Canonical(text) ELSE text
           state == Given(input.state, current.state)
           limits == LimitsOf(input, current)
           t == SourceOf(type, name, query, state, limits)
<1>1. Normalize(input, current) = {x \in {t} : Accepted(x)}
  BY DEF Normalize
<1>2. s = t /\ Accepted(s) /\ Normalize(input, current) = {s}
  BY <1>1
<1>3. PICK given \in SUBSET Limit :
        input \in [type : Type \cup {Absent, OtherType}, subreddit : Subreddit \cup {Absent, Blank},
                   query : Query \cup {Absent, Blank}, state : {"on", "off", Absent},
                   limits : [given -> Int]]
  BY DEF IsInput
<1>4. type \in Type \cup {OtherType} /\ state \in {"on", "off"}
  BY <1>3 DEF CurrentRow, Given
<1>5. text \in Query \cup {Null}
  BY <1>3 DEF CurrentRow, Given, Clean
<1>6. query \in Query \cup {Null}
  BY <1>5 DEF Canonical, Query, Url, Null
<1>7. name \in {"Name", "name", Null}
  BY <1>3 DEF CurrentRow, Given, Clean, WithoutPrefix, Subreddit, Null
<1>8. limits \in [Limit -> Int]
  BY <1>3 DEF CurrentRow, LimitsOf
<1> HIDE DEF type, text, name, query, state, limits
<1>9. t \in SourceRow
  BY <1>4, <1>6, <1>7, <1>8 DEF SourceOf, SourceRow
<1> QED
  BY <1>2, <1>9 DEF Accepted

LEMMA FormIs ==
  ASSUME NEW input, IsInput(input), NEW current \in CurrentRow, NEW s \in Form(input, current)
  PROVE  s \in SourceRow /\ InRange(s.limits) /\ Form(input, current) = {s}
BY NormalizeIs DEF Form

\* What the settings send, and what a batch makes.
LEMMA SettingsAre ==
  ASSUME NEW context \in Context, NEW s \in Settings(context)
  PROVE  s \in SourceRow /\ InRange(s.limits) /\ Settings(context) = {s}
<1>1. IsInput(DefaultInput(context))
  <2>1. DefaultInput(context) \in
          [type : Type \cup {Absent, OtherType}, subreddit : Subreddit \cup {Absent, Blank},
           query : Query \cup {Absent, Blank}, state : {"on", "off", Absent},
           limits : [Limit -> Int]]
    BY UsualIsInRange DEF DefaultInput, NoInput, Context, Query
  <2> QED
    BY <2>1 DEF IsInput
<1> QED
  BY <1>1, DefaultIsRow, NormalizeIs DEF Settings

LEMMA BatchIs ==
  ASSUME NEW context \in Context, NEW s \in Batch(context)
  PROVE  s \in SourceRow /\ InRange(s.limits) /\ Batch(context) = {s}
<1> DEFINE url == Canonical(context.url)
           text == Clean(context.query)
           t == [type |-> context.type, subreddit |-> WithoutPrefix(Clean(context.subreddit)),
                 query |-> IF text = Null THEN url ELSE text, state |-> "on", limits |-> Usual]
<1>1. Batch(context) = {x \in {t} : text = Null /\ url = Null => context.url = Absent}
  BY DEF Batch
<1>2. s = t /\ Batch(context) = {s}
  BY <1>1
<1>3. url \in Query \cup {Null} /\ text \in Query \cup {Null}
  BY DEF Canonical, Clean, Context, Query, Url, Null, Absent
<1>4. WithoutPrefix(Clean(context.subreddit)) \in {"Name", "name", Null}
  BY DEF Context, Clean, WithoutPrefix, Subreddit, Null
<1>5. context.type \in Type \cup {OtherType}
  BY DEF Context
<1> HIDE DEF url, text
<1> QED
  BY <1>2, <1>3, <1>4, <1>5, UsualIsInRange DEF SourceRow

\* One of the form: its type has what it needs and nothing else.
LEMMA OfForm ==
  ASSUME NEW s \in SourceRow, s \in Form(NoInput, s)
  PROVE  /\ Accepted(s)
         /\ s.type # "SUBREDDIT" => s.subreddit = Null
         /\ s.type \notin {"SEARCH", "CUSTOM_URL"} => s.query = Null
         /\ s.type = "CUSTOM_URL" => s.query \in {"url", "otherHostUrl"}
<1> DEFINE text == Clean(Given(NoInput.query, s.query))
           name == WithoutPrefix(Clean(Given(NoInput.subreddit, s.subreddit)))
           query == IF s.type = "CUSTOM_URL" THEN Canonical(text) ELSE text
           t == SourceOf(s.type, name, query, s.state, LimitsOf(NoInput, s))
<1>1. NoInput.type = Absent /\ NoInput.state = Absent /\ NoInput.type # "LATEST"
  BY DEF NoInput, Absent
<1>2. Form(NoInput, s) = {x \in {t} : Accepted(x)}
  BY <1>1 DEF Form, Normalize, Given
<1>3. s = t /\ Accepted(s)
  BY <1>2
<1> HIDE DEF name, text
<1>4. /\ s.subreddit = IF s.type = "SUBREDDIT" THEN name ELSE Null
      /\ s.query = IF s.type \in {"SEARCH", "CUSTOM_URL"} THEN query ELSE Null
  BY <1>3 DEF SourceOf
<1>5. s.type = "CUSTOM_URL" => s.query = Canonical(text) /\ s.query # Null
  BY <1>3, <1>4 DEF Accepted
<1> QED
  BY <1>3, <1>4, <1>5 DEF Canonical

\* The page of a source.
LEMMA PageIsMeant ==
  ASSUME NEW s \in SourceRow
  PROVE  IF Unreachable(s) THEN Address(s) = <<Null>>
         ELSE IF s \in Form(NoInput, s) THEN Address(s) = Meant(s)
         ELSE Address(s) # <<Null>>
<1>1. /\ s.type \in Type \cup {OtherType} /\ s.subreddit \in {"Name", "name", Null}
      /\ s.query \in Query \cup {Null}
  BY DEF SourceRow
<1>2. ASSUME Unreachable(s) PROVE Address(s) = <<Null>>
  BY <1>1, <1>2 DEF Unreachable, Address, Query, Url, Null, OtherType, Type
<1>3. ASSUME ~Unreachable(s) PROVE Address(s) # <<Null>>
  BY <1>1, <1>3 DEF Unreachable, Address, Query, Url, Null, OtherType, Type
<1>4. ASSUME ~Unreachable(s), s \in Form(NoInput, s) PROVE Address(s) = Meant(s)
  <2>1. /\ s.type \in Type
        /\ s.type = "SUBREDDIT" => s.subreddit # Null
        /\ s.type \in {"SEARCH", "CUSTOM_URL"} => s.query # Null
        /\ s.type # "SUBREDDIT" => s.subreddit = Null
        /\ s.type \notin {"SEARCH", "CUSTOM_URL"} => s.query = Null
        /\ s.type = "CUSTOM_URL" => s.query \in {"url", "otherHostUrl"}
    BY <1>4, OfForm DEF Accepted
  <2> QED
    BY <1>1, <1>4, <2>1 DEF Unreachable, Address, Meant, Query, Url, Null, OtherType, Type
<1> QED
  BY <1>2, <1>3, <1>4

\* A source of the form is switched off, and nothing else changes.
LEMMA SwitchesOff ==
  ASSUME NEW s \in SourceRow, Accepted(s),
         ~(s.type = "CUSTOM_URL" /\ s.query # Canonical(s.query)),
         ~(s.type # "SUBREDDIT" /\ s.subreddit # Null),
         ~(s.type \notin {"SEARCH", "CUSTOM_URL"} /\ s.query # Null)
  PROVE  Form([NoInput EXCEPT !.state = "off"], s) = {[s EXCEPT !.state = "off"]}
<1> DEFINE input == [NoInput EXCEPT !.state = "off"]
           off == [s EXCEPT !.state = "off"]
           text == Clean(Given(input.query, s.query))
           name == WithoutPrefix(Clean(Given(input.subreddit, s.subreddit)))
           query == IF s.type = "CUSTOM_URL" THEN Canonical(text) ELSE text
           t == SourceOf(s.type, name, query, "off", LimitsOf(input, s))
<1>1. /\ input.type = Absent /\ input.subreddit = Absent /\ input.query = Absent
      /\ input.state = "off" /\ input.limits = [l \in {} |-> 0]
  BY DEF NoInput
<1>2. "off" # Absent /\ Absent # "LATEST"
  BY DEF Absent
<1> HIDE DEF input
<1>3. Form(input, s) = {x \in {t} : Accepted(x)}
  BY <1>1, <1>2 DEF Form, Normalize, Given
<1>4. text = s.query /\ name = s.subreddit
  BY <1>1 DEF SourceRow, Given, Clean, Query, Url, Null, Absent, Blank, WithoutPrefix
<1>5. LimitsOf(input, s) = s.limits
  BY <1>1 DEF SourceRow, LimitsOf
<1>6. t = off
  BY <1>4, <1>5 DEF SourceOf, SourceRow
<1>7. Accepted(off)
  BY DEF Accepted, SourceRow
<1> QED
  BY <1>3, <1>6, <1>7 DEF input

\* The source that the settings made of a page answers for it.
LEMMA SettingsMatch ==
  ASSUME NEW c \in Context, NEW s \in Settings(c)
  PROVE  Matches(s, c) \/ (c.type = "CUSTOM_URL" /\ c.url = "looseUrl")
<1> DEFINE input == DefaultInput(c)
           text == Clean(Given(input.query, Absent))
           name == WithoutPrefix(Clean(Given(input.subreddit, Absent)))
           query == IF c.type = "CUSTOM_URL" THEN Canonical(text) ELSE text
           t == SourceOf(c.type, name, query, "on", LimitsOf(input, Default))
<1>1. /\ input.type = c.type /\ input.subreddit = c.subreddit /\ input.state = "on"
      /\ input.query = IF c.type = "CUSTOM_URL" THEN c.url ELSE c.query
  BY DEF DefaultInput, NoInput
<1>2. /\ c.type \in Type \cup {OtherType} /\ c.subreddit \in Subreddit \cup {Absent, Blank}
      /\ c.query \in Query \cup {Absent, Blank} /\ c.url \in Url \cup {Absent}
  BY DEF Context
<1>3. c.type # Absent /\ "on" # Absent /\ Default.query = Absent /\ Default.subreddit = Absent
  BY <1>2 DEF Absent, Default, Type, OtherType
<1> HIDE DEF input
<1>4. s = t /\ Accepted(s)
  BY <1>1, <1>3 DEF Settings, Normalize, Given, input
<1>5. /\ s.type = c.type /\ s.state = "on"
      /\ s.subreddit = IF c.type = "SUBREDDIT" THEN name ELSE Null
      /\ s.query = IF c.type \in {"SEARCH", "CUSTOM_URL"} THEN query ELSE Null
  BY <1>4 DEF SourceOf
<1>6. CASE c.type = "SUBREDDIT"
  <2>1. s.subreddit = name /\ name # Null
    BY <1>4, <1>5, <1>6 DEF Accepted
  <2>2. c.subreddit \in Subreddit /\ name = WithoutPrefix(c.subreddit)
    BY <1>1, <1>2, <2>1 DEF Given, Clean, WithoutPrefix, Null, Absent, Blank, Subreddit
  <2> QED
    BY <1>5, <1>6, <2>1, <2>2 DEF Matches
<1>7. CASE c.type = "SEARCH"
  <2>1. s.query = text /\ text # Null
    BY <1>4, <1>5, <1>7 DEF Accepted
  <2>2. text = c.query
    BY <1>1, <1>2, <1>7, <2>1 DEF Given, Clean
  <2> QED
    BY <1>5, <1>7, <2>1, <2>2 DEF Matches
<1>8. CASE c.type = "CUSTOM_URL"
  <2>1. s.query = Canonical(text) /\ s.query # Null
    BY <1>4, <1>5, <1>8 DEF Accepted
  <2>2. text = c.url \/ text = Null
    BY <1>1, <1>2, <1>8 DEF Given, Clean
  <2>3. text \in {"url", "looseUrl", "otherHostUrl"} /\ text = c.url
    BY <2>1, <2>2 DEF Canonical, Null
  <2> QED
    BY <1>5, <1>8, <2>1, <2>3 DEF Matches, Canonical
<1>9. CASE c.type \notin {"SUBREDDIT", "SEARCH", "CUSTOM_URL"}
  BY <1>5, <1>9 DEF Matches
<1> QED
  BY <1>6, <1>7, <1>8, <1>9

\* For any inputs, of any fields and any numbers, there is one source at most,
\* with its limits in range, and it is as the settings made it until it is edited.
THEOREM SettingsInductive == SettingsSpec => []SettingsIInv
<1>1. SettingsInit => SettingsIInv
  BY DEF SettingsInit, SettingsIInv, SettingsTypeOK, AskedIsMade
<1>2. SettingsIInv /\ [SettingsNext]_settingsVars => SettingsIInv'
  <2> SUFFICES ASSUME SettingsIInv, [SettingsNext]_settingsVars PROVE SettingsIInv'
    OBVIOUS
  <2>1. ASSUME NEW input \in Input, CreateSource(input) PROVE SettingsIInv'
    <3>1. IsInput(input) /\ row' = Form(input, Default) /\ row = {} /\ asked' = asked
      BY <2>1, SettingsAssumption DEF CreateSource, IsInput
    <3>2. \A s \in row' : s \in SourceRow /\ InRange(s.limits) /\ row' = {s}
      BY <3>1, DefaultIsRow, FormIs
    <3> QED
      BY <3>1, <3>2 DEF SettingsIInv, SettingsTypeOK, AskedIsMade, SourceRow
  <2>2. ASSUME NEW input \in Input, EditSource(input) PROVE SettingsIInv'
    <3>1. PICK s \in row : row' = Form(input, s) /\ row' # {}
      BY <2>2 DEF EditSource
    <3>2. IsInput(input) /\ asked' = NoContext /\ s \in CurrentRow
      BY <2>2, RowIsCurrent, SettingsAssumption
      DEF EditSource, IsInput, SettingsIInv, SettingsTypeOK, SourceRow
    <3>3. \A t \in row' : t \in SourceRow /\ InRange(t.limits) /\ row' = {t}
      BY <3>1, <3>2, FormIs
    <3> QED
      BY <3>2, <3>3 DEF SettingsIInv, SettingsTypeOK, AskedIsMade, SourceRow
  <2>3. ASSUME NEW context \in Context, AskForPage(context) PROVE SettingsIInv'
    <3>1. row' = Settings(context) /\ row' # {} /\ asked' = context
      BY <2>3 DEF AskForPage
    <3>2. \A s \in row' : s \in SourceRow /\ InRange(s.limits) /\ row' = {s}
      BY <3>1, SettingsAre
    <3> QED
      BY <3>1, <3>2 DEF SettingsIInv, SettingsTypeOK, AskedIsMade, SourceRow
  <2>4. ASSUME NEW context \in Context, SendBatch(context) PROVE SettingsIInv'
    <3>1. row' = Batch(context) /\ row = {} /\ asked' = asked
      BY <2>4 DEF SendBatch
    <3>2. \A s \in row' : s \in SourceRow /\ InRange(s.limits) /\ row' = {s}
      BY <3>1, BatchIs
    <3> QED
      BY <3>1, <3>2 DEF SettingsIInv, SettingsTypeOK, AskedIsMade, SourceRow
  <2>5. CASE UNCHANGED settingsVars
    BY <2>5 DEF settingsVars, SettingsIInv, SettingsTypeOK, AskedIsMade
  <2> QED
    BY <2>1, <2>2, <2>3, <2>4, <2>5 DEF SettingsNext
<1> QED
  BY <1>1, <1>2, PTL DEF SettingsSpec

\* Whatever edits made a source, the collector reads the page it says it is of,
\* and it answers for the page that the settings made it of.
THEOREM SourceIsOfItsPage == SettingsSpec => []SourceKeepsItsPage
<1>1. SettingsIInv => SourceKeepsItsPage
  <2> SUFFICES ASSUME SettingsIInv PROVE HasItsPage /\ IsFoundAgain
    BY DEF SourceKeepsItsPage
  <2>1. HasItsPage
    BY PageIsMeant DEF HasItsPage, SettingsIInv, SettingsTypeOK, SourceRow
  <2>2. IsFoundAgain
    BY SettingsMatch DEF IsFoundAgain, SettingsIInv, SettingsTypeOK, AskedIsMade
  <2> QED
    BY <2>1, <2>2
<1> QED
  BY <1>1, SettingsInductive, PTL

\* A source can be switched off, and that changes nothing else of it, but for
\* those that only a batch makes.
THEOREM SourceSwitchesOff == SettingsSpec => []SourceCanBeSwitchedOff
<1>1. SettingsIInv => SourceCanBeSwitchedOff
  BY SwitchesOff DEF SourceCanBeSwitchedOff, SettingsIInv, SettingsTypeOK, SourceRow
<1> QED
  BY <1>1, SettingsInductive, PTL
=============================================================================
