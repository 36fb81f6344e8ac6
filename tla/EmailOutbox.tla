----------------------------- MODULE EmailOutbox -----------------------------
(***************************************************************************)
(* The email outbox: invitations queue emails, and every worker process    *)
(* claims batches of them, delivers them one by one over SMTP and records  *)
(* the outcomes (EmailOutboxService.processBatch, the worker's             *)
(* deliverEmails timer).                                                   *)
(*                                                                         *)
(* One action per SQL statement and per SMTP exchange.  Time is in ticks   *)
(* of the first retry delay (15 s); what is kept is how long a row still   *)
(* waits and how old a lock is, up to the age at which it is stale.        *)
(***************************************************************************)
EXTENDS Naturals, FiniteSets

CONSTANTS
  Emails,       \* bound of the model: emails queued
  Worker,       \* worker processes
  MaxAttempts,  \* "maxAttempts" of a row
  BatchSize,    \* EMAIL_OUTBOX_BATCH_SIZE
  LockLife,     \* a lock older than this is stale (5 minutes)
  MaxWait,      \* longest retry delay (1 hour)
  None          \* no worker

ASSUME LimitAssumption ==
  Emails \in Nat /\ MaxAttempts \in Nat /\ BatchSize \in Nat /\ LockLife \in Nat /\ MaxWait \in Nat
ASSUME WorkerAssumption == None \notin Worker

\* A fact of arithmetic that the provers do not know.
ASSUME PowerAssumption == \A n \in 0..MaxAttempts : 2^n \in Nat

Email == 1..Emails   \* in the order of createdAt

VARIABLES
  queued,     \* emails 1..queued have a row
  sent,       \* rows with sentAt set
  attempts,   \* [Email -> attempts]
  wait,       \* [Email -> ticks until availableAt]
  lockedBy,   \* [Email -> the worker that locked the row, or None]
  lockAge,    \* [Email -> ticks since lockedAt]
  todo,       \* [Worker -> claims of its batch it has not come to]
  cur,        \* [Worker -> where it is in processBatch, and with which claim]
  \* history, read by properties only
  delivered,  \* [Email -> times the SMTP server accepted it]
  batchAge,   \* [Worker -> ticks since it claimed its batch]
  mishaps     \* emails whose outcome may have got lost

rowVars == <<queued, sent, attempts, wait, lockedBy, lockAge>>
historyVars == <<delivered, batchAge, mishaps>>
outboxVars == <<rowVars, todo, cur, historyVars>>

\* A row as it was returned to the worker: try is its attempts then.
Claims == [id : Email, try : Nat]
NoClaim == [id |-> 0, try |-> 0]
NoBatch == [pc |-> "idle", claim |-> NoClaim]

\* Type invariant.
OutboxTypeOK ==
  /\ queued \in 0..Emails
  /\ sent \subseteq Email
  /\ attempts \in [Email -> Nat]
  /\ wait \in [Email -> 0..MaxWait]
  /\ lockedBy \in [Email -> Worker \cup {None}]
  /\ lockAge \in [Email -> 0..LockLife + 1]
  /\ todo \in [Worker -> SUBSET Claims]
  /\ cur \in [Worker -> [pc : {"idle", "deliver", "sent", "failed"}, claim : Claims \cup {NoClaim}]]
  /\ delivered \in [Email -> Nat]
  /\ batchAge \in [Worker -> 0..LockLife + 1]
  /\ mishaps \subseteq Email

OutboxInit ==
  /\ queued = 0 /\ sent = {}
  /\ attempts = [e \in Email |-> 0] /\ wait = [e \in Email |-> 0]
  /\ lockedBy = [e \in Email |-> None] /\ lockAge = [e \in Email |-> 0]
  /\ todo = [w \in Worker |-> {}] /\ cur = [w \in Worker |-> NoBatch]
  /\ delivered = [e \in Email |-> 0]
  /\ batchAge = [w \in Worker |-> 0]
  /\ mishaps = {}

-----------------------------------------------------------------------------

Smaller(a, b) == IF a <= b THEN a ELSE b
Longer(age) == Smaller(age + 1, LockLife + 1)

\* emailRetryDelaySeconds.
RetryDelay(try) == Smaller(MaxWait, 2^(try - 1))

\* InvitationService.invite queues an email in the transaction of the invitation.
Enqueue ==
  /\ queued < Emails
  /\ queued' = queued + 1
  /\ UNCHANGED <<sent, attempts, wait, lockedBy, lockAge, todo, cur, historyVars>>

\* Variant with a fault: a lock is stale one tick early.
StaleEarly(e) == lockAge[e] >= LockLife

Stale(e) == lockAge[e] > LockLife

\* Variants with a fault: one attempt too many; rows whose lock went stale
\* are left alone.
DueOnceMore(e) ==
  /\ e <= queued /\ e \notin sent
  /\ attempts[e] <= MaxAttempts
  /\ wait[e] = 0
  /\ lockedBy[e] = None \/ Stale(e)
DueUnlessLocked(e) ==
  /\ e <= queued /\ e \notin sent
  /\ attempts[e] < MaxAttempts
  /\ wait[e] = 0
  /\ lockedBy[e] = None

Due(e) ==
  /\ e <= queued /\ e \notin sent
  /\ attempts[e] < MaxAttempts
  /\ wait[e] = 0
  /\ lockedBy[e] = None \/ Stale(e)

\* The oldest rows that are due, as many as fit a batch.
Batch == {e \in Email : Due(e) /\ Cardinality({f \in Email : Due(f) /\ f < e}) < BatchSize}

\* One statement selects, locks and counts an attempt of the rows of a batch;
\* the timer starts no batch while the process has one.
ClaimBatch(w) ==
  /\ cur[w].pc = "idle" /\ Batch # {}
  /\ attempts' = [e \in Email |-> IF e \in Batch THEN attempts[e] + 1 ELSE attempts[e]]
  /\ lockedBy' = [e \in Email |-> IF e \in Batch THEN w ELSE lockedBy[e]]
  /\ lockAge' = [e \in Email |-> IF e \in Batch THEN 0 ELSE lockAge[e]]
  /\ todo' = [todo EXCEPT ![w] = {[id |-> e, try |-> attempts[e] + 1] : e \in Batch}]
  /\ cur' = [cur EXCEPT ![w].pc = "deliver"]
  /\ batchAge' = [batchAge EXCEPT ![w] = 0]
  /\ mishaps' = mishaps \cup {e \in Batch : lockedBy[e] # None}
  /\ UNCHANGED <<queued, sent, wait, delivered>>

\* The loop goes on, or the batch is done.
NextClaim(w) ==
  cur' = [cur EXCEPT ![w] = [pc |-> IF todo[w] = {} THEN "idle" ELSE "deliver", claim |-> NoClaim]]

\* deliver: the server accepts the email, or it does not, or it does and the
\* answer is lost; rows are returned in no particular order.
Deliver(w) ==
  /\ cur[w].pc = "deliver"
  /\ \E c \in todo[w], accepted, answered \in BOOLEAN :
       /\ accepted \/ answered
       /\ todo' = [todo EXCEPT ![w] = @ \ {c}]
       /\ cur' = [cur EXCEPT ![w] = [pc |-> IF accepted /\ answered THEN "sent" ELSE "failed",
                                     claim |-> c]]
       /\ delivered' = [delivered EXCEPT ![c.id] = IF accepted THEN @ + 1 ELSE @]
       /\ mishaps' = IF answered THEN mishaps ELSE mishaps \cup {c.id}
  /\ UNCHANGED <<rowVars, batchAge>>

\* Variant with a fault: whoever holds the row.
HoldsUnchecked(w) == TRUE

\* Both outcomes are recorded only while the row is locked by this worker.
HoldsRow(w) == lockedBy[cur[w].claim.id] = w

MarkSent(w) ==
  LET e == cur[w].claim.id IN
  /\ cur[w].pc = "sent"
  /\ IF HoldsRow(w)
       THEN sent' = sent \cup {e} /\ lockedBy' = [lockedBy EXCEPT ![e] = None]
       ELSE UNCHANGED <<sent, lockedBy>>
  /\ NextClaim(w)
  /\ UNCHANGED <<queued, attempts, wait, lockAge, todo, historyVars>>

\* The statement fails: the catch block takes it for a failed delivery.
MarkSentFails(w) ==
  /\ cur[w].pc = "sent"
  /\ cur' = [cur EXCEPT ![w].pc = "failed"]
  /\ mishaps' = mishaps \cup {cur[w].claim.id}
  /\ UNCHANGED <<rowVars, todo, delivered, batchAge>>

MarkFailed(w) ==
  LET c == cur[w].claim IN
  /\ cur[w].pc = "failed"
  /\ IF HoldsRow(w)
       THEN /\ wait' = [wait EXCEPT ![c.id] = RetryDelay(c.try)]
            /\ lockedBy' = [lockedBy EXCEPT ![c.id] = None]
       ELSE UNCHANGED <<wait, lockedBy>>
  /\ NextClaim(w)
  /\ UNCHANGED <<queued, sent, attempts, lockAge, todo, historyVars>>

\* The batch ends where it is, its other rows stay locked: the statement of the
\* catch block fails, or the process dies.
Abandon(w) ==
  /\ cur' = [cur EXCEPT ![w] = NoBatch]
  /\ todo' = [todo EXCEPT ![w] = {}]
  /\ UNCHANGED <<rowVars, historyVars>>
MarkFailedFails(w) == cur[w].pc = "failed" /\ Abandon(w)
WorkerDies(w) == cur[w].pc # "idle" /\ Abandon(w)

\* Time passes; ages stop where they make no more difference.
Tick ==
  /\ wait' = [e \in Email |-> IF wait[e] = 0 THEN 0 ELSE wait[e] - 1]
  /\ lockAge' = [e \in Email |-> IF lockedBy[e] = None THEN lockAge[e] ELSE Longer(lockAge[e])]
  /\ batchAge' = [w \in Worker |-> IF cur[w].pc = "idle" THEN batchAge[w] ELSE Longer(batchAge[w])]
  /\ UNCHANGED <<queued, sent, attempts, lockedBy, todo, cur, delivered, mishaps>>

WorkerStep(w) ==
  \/ ClaimBatch(w) \/ Deliver(w) \/ MarkSent(w) \/ MarkSentFails(w)
  \/ MarkFailed(w) \/ MarkFailedFails(w)

OutboxNext ==
  \/ Enqueue \/ Tick
  \/ \E w \in Worker : WorkerStep(w) \/ WorkerDies(w)

OutboxSpec == OutboxInit /\ [][OutboxNext]_outboxVars

\* A process that dies is started again, its timer fires, and statements and
\* SMTP exchanges end, well or badly (nodemailer has timeouts).
OutboxFairSpec == OutboxSpec /\ WF_outboxVars(Tick) /\ \A w \in Worker : WF_outboxVars(WorkerStep(w))

-----------------------------------------------------------------------------
(* Properties *)

\* The claims a worker has to carry out.
OpenClaims(w) == (todo[w] \cup {cur[w].claim}) \ {NoClaim}

\* An attempt is counted before the email leaves, so that crashes cannot send it
\* more than maxAttempts times; it is delivered twice only after its lock went
\* stale, its answer got lost, or recording it failed; and what is marked sent
\* was delivered.
DeliveriesAreAccounted ==
  /\ OutboxTypeOK
  /\ \A e \in Email :
       /\ delivered[e] <= attempts[e] /\ attempts[e] <= MaxAttempts
       /\ delivered[e] > 1 => e \in mishaps
       /\ e \in sent => delivered[e] > 0

\* A worker loses a row of its batch only when the batch has run for longer than
\* a lock lives, or when it recorded the outcome.
LostOnlyWhenStale ==
  \A w \in Worker : \A c \in OpenClaims(w) :
    \/ lockedBy[c.id] = w /\ attempts[c.id] = c.try
    \/ batchAge[w] > LockLife

\* A lock is released only by the worker of the row's latest claim: a late
\* outcome of an earlier one changes nothing.
LatestClaimRecords ==
  [][\A e \in Email : lockedBy[e] # None /\ lockedBy'[e] = None =>
       cur[lockedBy[e]].claim = [id |-> e, try |-> attempts[e]]]_outboxVars

\* Every email is sent or used up its attempts, whatever fails.
EveryEmailEnds ==
  \A e \in Email : e <= queued ~> e \in sent \/ attempts[e] = MaxAttempts

-----------------------------------------------------------------------------
(* The inductive invariant *)

\* A worker has one claim of a row at most, of a row that has been queued and of
\* an attempt that was counted; it is idle with no claim, and has come to one
\* just when it delivered it.
ClaimsAreCounted ==
  \A w \in Worker :
    /\ \A c \in OpenClaims(w) : c \in Claims /\ c.try \in 1..attempts[c.id]
    /\ \A c, d \in OpenClaims(w) : c.id = d.id => c = d
    /\ cur[w].claim \notin todo[w]
    /\ cur[w].pc \in {"idle", "deliver"} <=> cur[w].claim = NoClaim
    /\ cur[w].pc = "idle" => todo[w] = {}

\* No attempt at a row is two workers'.
AttemptsAreExclusive ==
  \A w, v \in Worker : OpenClaims(w) \cap OpenClaims(v) # {} => w = v

\* The attempts at a row that have been claimed and not made.
Untried(e) == {n \in 1..attempts[e] : \E w \in Worker : [id |-> e, try |-> n] \in todo[w]}

AttemptsCoverDeliveries ==
  \A e \in Email : delivered[e] + Cardinality(Untried(e)) <= attempts[e] /\ attempts[e] <= MaxAttempts

\* A claim whose row is locked by its worker is the latest; it loses the lock only
\* when that is stale, and by then the batch is as old.
LocksFollowClaims ==
  \A w \in Worker : \A c \in OpenClaims(w) :
    /\ lockedBy[c.id] = w => attempts[c.id] = c.try /\ lockAge[c.id] <= batchAge[w]
    /\ lockedBy[c.id] # w => batchAge[w] > LockLife

\* A row without a mishap: who has claimed it holds it, and once it is delivered
\* it is locked until it is marked.
DeliveredIsMarked ==
  /\ \A w \in Worker : cur[w].pc = "sent" => delivered[cur[w].claim.id] > 0
  /\ \A e \in Email \ mishaps :
       /\ \A w \in Worker : \A c \in OpenClaims(w) : c.id = e => lockedBy[e] = w
       /\ e \in sent => lockedBy[e] = None
       /\ delivered[e] > 0 /\ e \notin sent =>
            /\ lockedBy[e] # None
            /\ \A w \in Worker : \A c \in OpenClaims(w) :
                 c.id = e => c = cur[w].claim /\ cur[w].pc = "sent"

OutboxIInv ==
  /\ DeliveriesAreAccounted /\ ClaimsAreCounted /\ AttemptsAreExclusive
  /\ AttemptsCoverDeliveries /\ LocksFollowClaims /\ DeliveredIsMarked
=============================================================================
