----------------------------- MODULE LeadLedger -----------------------------
(***************************************************************************)
(* What the lead pipeline promises, with the queue, the worker, retries    *)
(* and crashes hidden.  For every (workspace, post) pair there is a log    *)
(* of recorded verdicts and at most one lead.  A verdict is recorded only  *)
(* for a pair that was handed to the queue; a lead always shows one        *)
(* recorded, qualifying verdict; and only a user changes a lead's status.  *)
(* LeadPipeline implements this specification.                             *)
(***************************************************************************)
EXTENDS Naturals, Sequences

CONSTANTS
  Pair,        \* the (workspace, post) pairs
  Verdict,     \* the verdicts a classification can return
  LeadStatus,  \* the values of the LeadStatus enum
  NoLead       \* "no Lead row for this pair"

VARIABLES
  queued,      \* pairs ever handed to the classification queue
  verdicts,    \* the verdicts recorded for each pair, oldest first
  shown        \* the lead of each pair as users see it, or NoLead

ledgerVars == <<queued, verdicts, shown>>

\* A verdict makes a lead when it is a buying signal of priority 50 or more.
LeadThreshold == 50
Qualifies(v) == v.isBuyingSignal /\ v.priorityScore >= LeadThreshold

LedgerInit ==
  /\ queued = {}
  /\ verdicts = [k \in Pair |-> <<>>]
  /\ shown = [k \in Pair |-> NoLead]

\* A pair is handed to the queue.
Request(k) ==
  /\ queued' = queued \cup {k}
  /\ UNCHANGED <<verdicts, shown>>

\* A verdict on a queued pair is recorded.
Judge(k) ==
  /\ k \in queued
  /\ \E v \in Verdict : verdicts' = [verdicts EXCEPT ![k] = Append(@, v)]
  /\ UNCHANGED <<queued, shown>>

\* A recorded verdict that qualifies becomes what the lead shows.
Promote(k) ==
  /\ \E i \in DOMAIN verdicts[k] :
       /\ Qualifies(verdicts[k][i])
       /\ shown' = [shown EXCEPT ![k] =
            [row |-> i,
             priorityScore |-> verdicts[k][i].priorityScore,
             status |-> IF shown[k] = NoLead THEN "NEW" ELSE shown[k].status]]
  /\ UNCHANGED <<queued, verdicts>>

\* A user moves a lead to a status of the enum.
Triage(k) ==
  /\ shown[k] # NoLead
  /\ \E s \in LeadStatus : shown' = [shown EXCEPT ![k].status = s]
  /\ UNCHANGED <<queued, verdicts>>

LedgerNext == \E k \in Pair : Request(k) \/ Judge(k) \/ Promote(k) \/ Triage(k)

LedgerSpec == LedgerInit /\ [][LedgerNext]_ledgerVars
=============================================================================
