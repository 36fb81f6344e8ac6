------------------------------ MODULE LlmRouter ------------------------------
(***************************************************************************)
(* The classification router and its concurrency slots                     *)
(* (LlmPoolRouterService.classify, SlotManagerService).  A call walks the  *)
(* routes of the workspace's policy, for each route the connections of its *)
(* provider, takes a slot of the connection for the route's model, and     *)
(* executes the request, with retries, until one execution succeeds.       *)
(*                                                                         *)
(* A slot is a counter with an expiry in Valkey, changed by two scripts.   *)
(* One action per script, database statement and provider exchange.  The   *)
(* order of the connections (health, last use) and what makes them         *)
(* eligible are not modelled: a route offers any set in any order.         *)
(***************************************************************************)
EXTENDS Naturals, FiniteSets

CONSTANTS
  Call,        \* callers: job slots of the workers
  Connection,
  Routes,      \* number of routes of the policy, one model each
  RuleRoutes,  \* routes of the rule engine
  MaxRetries,  \* maxRetries of a route
  Limit,       \* [Connection -> the least of its three limits]
  TTL,         \* ticks until an untouched slot expires (120 s)
  None

ASSUME RouteAssumption == Routes \in Nat /\ RuleRoutes \subseteq 1..Routes /\ MaxRetries \in Nat
ASSUME SlotAssumption == Limit \in [Connection -> Nat] /\ TTL \in Nat \ {0}
ASSUME CallAssumption == IsFiniteSet(Call) /\ None \notin Connection

Route == 1..Routes
Slot == Connection \X Route

VARIABLES
  count,   \* [Slot -> value of its counter; 0: no key]
  ttl,     \* [Slot -> ticks until the key expires]
  call,    \* [Call -> local state]
  rows,    \* [Call -> executions of the current call by status]
  \* history, read by properties only
  debt,    \* [Slot -> calls that held the slot when its key last expired]
  marred   \* calls with a statement that failed after an execution was stored

slotVars == <<count, ttl, debt>>
vars == <<count, ttl, call, rows, debt, marred>>

\* "route": about to look at a route; "next": about to take a slot; "create",
\* "execute", "commit", "record": a slot is held and an execution about to be
\* stored, sent, marked SUCCEEDED, marked FAILED; "release": about to give the
\* slot back, with a verdict or without.
Holding == {"create", "execute", "commit", "record", "release"}
CallRecord ==
  [pc : {"idle", "route", "next"} \cup Holding, route : 1..Routes + 1,
   left : SUBSET Connection, conn : Connection \cup {None}, retry : 0..MaxRetries,
   again : BOOLEAN, verdict : BOOLEAN]
IdleCall ==
  [pc |-> "idle", route |-> 1, left |-> {}, conn |-> None, retry |-> 0,
   again |-> FALSE, verdict |-> FALSE]
NoRows == [running |-> 0, succeeded |-> 0]

\* Type invariant.
TypeOK ==
  /\ count \in [Slot -> Nat]
  /\ ttl \in [Slot -> 0..TTL]
  /\ call \in [Call -> CallRecord]
  /\ rows \in [Call -> [running : Nat, succeeded : Nat]]
  /\ debt \in [Slot -> Nat]
  /\ marred \subseteq Call

Init ==
  /\ count = [s \in Slot |-> 0] /\ ttl = [s \in Slot |-> 0]
  /\ call = [c \in Call |-> IdleCall]
  /\ rows = [c \in Call |-> NoRows]
  /\ debt = [s \in Slot |-> 0]
  /\ marred = {}

-----------------------------------------------------------------------------

\* The slot a call is at, and the calls that hold a slot.
SlotOf(c) == <<call[c].conn, call[c].route>>
Holders(s) == {c \in Call : call[c].pc \in Holding /\ SlotOf(c) = s}

At(c, pc) == call[c].pc = pc
Goto(c, pc) == call' = [call EXCEPT ![c].pc = pc]
End(c) == call' = [call EXCEPT ![c] = IdleCall]

\* The policy is read; without one there are no routes.
Begin(c) ==
  /\ At(c, "idle")
  /\ Goto(c, "route")
  /\ rows' = [rows EXCEPT ![c] = NoRows]
  /\ marred' = marred \ {c}
  /\ UNCHANGED slotVars

\* A route of the rule engine answers at once, another offers connections, and
\* after the last one the call throws ALL_LLM_ROUTES_FAILED.
StartRoute(c) ==
  /\ At(c, "route")
  /\ IF call[c].route > Routes \/ call[c].route \in RuleRoutes
       THEN End(c)
       ELSE \E conns \in SUBSET Connection :
              call' = [call EXCEPT ![c].pc = "next", ![c].left = conns]
  /\ UNCHANGED <<slotVars, rows, marred>>

NextRoute(c) ==
  /\ At(c, "next") /\ call[c].left = {}
  /\ call' = [call EXCEPT ![c].pc = "route", ![c].route = @ + 1, ![c].conn = None]
  /\ UNCHANGED <<slotVars, rows, marred>>

\* A call takes the slot of a connection of its route ...
Take(c, k) ==
  call' = [call EXCEPT ![c].pc = "create", ![c].left = @ \ {k}, ![c].conn = k, ![c].retry = 0]
\* ... or goes on to the next connection.
Skip(c, k) == call' = [call EXCEPT ![c].left = @ \ {k}]

\* Variants with a fault: one holder too many; a refusal touches the key.
TryAcquireOnceMore(c, k) ==
  LET s == <<k, call[c].route>> IN
  /\ At(c, "next") /\ k \in call[c].left
  /\ IF count[s] > Limit[k]
       THEN Skip(c, k) /\ UNCHANGED <<count, ttl>>
       ELSE /\ Take(c, k)
            /\ count' = [count EXCEPT ![s] = @ + 1]
            /\ ttl' = [ttl EXCEPT ![s] = TTL]
  /\ UNCHANGED <<rows, debt, marred>>
TryAcquireTouches(c, k) ==
  LET s == <<k, call[c].route>> IN
  /\ At(c, "next") /\ k \in call[c].left
  /\ ttl' = [ttl EXCEPT ![s] = TTL]
  /\ IF count[s] >= Limit[k]
       THEN Skip(c, k) /\ UNCHANGED count
       ELSE Take(c, k) /\ count' = [count EXCEPT ![s] = @ + 1]
  /\ UNCHANGED <<rows, debt, marred>>

\* tryAcquire: a full slot is left alone; otherwise it is counted up and its
\* expiry starts over.
TryAcquire(c, k) ==
  LET s == <<k, call[c].route>> IN
  /\ At(c, "next") /\ k \in call[c].left
  /\ IF count[s] >= Limit[k]
       THEN Skip(c, k) /\ UNCHANGED <<count, ttl>>
       ELSE /\ Take(c, k)
            /\ count' = [count EXCEPT ![s] = @ + 1]
            /\ ttl' = [ttl EXCEPT ![s] = TTL]
  /\ UNCHANGED <<rows, debt, marred>>

\* The credential is read or refreshed and a RUNNING execution stored; when
\* either fails, the connection is given up.
CreateExecution(c) ==
  /\ At(c, "create")
  /\ \/ Goto(c, "execute") /\ rows' = [rows EXCEPT ![c].running = @ + 1]
     \/ Goto(c, "release") /\ UNCHANGED rows
  /\ UNCHANGED <<slotVars, marred>>

\* The provider answers, or fails in a way that may be retried or not.
Execute(c) ==
  /\ At(c, "execute")
  /\ \/ Goto(c, "commit")
     \/ \E retryable \in BOOLEAN :
          call' = [call EXCEPT ![c].pc = "record", ![c].again = retryable]
  /\ UNCHANGED <<slotVars, rows, marred>>

\* The execution and the connection are updated in one transaction; when it
\* fails, that is taken for a failed execution not to be retried.
CommitSuccess(c) ==
  /\ At(c, "commit")
  /\ \/ /\ rows' = [rows EXCEPT ![c] = [running |-> @.running - 1, succeeded |-> @.succeeded + 1]]
        /\ call' = [call EXCEPT ![c].pc = "release", ![c].verdict = TRUE]
        /\ UNCHANGED marred
     \/ /\ call' = [call EXCEPT ![c].pc = "record", ![c].again = FALSE]
        /\ marred' = marred \cup {c}
        /\ UNCHANGED rows
  /\ UNCHANGED slotVars

Retries(c) == call[c].again /\ call[c].retry < MaxRetries

\* Variant with a fault: the loop is left before the failure is stored.
RecordRetriedOnly(c) ==
  /\ At(c, "record")
  /\ IF Retries(c)
       THEN /\ rows' = [rows EXCEPT ![c].running = @ - 1]
            /\ call' = [call EXCEPT ![c].pc = "create", ![c].retry = @ + 1]
       ELSE Goto(c, "release") /\ UNCHANGED rows
  /\ UNCHANGED <<slotVars, marred>>

\* The failure is stored and the execution retried or the connection given up;
\* when storing it fails, the connection is given up.
RecordFailure(c) ==
  /\ At(c, "record")
  /\ \/ /\ rows' = [rows EXCEPT ![c].running = @ - 1]
        /\ call' = IF Retries(c)
                     THEN [call EXCEPT ![c].pc = "create", ![c].retry = @ + 1]
                     ELSE [call EXCEPT ![c].pc = "release"]
        /\ UNCHANGED marred
     \/ Goto(c, "release") /\ marred' = marred \cup {c} /\ UNCHANGED rows
  /\ UNCHANGED slotVars

\* The call ends with its verdict, or tries the next connection.
Resume(c) ==
  IF call[c].verdict THEN End(c) ELSE Goto(c, "next")

\* release: the last holder deletes the key, another counts it down.
Release(c) ==
  LET s == SlotOf(c) IN
  /\ At(c, "release")
  /\ IF count[s] <= 1
       THEN count' = [count EXCEPT ![s] = 0] /\ ttl' = [ttl EXCEPT ![s] = 0]
       ELSE count' = [count EXCEPT ![s] = @ - 1] /\ UNCHANGED ttl
  /\ Resume(c)
  /\ UNCHANGED <<rows, debt, marred>>

\* The worker dies, or its job is abandoned with the slot held.
CallDies(c) ==
  /\ ~At(c, "idle")
  /\ End(c)
  /\ marred' = marred \cup {c}
  /\ UNCHANGED <<slotVars, rows>>

\* Time passes, and a key whose expiry comes is gone.
Tick ==
  /\ ttl' = [s \in Slot |-> IF ttl[s] = 0 THEN 0 ELSE ttl[s] - 1]
  /\ count' = [s \in Slot |-> IF ttl[s] <= 1 THEN 0 ELSE count[s]]
  /\ debt' = [s \in Slot |-> IF ttl[s] = 1 THEN Cardinality(Holders(s)) ELSE debt[s]]
  /\ UNCHANGED <<call, rows, marred>>

CallStep(c) ==
  \/ StartRoute(c) \/ NextRoute(c) \/ CreateExecution(c) \/ Execute(c)
  \/ CommitSuccess(c) \/ RecordFailure(c) \/ Release(c)
  \/ \E k \in Connection : TryAcquire(c, k)

Next ==
  \/ Tick
  \/ \E c \in Call : Begin(c) \/ CallStep(c) \/ CallDies(c)

Spec == Init /\ [][Next]_vars

\* Time passes; statements, scripts and provider exchanges end, well or badly.
FairSpec == Spec /\ WF_vars(Tick) /\ \A c \in Call : WF_vars(CallStep(c))

-----------------------------------------------------------------------------
(* Properties *)

\* A slot counts everybody who holds it, except calls that held it when its key
\* last expired: an expiry inside a call is the only way to lose count, although
\* release does not know whose place it gives back.  So a connection runs more
\* executions of a model than its limit only after an expiry, by no more than
\* the calls that held it then; and no counter falls below zero.
LimitIsKept ==
  /\ TypeOK
  /\ \A s \in Slot :
       /\ Cardinality(Holders(s)) <= count[s] + debt[s]
       /\ Cardinality(Holders(s)) <= Limit[s[1]] + debt[s]

\* A call whose statements all succeeded leaves no execution RUNNING, and one
\* SUCCEEDED if it has a verdict from a provider, none otherwise.
ExecutionsSettle ==
  \A c \in Call \ marred :
    /\ rows[c].running = (IF call[c].pc \in {"execute", "commit", "record"} THEN 1 ELSE 0)
    /\ call[c].pc # "idle" => rows[c].succeeded = (IF call[c].verdict THEN 1 ELSE 0)

\* A slot filled by calls that died is free again in time, however often other
\* calls ask for it; and a call ends, with whatever answer.
SlotsFreeUp ==
  /\ \A s \in Slot :
       count[s] >= Limit[s[1]] /\ Holders(s) = {} ~> count[s] < Limit[s[1]]
  /\ \A c \in Call : call[c].pc # "idle" ~> call[c].pc = "idle"

-----------------------------------------------------------------------------
(* The inductive invariant *)

\* Only a key that expires has a value, and no counter passes its limit: what
\* loses count is the expiry alone.
KeysExpire == \A s \in Slot : ttl[s] = 0 => count[s] = 0
CountersAreLimited == \A s \in Slot : count[s] <= Limit[s[1]]
HoldersAreCounted == \A s \in Slot : Cardinality(Holders(s)) <= count[s] + debt[s]

\* A call that holds a slot, or is about to, is at a route of the policy; a
\* verdict ends it; an execution about to be settled is stored, also by a call
\* one of whose statements failed.
CallsAreAtSlots ==
  \A c \in Call :
    /\ call[c].pc \in Holding => call[c].conn \in Connection
    /\ call[c].pc \in Holding \cup {"next"} => call[c].route \in Route
    /\ call[c].verdict => call[c].pc = "release"
    /\ call[c].pc \in {"execute", "commit", "record"} => rows[c].running >= 1

IInv ==
  /\ TypeOK /\ KeysExpire /\ CountersAreLimited /\ HoldersAreCounted
  /\ CallsAreAtSlots /\ ExecutionsSettle
=============================================================================
