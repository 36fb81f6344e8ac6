--------------------------- MODULE LlmRouterProofs ---------------------------
(***************************************************************************)
(* Proofs about LlmRouter, for any number of calls, connections, routes    *)
(* and retries and any limits: a connection runs more executions of a      *)
(* model than its limit only after a key expired under its holders, and a  *)
(* call whose statements succeed settles its executions. Every statement   *)
(* but the two scripts and the clock leaves the counters alone and at most *)
(* takes a call away from the holders of a slot; the scripts change a      *)
(* counter and its holders by one together. And about ModelRoutes, for any *)
(* number of syncRoutes calls and models: a model has no more routes than  *)
(* calls run at once, since it is found without one only while it has      *)
(* none.                                                                   *)
(***************************************************************************)
EXTENDS LlmRouter, ModelRoutes, FiniteSetTheorems, WellFoundedInduction, TLAPS

\* The holders of a slot are finitely many, and fewer when calls leave.
LEMMA HoldersAreFinite ==
  ASSUME NEW s \in Slot
  PROVE  /\ IsFiniteSet(Holders(s)) /\ Cardinality(Holders(s)) \in Nat
BY CallAssumption, FS_Subset, FS_CardinalityType DEF Holders

LEMMA FewerHolders ==
  ASSUME NEW s \in Slot, Holders(s)' \subseteq Holders(s)
  PROVE  Cardinality(Holders(s)') <= Cardinality(Holders(s)) /\ Cardinality(Holders(s)') \in Nat
BY HoldersAreFinite, FS_Subset, FS_CardinalityType

\* The initial states.
LEMMA InitHolds == Init => IInv
<1> SUFFICES ASSUME Init PROVE IInv
  OBVIOUS
<1> USE RouteAssumption, SlotAssumption, CallAssumption DEF Init
<1>1. IdleCall \in CallRecord
  BY DEF IdleCall, CallRecord, Route
<1>2. TypeOK
  BY <1>1 DEF TypeOK, NoRows
<1>3. KeysExpire /\ CallsAreAtSlots /\ ExecutionsSettle
  BY DEF KeysExpire, CallsAreAtSlots, ExecutionsSettle, IdleCall, NoRows, Holding
<1>4. CountersAreLimited
  BY DEF CountersAreLimited, Slot
<1>5. HoldersAreCounted
  <2> SUFFICES ASSUME NEW s \in Slot PROVE Cardinality(Holders(s)) <= count[s] + debt[s]
    BY DEF HoldersAreCounted
  <2>1. Holders(s) = {}
    BY DEF Holders, IdleCall, Holding
  <2> QED
    BY <2>1, FS_EmptySet
<1> QED
  BY <1>2, <1>3, <1>4, <1>5 DEF IInv

-----------------------------------------------------------------------------
(* The statements that leave the counters alone *)

Quietly(c) ==
  \/ Begin(c) \/ StartRoute(c) \/ NextRoute(c) \/ CreateExecution(c) \/ Execute(c)
  \/ CommitSuccess(c) \/ RecordFailure(c) \/ CallDies(c)

\* A call moves to another statement, and its record changes in nothing else.
LEMMA GotoTypes ==
  ASSUME TypeOK, NEW c \in Call, NEW p \in {"idle", "route", "next"} \cup Holding, Goto(c, p)
  PROVE  /\ call' \in [Call -> CallRecord]
         /\ \A d \in Call \ {c} : call'[d] = call[d]
<1>1. [call[c] EXCEPT !.pc = p] \in CallRecord
  BY DEF TypeOK, CallRecord
<1> QED
  BY <1>1 DEF TypeOK, Goto

\* Such a step moves one call, by one of these moves.
LEMMA QuietTypes ==
  ASSUME TypeOK, CallsAreAtSlots, NEW c \in Call, Quietly(c)
  PROVE  /\ TypeOK' /\ UNCHANGED slotVars
         /\ \A d \in Call \ {c} : call'[d] = call[d] /\ rows'[d] = rows[d]
         /\ \A d \in Call \ {c} : d \in marred' <=> d \in marred
<1> USE DEF TypeOK, CallRecord, At, Goto
<1>0. IdleCall \in CallRecord
  BY RouteAssumption, CallAssumption DEF IdleCall
<1>1. CASE Begin(c)
  BY <1>1, SMTT(30) DEF Begin, NoRows, slotVars, Holding
<1>2. CASE StartRoute(c)
  <2>1. CASE End(c)
    BY <1>2, <1>0, <2>1 DEF StartRoute, End, slotVars
  <2>2. ASSUME NEW conns \in SUBSET Connection,
               call' = [call EXCEPT ![c].pc = "next", ![c].left = conns]
        PROVE  call' \in [Call -> CallRecord] /\ \A d \in Call \ {c} : call'[d] = call[d]
    <3>1. [call[c] EXCEPT !.pc = "next", !.left = conns] \in CallRecord
      BY ZenonT(30)
    <3> QED
      BY <2>2, <3>1
  <2> QED
    BY <1>2, <2>1, <2>2 DEF StartRoute, slotVars
<1>3. CASE NextRoute(c)
  <2>1. call[c].route + 1 \in 1..Routes + 1
    BY <1>3, RouteAssumption DEF NextRoute, CallsAreAtSlots, Route
  <2> QED
    BY <1>3, <2>1 DEF NextRoute, slotVars
<1>4. CASE CreateExecution(c)
  <2>1. call' \in [Call -> CallRecord] /\ \A d \in Call \ {c} : call'[d] = call[d]
    BY <1>4, GotoTypes DEF CreateExecution, Holding
  <2>2. rows' \in [Call -> [running : Nat, succeeded : Nat]]
        /\ \A d \in Call \ {c} : rows'[d] = rows[d]
    <3>1. [rows[c] EXCEPT !.running = @ + 1] \in [running : Nat, succeeded : Nat]
      OBVIOUS
    <3>2. rows' = [rows EXCEPT ![c].running = @ + 1] \/ UNCHANGED rows
      BY <1>4 DEF CreateExecution
    <3> QED
      BY <3>1, <3>2
  <2> QED
    BY <1>4, <2>1, <2>2 DEF CreateExecution, slotVars
<1>5. CASE Execute(c)
  <2>1. ASSUME NEW retryable \in BOOLEAN,
               call' = [call EXCEPT ![c].pc = "record", ![c].again = retryable]
        PROVE  call' \in [Call -> CallRecord] /\ \A d \in Call \ {c} : call'[d] = call[d]
    <3>1. [call[c] EXCEPT !.pc = "record", !.again = retryable] \in CallRecord
      BY ZenonT(30) DEF Holding
    <3> QED
      BY <2>1, <3>1
  <2> QED
    BY <1>5, <2>1, GotoTypes DEF Execute, Holding, slotVars
<1>6. CASE CommitSuccess(c)
  <2>1. [call[c] EXCEPT !.pc = "release", !.verdict = TRUE] \in CallRecord
        /\ [call[c] EXCEPT !.pc = "record", !.again = FALSE] \in CallRecord
    BY ZenonT(30) DEF Holding
  <2>2. call' \in [Call -> CallRecord] /\ \A d \in Call \ {c} : call'[d] = call[d]
    <3>1. \/ call' = [call EXCEPT ![c].pc = "release", ![c].verdict = TRUE]
          \/ call' = [call EXCEPT ![c].pc = "record", ![c].again = FALSE]
      BY <1>6 DEF CommitSuccess
    <3> QED
      BY <2>1, <3>1, ZenonT(30)
  <2>3. rows[c].running - 1 \in Nat
    BY <1>6 DEF CommitSuccess, CallsAreAtSlots
  <2>4. rows' \in [Call -> [running : Nat, succeeded : Nat]]
        /\ \A d \in Call \ {c} : rows'[d] = rows[d]
    <3>1. [running |-> rows[c].running - 1, succeeded |-> rows[c].succeeded + 1]
            \in [running : Nat, succeeded : Nat]
      BY <2>3
    <3>2. \/ rows' = [rows EXCEPT ![c] = [running |-> @.running - 1,
                                         succeeded |-> @.succeeded + 1]]
          \/ UNCHANGED rows
      BY <1>6 DEF CommitSuccess
    <3> QED
      BY <3>1, <3>2
  <2> QED
    BY <1>6, <2>2, <2>4 DEF CommitSuccess, slotVars
<1>7. CASE RecordFailure(c)
  <2>1. call' \in [Call -> CallRecord] /\ \A d \in Call \ {c} : call'[d] = call[d]
    <3>1. CASE call' = [call EXCEPT ![c].pc = "create", ![c].retry = @ + 1] /\ Retries(c)
      <4>1. call[c].retry + 1 \in 0..MaxRetries
        BY <3>1, RouteAssumption DEF Retries
      <4>2. [call[c] EXCEPT !.pc = "create", !.retry = @ + 1] \in CallRecord
        BY <4>1, ZenonT(30) DEF Holding
      <4> QED
        BY <3>1, <4>2
    <3>2. CASE Goto(c, "release")
      BY <3>2, GotoTypes DEF Holding
    <3> QED
      BY <1>7, <3>1, <3>2 DEF RecordFailure
  <2>2. rows' \in [Call -> [running : Nat, succeeded : Nat]]
        /\ \A d \in Call \ {c} : rows'[d] = rows[d]
    <3>1. rows[c].running - 1 \in Nat
      BY <1>7 DEF RecordFailure, CallsAreAtSlots
    <3>2. [rows[c] EXCEPT !.running = @ - 1] \in [running : Nat, succeeded : Nat]
      BY <3>1
    <3>3. rows' = [rows EXCEPT ![c].running = @ - 1] \/ UNCHANGED rows
      BY <1>7 DEF RecordFailure
    <3> QED
      BY <3>2, <3>3
  <2> QED
    BY <1>7, <2>1, <2>2 DEF RecordFailure, slotVars
<1>8. CASE CallDies(c)
  BY <1>8, <1>0 DEF CallDies, End, slotVars
<1> QED
  BY <1>1, <1>2, <1>3, <1>4, <1>5, <1>6, <1>7, <1>8 DEF Quietly

\* It takes the slot of a call away or leaves the call at it.
LEMMA QuietHolders ==
  ASSUME TypeOK, CallsAreAtSlots, NEW c \in Call, Quietly(c), NEW s \in Slot
  PROVE  Holders(s)' \subseteq Holders(s)
<1>1. call' \in [Call -> CallRecord] /\ \A d \in Call \ {c} : call'[d] = call[d]
  BY QuietTypes DEF TypeOK
<1>2. call'[c].pc \in Holding => /\ call[c].pc \in Holding
                               /\ call'[c].conn = call[c].conn
                               /\ call'[c].route = call[c].route
  <2> USE DEF TypeOK, CallRecord, At, Goto, Holding
  <2>1. CASE Begin(c) \/ NextRoute(c) \/ CreateExecution(c)
    BY <2>1 DEF Begin, NextRoute, CreateExecution
  <2>2. CASE StartRoute(c) \/ CallDies(c)
    BY <2>2 DEF StartRoute, CallDies, End, IdleCall
  <2>3. CASE Execute(c)
    BY <2>3 DEF Execute
  <2>4. CASE CommitSuccess(c)
    BY <2>4 DEF CommitSuccess
  <2>5. CASE RecordFailure(c)
    BY <2>5 DEF RecordFailure
  <2> QED
    BY <2>1, <2>2, <2>3, <2>4, <2>5 DEF Quietly
<1> QED
  BY <1>1, <1>2 DEF Holders, SlotOf

\* The call stays at a route, and its executions are what its statements made
\* of them unless one failed.
LEMMA QuietCalls ==
  ASSUME TypeOK, CallsAreAtSlots, ExecutionsSettle, NEW c \in Call, Quietly(c)
  PROVE  CallsAreAtSlots' /\ ExecutionsSettle'
<1> DEFINE Placed(d) ==
      /\ call[d].pc \in Holding => call[d].conn \in Connection
      /\ call[d].pc \in Holding \cup {"next"} => call[d].route \in Route
      /\ call[d].verdict => call[d].pc = "release"
      /\ call[d].pc \in {"execute", "commit", "record"} => rows[d].running >= 1
<1> DEFINE Settled(d) ==
      d \notin marred =>
        /\ rows[d].running = (IF call[d].pc \in {"execute", "commit", "record"} THEN 1 ELSE 0)
        /\ call[d].pc # "idle" => rows[d].succeeded = (IF call[d].verdict THEN 1 ELSE 0)
<1>1. \A d \in Call \ {c} : Placed(d)' /\ Settled(d)'
  BY QuietTypes DEF CallsAreAtSlots, ExecutionsSettle
<1>2. Placed(c) /\ Settled(c)
  BY DEF CallsAreAtSlots, ExecutionsSettle
<1>3. call[c] \in CallRecord /\ rows[c] \in [running : Nat, succeeded : Nat]
  BY DEF TypeOK
<1>4. Placed(c)' /\ Settled(c)'
  <2> USE DEF TypeOK, CallRecord, At, Goto, Holding
  <2>1. CASE Begin(c)
    BY <1>2, <2>1 DEF Begin, NoRows
  <2>2. CASE StartRoute(c)
    <3>1. CASE End(c)
      BY <1>2, <2>2, <3>1 DEF StartRoute, End, IdleCall
    <3>2. CASE call[c].route \in Route /\ \E conns \in SUBSET Connection :
                 call' = [call EXCEPT ![c].pc = "next", ![c].left = conns]
      <4>1. call[c].pc = "route" /\ UNCHANGED <<rows, marred>>
        BY <2>2 DEF StartRoute
      <4>2. /\ call'[c].pc = "next" /\ call'[c].route = call[c].route
            /\ call'[c].verdict = call[c].verdict
        BY <1>3, <3>2
      <4> QED
        BY <1>2, <3>2, <4>1, <4>2
    <3> QED
      BY <1>3, <2>2, <3>1, <3>2, RouteAssumption DEF StartRoute, CallRecord, Route
  <2>3. CASE NextRoute(c)
    BY <1>2, <2>3 DEF NextRoute
  <2>4. CASE CreateExecution(c)
    <3>1. CASE Goto(c, "execute") /\ rows' = [rows EXCEPT ![c].running = @ + 1]
      <4>1. /\ call'[c].pc = "execute" /\ call'[c].conn = call[c].conn
            /\ call'[c].route = call[c].route /\ call'[c].verdict = call[c].verdict
            /\ rows'[c].running = rows[c].running + 1 /\ rows'[c].succeeded = rows[c].succeeded
        BY <1>3, <3>1
      <4> QED
        BY <1>2, <1>3, <2>4, <4>1 DEF CreateExecution
    <3>2. CASE Goto(c, "release") /\ UNCHANGED rows
      BY <1>2, <1>3, <2>4, <3>2 DEF CreateExecution
    <3> QED
      BY <2>4, <3>1, <3>2 DEF CreateExecution
  <2>5. CASE Execute(c)
    <3>1. /\ call'[c].pc \in {"commit", "record"} /\ call'[c].conn = call[c].conn
          /\ call'[c].route = call[c].route /\ call'[c].verdict = call[c].verdict
      BY <1>3, <2>5 DEF Execute
    <3> QED
      BY <1>2, <2>5, <3>1 DEF Execute
  <2>6. CASE CommitSuccess(c)
    BY <1>2, <1>3, <2>6 DEF CommitSuccess
  <2>7. CASE RecordFailure(c)
    BY <1>2, <1>3, <2>7 DEF RecordFailure
  <2>8. CASE CallDies(c)
    BY <1>2, <2>8 DEF CallDies, End, IdleCall
  <2> QED
    BY <2>1, <2>2, <2>3, <2>4, <2>5, <2>6, <2>7, <2>8 DEF Quietly
<1>5. \A d \in Call : Placed(d)' /\ Settled(d)'
  BY <1>1, <1>4
<1> QED
  BY <1>5 DEF CallsAreAtSlots, ExecutionsSettle

\* So the invariant outlives such a step.
LEMMA QuietStep ==
  ASSUME IInv, NEW c \in Call, Quietly(c)
  PROVE  IInv'
<1>1. TypeOK' /\ UNCHANGED slotVars
  BY QuietTypes DEF IInv
<1>2. CallsAreAtSlots' /\ ExecutionsSettle'
  BY QuietCalls DEF IInv
<1>3. KeysExpire' /\ CountersAreLimited'
  BY <1>1 DEF IInv, KeysExpire, CountersAreLimited, slotVars
<1>4. HoldersAreCounted'
  <2> SUFFICES ASSUME NEW s \in Slot
               PROVE  Cardinality(Holders(s)') <= count[s] + debt[s]
    BY <1>1 DEF HoldersAreCounted, slotVars
  <2>1. count[s] \in Nat /\ debt[s] \in Nat
    BY DEF IInv, TypeOK
  <2> QED
    BY <2>1, QuietHolders, FewerHolders, HoldersAreFinite DEF IInv, HoldersAreCounted
<1> QED
  BY <1>1, <1>2, <1>3, <1>4 DEF IInv

-----------------------------------------------------------------------------
(* The two scripts and the clock *)

\* tryAcquire counts the new holder of a slot that is not full.
LEMMA AcquireStep ==
  ASSUME IInv, NEW c \in Call, NEW k \in Connection, TryAcquire(c, k)
  PROVE  IInv'
<1> DEFINE s == <<k, call[c].route>>
<1>1. call[c] \in CallRecord /\ call[c].pc = "next" /\ call[c].route \in Route
  BY DEF IInv, TypeOK, TryAcquire, At, CallsAreAtSlots
<1>2. s \in Slot /\ s[1] = k
  BY <1>1 DEF Slot
<1>3. count[s] \in Nat /\ debt \in [Slot -> Nat] /\ Limit[k] \in Nat /\ TTL \in 0..TTL /\ TTL # 0
  BY <1>2, SlotAssumption DEF IInv, TypeOK
<1>4. UNCHANGED <<rows, debt, marred>>
  BY DEF TryAcquire
<1>5. CASE count[s] >= Limit[k]
  <2>1. call' = [call EXCEPT ![c].left = @ \ {k}] /\ UNCHANGED <<count, ttl>>
    BY <1>5 DEF TryAcquire, Skip
  <2>2. [call[c] EXCEPT !.left = @ \ {k}] \in CallRecord
    BY <1>1 DEF CallRecord
  <2>3. /\ call' \in [Call -> CallRecord] /\ \A d \in Call \ {c} : call'[d] = call[d]
        /\ call'[c].pc = "next" /\ call'[c].route = call[c].route
        /\ call'[c].verdict = call[c].verdict
    BY <1>1, <2>1, <2>2 DEF IInv, TypeOK, CallRecord
  <2>4. TypeOK'
    BY <1>4, <2>1, <2>3 DEF IInv, TypeOK
  <2>5. KeysExpire' /\ CountersAreLimited'
    BY <2>1 DEF IInv, KeysExpire, CountersAreLimited
  <2>6. CallsAreAtSlots' /\ ExecutionsSettle'
    BY <1>1, <1>4, <2>3 DEF IInv, CallsAreAtSlots, ExecutionsSettle, Holding
  <2>7. \A t \in Slot : Holders(t)' \subseteq Holders(t)
    BY <2>3 DEF Holders, SlotOf, Holding
  <2>8. HoldersAreCounted'
    <3> SUFFICES ASSUME NEW t \in Slot
                 PROVE  Cardinality(Holders(t)') <= count[t] + debt[t]
      BY <1>4, <2>1 DEF HoldersAreCounted
    <3>1. count[t] \in Nat /\ debt[t] \in Nat
      BY DEF IInv, TypeOK
    <3> QED
      BY <2>7, <3>1, FewerHolders, HoldersAreFinite DEF IInv, HoldersAreCounted
  <2> QED
    BY <2>4, <2>5, <2>6, <2>8 DEF IInv
<1>6. CASE ~(count[s] >= Limit[k])
  <2>1. /\ call' = [call EXCEPT ![c].pc = "create", ![c].left = @ \ {k}, ![c].conn = k,
                              ![c].retry = 0]
        /\ count' = [count EXCEPT ![s] = @ + 1] /\ ttl' = [ttl EXCEPT ![s] = TTL]
    BY <1>6 DEF TryAcquire, Take
  <2>2. [call[c] EXCEPT !.pc = "create", !.left = @ \ {k}, !.conn = k, !.retry = 0] \in CallRecord
    <3>1. 0 \in 0..MaxRetries
      BY RouteAssumption
    <3>2. "create" \in {"idle", "route", "next"} \cup Holding
      BY DEF Holding
    <3> HIDE DEF s
    <3> QED
      BY <1>1, <3>1, <3>2 DEF CallRecord
  <2>3. /\ call' \in [Call -> CallRecord] /\ \A d \in Call \ {c} : call'[d] = call[d]
        /\ call'[c].pc = "create" /\ call'[c].conn = k /\ call'[c].route = call[c].route
        /\ call'[c].verdict = call[c].verdict
    BY <1>1, <2>1, <2>2 DEF IInv, TypeOK, CallRecord
  <2>4. count' \in [Slot -> Nat] /\ ttl' \in [Slot -> 0..TTL]
    BY <1>2, <1>3, <2>1 DEF IInv, TypeOK
  <2>5. TypeOK'
    BY <1>4, <2>3, <2>4 DEF IInv, TypeOK
  <2>6. KeysExpire'
    BY <1>2, <1>3, <2>1 DEF IInv, TypeOK, KeysExpire
  <2>7. CountersAreLimited'
    <3>1. count[s] + 1 <= Limit[k]
      BY <1>3, <1>6
    <3> QED
      BY <1>2, <2>1, <3>1 DEF IInv, TypeOK, CountersAreLimited
  <2>8. CallsAreAtSlots' /\ ExecutionsSettle'
    BY <1>1, <1>4, <2>3 DEF IInv, CallsAreAtSlots, ExecutionsSettle, Holding
  <2>9. HoldersAreCounted'
    <3> SUFFICES ASSUME NEW t \in Slot
                 PROVE  Cardinality(Holders(t)') <= count'[t] + debt[t]
      BY <1>4 DEF HoldersAreCounted
    <3>1. /\ count[t] \in Nat /\ debt[t] \in Nat /\ Cardinality(Holders(t)) \in Nat
          /\ Cardinality(Holders(t)) <= count[t] + debt[t]
      BY HoldersAreFinite DEF IInv, TypeOK, HoldersAreCounted
    <3>2. CASE t = s
      <4>1. Holders(t)' = Holders(t) \cup {c} /\ c \notin Holders(t)
        BY <1>1, <2>3, <3>2 DEF Holders, SlotOf, Holding
      <4>2. Cardinality(Holders(t)') = Cardinality(Holders(t)) + 1
        BY <4>1, HoldersAreFinite, FS_AddElement
      <4>3. count'[t] = count[t] + 1
        BY <2>1, <3>2 DEF IInv, TypeOK
      <4> QED
        BY <3>1, <4>2, <4>3
    <3>3. CASE t # s
      <4>1. Holders(t)' \subseteq Holders(t)
        BY <2>3, <3>3 DEF Holders, SlotOf
      <4>2. count'[t] = count[t]
        BY <2>1, <3>3 DEF IInv, TypeOK
      <4> QED
        BY <3>1, <4>1, <4>2, FewerHolders
    <3> QED
      BY <3>2, <3>3
  <2> QED
    BY <2>5, <2>6, <2>7, <2>8, <2>9 DEF IInv
<1> QED
  BY <1>5, <1>6

\* release takes one of the counted holders away, or one the counter lost.
LEMMA ReleaseStep ==
  ASSUME IInv, NEW c \in Call, Release(c)
  PROVE  IInv'
<1> DEFINE s == SlotOf(c)
<1>1. /\ call[c] \in CallRecord /\ call[c].pc = "release"
      /\ call[c].conn \in Connection /\ call[c].route \in Route
  BY DEF IInv, TypeOK, Release, At, CallsAreAtSlots, Holding
<1>2. s \in Slot
  BY <1>1 DEF Slot, SlotOf
<1>3. UNCHANGED <<rows, debt, marred>>
  BY DEF Release
<1>4. /\ call' \in [Call -> CallRecord] /\ \A d \in Call \ {c} : call'[d] = call[d]
      /\ call'[c].pc \in {"idle", "next"} /\ call'[c].route \in Route \cup {1}
      /\ call'[c].pc = "next" => call'[c].route \in Route /\ ~call[c].verdict
      /\ ~call'[c].verdict
  <2>1. CASE call[c].verdict
    <3>1. call' = [call EXCEPT ![c] = IdleCall]
      BY <2>1 DEF Release, Resume, End
    <3>2. IdleCall \in CallRecord
      BY RouteAssumption, CallAssumption DEF IdleCall, CallRecord
    <3> QED
      BY <3>1, <3>2 DEF IInv, TypeOK, IdleCall
  <2>2. CASE ~call[c].verdict
    <3>1. Goto(c, "next")
      BY <2>2 DEF Release, Resume
    <3>2. /\ call'[c].pc = "next" /\ call'[c].route = call[c].route
          /\ call'[c].verdict = call[c].verdict
      BY <1>1, <3>1 DEF Goto, IInv, TypeOK, CallRecord
    <3> QED
      BY <1>1, <2>2, <3>1, <3>2, GotoTypes DEF IInv
  <2> QED
    BY <2>1, <2>2
<1>5. /\ count[s] \in Nat /\ ttl[s] \in 0..TTL
      /\ \/ /\ count[s] <= 1
            /\ count' = [count EXCEPT ![s] = 0] /\ ttl' = [ttl EXCEPT ![s] = 0]
         \/ /\ count[s] > 1
            /\ count' = [count EXCEPT ![s] = @ - 1] /\ ttl' = ttl
  BY <1>2 DEF Release, IInv, TypeOK
<1>6. count' \in [Slot -> Nat] /\ ttl' \in [Slot -> 0..TTL]
  BY <1>2, <1>5, SlotAssumption DEF IInv, TypeOK
<1>7. TypeOK'
  BY <1>3, <1>4, <1>6 DEF IInv, TypeOK
<1>8. KeysExpire' /\ CountersAreLimited'
  BY <1>2, <1>5, SlotAssumption DEF IInv, TypeOK, KeysExpire, CountersAreLimited, Slot
<1>9. CallsAreAtSlots' /\ ExecutionsSettle'
  BY <1>1, <1>3, <1>4 DEF IInv, CallsAreAtSlots, ExecutionsSettle, Holding
<1>10. HoldersAreCounted'
  <2> SUFFICES ASSUME NEW t \in Slot
               PROVE  Cardinality(Holders(t)') <= count'[t] + debt[t]
    BY <1>3 DEF HoldersAreCounted
  <2>1. /\ count[t] \in Nat /\ debt[t] \in Nat /\ Cardinality(Holders(t)) \in Nat
        /\ Cardinality(Holders(t)) <= count[t] + debt[t]
    BY HoldersAreFinite DEF IInv, TypeOK, HoldersAreCounted
  <2>2. CASE t = s
    <3>1. Holders(t)' = Holders(t) \ {c} /\ c \in Holders(t)
      BY <1>1, <1>4, <2>2 DEF Holders, SlotOf, Holding
    <3>2. Cardinality(Holders(t)') = Cardinality(Holders(t)) - 1
      BY <3>1, HoldersAreFinite, FS_RemoveElement
    <3>3. count'[t] + 1 >= count[t] /\ count'[t] \in Nat
      BY <1>2, <1>5, <2>2 DEF IInv, TypeOK
    <3> QED
      BY <2>1, <3>2, <3>3
  <2>3. CASE t # s
    <3>1. Holders(t)' \subseteq Holders(t)
      BY <1>4 DEF Holders, SlotOf, Holding
    <3>2. count'[t] = count[t]
      BY <1>5, <2>3 DEF IInv, TypeOK
    <3> QED
      BY <2>1, <3>1, <3>2, FewerHolders
  <2> QED
    BY <2>2, <2>3
<1> QED
  BY <1>7, <1>8, <1>9, <1>10 DEF IInv

\* A key that expires leaves its holders to the debt.
LEMMA TickStep ==
  ASSUME IInv, Tick
  PROVE  IInv'
<1>1. UNCHANGED <<call, rows, marred>>
  BY DEF Tick
<1>2. \A t \in Slot : Holders(t)' = Holders(t) /\ Cardinality(Holders(t)) \in Nat
  BY <1>1, HoldersAreFinite DEF Holders, SlotOf
<1>3. TypeOK'
  <2>1. \A t \in Slot : (IF ttl[t] = 0 THEN 0 ELSE ttl[t] - 1) \in 0..TTL
    <3> SUFFICES ASSUME NEW t \in Slot
                 PROVE  (IF ttl[t] = 0 THEN 0 ELSE ttl[t] - 1) \in 0..TTL
      OBVIOUS
    <3>1. ttl[t] \in 0..TTL /\ TTL \in Nat
      BY SlotAssumption DEF IInv, TypeOK
    <3> QED
      BY <3>1
  <2> QED
    BY <1>1, <1>2, <2>1 DEF IInv, TypeOK, Tick
<1>4. CallsAreAtSlots' /\ ExecutionsSettle'
  BY <1>1 DEF IInv, CallsAreAtSlots, ExecutionsSettle
<1>5. ASSUME NEW t \in Slot
      PROVE  /\ ttl'[t] = 0 => count'[t] = 0
             /\ count'[t] <= Limit[t[1]]
             /\ Cardinality(Holders(t)) <= count'[t] + debt'[t]
  <2>1. /\ count[t] \in Nat /\ ttl[t] \in 0..TTL /\ debt[t] \in Nat
        /\ Limit[t[1]] \in Nat
    BY SlotAssumption DEF IInv, TypeOK, Slot
  <2>2. /\ ttl[t] = 0 => count[t] = 0
        /\ count[t] <= Limit[t[1]] /\ Cardinality(Holders(t)) <= count[t] + debt[t]
    BY DEF IInv, KeysExpire, CountersAreLimited, HoldersAreCounted
  <2>3. /\ ttl'[t] = IF ttl[t] = 0 THEN 0 ELSE ttl[t] - 1
        /\ count'[t] = IF ttl[t] <= 1 THEN 0 ELSE count[t]
        /\ debt'[t] = IF ttl[t] = 1 THEN Cardinality(Holders(t)) ELSE debt[t]
    BY DEF Tick
  <2> QED
    BY <1>2, <2>1, <2>2, <2>3
<1>6. KeysExpire' /\ CountersAreLimited' /\ HoldersAreCounted'
  BY <1>2, <1>5 DEF KeysExpire, CountersAreLimited, HoldersAreCounted
<1> QED
  BY <1>3, <1>4, <1>6 DEF IInv

-----------------------------------------------------------------------------

LEMMA StepHolds == IInv /\ [Next]_vars => IInv'
<1> SUFFICES ASSUME IInv, [Next]_vars PROVE IInv'
  OBVIOUS
<1>1. CASE Tick
  BY <1>1, TickStep
<1>2. ASSUME NEW c \in Call, Begin(c) \/ CallStep(c) \/ CallDies(c) PROVE IInv'
  <2>1. CASE Quietly(c)
    BY <2>1, QuietStep
  <2>2. CASE Release(c)
    BY <2>2, ReleaseStep
  <2>3. CASE \E k \in Connection : TryAcquire(c, k)
    BY <2>3, AcquireStep
  <2> QED
    BY <1>2, <2>1, <2>2, <2>3 DEF CallStep, Quietly
<1>3. CASE UNCHANGED vars
  <2>1. \A t \in Slot : Holders(t)' = Holders(t)
    BY <1>3 DEF vars, Holders, SlotOf
  <2> QED
    BY <1>3, <2>1 DEF IInv, vars, TypeOK, KeysExpire, CountersAreLimited, HoldersAreCounted,
                      CallsAreAtSlots, ExecutionsSettle
<1> QED
  BY <1>1, <1>2, <1>3 DEF Next

\* The counters and the calls' executions stay as the invariant says.
THEOREM Inductive == Spec => []IInv
BY InitHolds, StepHolds, PTL DEF Spec

\* Type correctness: no counter falls below zero, whoever releases what.
THEOREM TypeCorrect == Spec => []TypeOK
<1>1. IInv => TypeOK
  BY DEF IInv
<1> QED
  BY <1>1, Inductive, PTL

\* SlotManagerService keeps the limits of a connection, but for calls that
\* outlive the expiry of their key.
THEOREM LimitHolds == Spec => []LimitIsKept
<1>1. IInv => LimitIsKept
  <2> SUFFICES ASSUME IInv, NEW s \in Slot
               PROVE  /\ Cardinality(Holders(s)) <= count[s] + debt[s]
                      /\ Cardinality(Holders(s)) <= Limit[s[1]] + debt[s]
    BY DEF LimitIsKept, IInv
  <2>1. count[s] \in Nat /\ debt[s] \in Nat /\ Limit[s[1]] \in Nat
    BY SlotAssumption DEF IInv, TypeOK, Slot
  <2> QED
    BY <2>1, HoldersAreFinite DEF IInv, CountersAreLimited, HoldersAreCounted
<1> QED
  BY <1>1, Inductive, PTL

\* classify leaves no execution RUNNING unless one of its statements failed.
THEOREM ExecutionsAreSettled == Spec => []ExecutionsSettle
<1>1. IInv => ExecutionsSettle
  BY DEF IInv
<1> QED
  BY <1>1, Inductive, PTL

-----------------------------------------------------------------------------
(* The routes syncRoutes makes *)

\* A bounded set of numbers that is not empty has a largest one.
LEMMA MaxIsLargest ==
  ASSUME NEW S \in SUBSET Nat, S # {}, NEW b \in Nat, \A x \in S : x <= b
  PROVE  Max(S) \in S /\ \A x \in S : x <= Max(S)
<1> DEFINE bounds == {n \in Nat : \A x \in S : x <= n}
<1>1. PICK least \in bounds : \A y \in bounds : <<y, least>> \notin OpToRel(<, Nat)
  <2>1. bounds \subseteq Nat /\ bounds # {}
    OBVIOUS
  <2> HIDE DEF bounds
  <2> QED
    BY <2>1, NatLessThanWellFounded, WFMin
<1>2. \A y \in bounds : ~(y < least)
  BY <1>1 DEF OpToRel
<1>3. least \in S
  <2> SUFFICES ASSUME least \notin S PROVE FALSE
    OBVIOUS
  <2>1. \A x \in S : x < least
    OBVIOUS
  <2>2. least > 0 /\ least - 1 \in Nat
    <3>1. PICK x \in S : x < least
      BY <2>1
    <3>2. x \in Nat /\ least \in Nat
      OBVIOUS
    <3> HIDE DEF bounds
    <3> QED
      BY <3>1, <3>2
  <2>3. least - 1 \in bounds
    BY <2>1, <2>2
  <2> QED
    BY <1>2, <2>2, <2>3
<1>4. \E m \in S : \A x \in S : m >= x
  BY <1>3
<1> HIDE DEF bounds
<1>5. Max(S) \in S /\ \A x \in S : Max(S) >= x
  BY <1>4 DEF Max
<1> QED
  BY <1>5

\* Under any bound of the tiers there is a next tier, and it is above them.
LEMMA NextTierIsAbove ==
  ASSUME NEW R \in SUBSET (Nat \X Model), NEW b \in Nat, \A r \in R : r[1] <= b
  PROVE  /\ Max({0} \cup {r[1] : r \in R}) + 1 \in Nat
         /\ \A t \in R : t[1] < Max({0} \cup {r[1] : r \in R}) + 1
<1> DEFINE tiers == {0} \cup {r[1] : r \in R}
<1>1. tiers \in SUBSET Nat /\ tiers # {} /\ \A x \in tiers : x <= b
  OBVIOUS
<1>2. \A r \in R : r[1] \in tiers
  OBVIOUS
<1> HIDE DEF tiers
<1>3. Max(tiers) \in tiers /\ \A x \in tiers : x <= Max(tiers)
  BY <1>1, MaxIsLargest
<1>4. PICK top \in Nat : top = Max(tiers)
  BY <1>1, <1>3
<1>5. \A r \in R : r[1] \in Nat /\ r[1] <= top
  BY <1>1, <1>2, <1>3, <1>4
<1>6. top + 1 \in Nat /\ \A r \in R : r[1] < top + 1
  BY <1>5
<1> QED
  BY <1>4, <1>6 DEF tiers

\* The calls that insert a route of a model are calls.
LEMMA InsertingIsFinite ==
  ASSUME NEW m \in Model
  PROVE  /\ IsFiniteSet(Inserting(m)) /\ Cardinality(Inserting(m)) \in Nat
         /\ Cardinality(Inserting(m)) <= Cardinality(Sync) /\ Cardinality(Sync) \in Nat
BY SyncAssumption, FS_Subset, FS_CardinalityType DEF Inserting

LEMMA FewerInserting ==
  ASSUME NEW m \in Model, Inserting(m)' \subseteq Inserting(m)
  PROVE  Cardinality(Inserting(m)') <= Cardinality(Inserting(m)) /\ Cardinality(Inserting(m)') \in Nat
BY InsertingIsFinite, FS_Subset, FS_CardinalityType

\* The initial states.
LEMMA RouteInitHolds == RouteInit => RoutesIInv
<1> SUFFICES ASSUME RouteInit PROVE RoutesIInv
  OBVIOUS
<1> USE SyncAssumption DEF RouteInit
<1>1. IdleSync \in SyncRecord /\ IdleSync.pc = "idle"
  BY DEF IdleSync, SyncRecord
<1>2. RouteTypeOK
  BY <1>1 DEF RouteTypeOK
<1>3. RoutesAreCounted
  <2> SUFFICES ASSUME NEW m \in Model
               PROVE  /\ IsFiniteSet(RoutesOf(m))
                      /\ Cardinality(RoutesOf(m)) + Cardinality(Inserting(m)) <= Cardinality(Sync)
    BY DEF RoutesAreCounted
  <2>1. RoutesOf(m) = {}
    BY DEF RoutesOf
  <2> QED
    BY <2>1, InsertingIsFinite, FS_EmptySet
<1>4. CheckedAreRouted
  BY <1>1 DEF CheckedAreRouted
<1>5. TiersAreBelowNext
  <2>1. routes \in SUBSET (Nat \X Model) /\ \A r \in routes : r[1] <= 0
    OBVIOUS
  <2> QED
    BY <2>1, NextTierIsAbove DEF TiersAreBelowNext, NextTier
<1>6. SyncedIsRouted
  BY DEF SyncedIsRouted
<1> QED
  BY <1>2, <1>3, <1>4, <1>5, <1>6 DEF RoutesIInv

\* What no step takes away: the routes stay, and with them the routed models.
LEMMA SameRoutesSameNext ==
  ASSUME TiersAreBelowNext, UNCHANGED routes
  PROVE  TiersAreBelowNext' /\ RoutedModels' = RoutedModels
BY DEF TiersAreBelowNext, NextTier, RoutedModels

\* A statement of one call that makes no route and finds no model without one.
LEMMA QuietStepsHold ==
  ASSUME RoutesIInv, NEW q \in Sync, NEW s \in SyncRecord,
         sync' = [sync EXCEPT ![q] = s], UNCHANGED routes,
         s.pc = "insert" => sync[q].pc = "insert" /\ s.model = sync[q].model
  PROVE  RoutesAreCounted' /\ TiersAreBelowNext' /\ RoutedModels' = RoutedModels
<1>1. TiersAreBelowNext' /\ RoutedModels' = RoutedModels
  BY SameRoutesSameNext DEF RoutesIInv
<1>2. RoutesAreCounted'
  <2> SUFFICES ASSUME NEW m \in Model
               PROVE  /\ IsFiniteSet(RoutesOf(m))'
                      /\ Cardinality(RoutesOf(m))' + Cardinality(Inserting(m))' <= Cardinality(Sync)
    BY DEF RoutesAreCounted
  <2>1. RoutesOf(m)' = RoutesOf(m)
    BY DEF RoutesOf
  <2>2. Inserting(m)' \subseteq Inserting(m)
    BY DEF Inserting, RoutesIInv, RouteTypeOK
  <2>3. IsFiniteSet(RoutesOf(m)) /\ Cardinality(RoutesOf(m)) \in Nat
    BY FS_CardinalityType DEF RoutesIInv, RoutesAreCounted
  <2>4. Cardinality(RoutesOf(m)) + Cardinality(Inserting(m)) <= Cardinality(Sync)
    BY DEF RoutesIInv, RoutesAreCounted
  <2> QED
    BY <2>1, <2>2, <2>3, <2>4, FewerInserting, InsertingIsFinite
<1> QED
  BY <1>1, <1>2

\* What a call has routed stays routed while its own record and the routes do.
LEMMA OthersStayRouted ==
  ASSUME RoutesIInv, NEW q \in Sync, NEW s \in SyncRecord,
         sync' = [sync EXCEPT ![q] = s], RoutedModels \subseteq RoutedModels',
         s.pc \in {"check", "insert", "rule"} => s.read \ s.todo \subseteq RoutedModels',
         s.pc = "insert" => s.model \in Model,
         s.pc = "rule" => s.todo = {}
  PROVE  CheckedAreRouted'
BY DEF CheckedAreRouted, RoutesIInv, RouteTypeOK

\* A call that ends, with the routes it made or with an error.
LEMMA EndHolds ==
  ASSUME RoutesIInv, NEW q \in Sync, Unstarted(q), UNCHANGED routes, RouteTypeOK', SyncedIsRouted'
  PROVE  RoutesIInv'
<1>1. IdleSync \in SyncRecord /\ IdleSync.pc = "idle"
  BY DEF IdleSync, SyncRecord
<1>2. RoutesAreCounted' /\ TiersAreBelowNext' /\ RoutedModels' = RoutedModels
  BY <1>1, QuietStepsHold DEF Unstarted
<1>3. CheckedAreRouted'
  BY <1>1, <1>2, OthersStayRouted DEF Unstarted
<1> QED
  BY <1>2, <1>3 DEF RoutesIInv

LEMMA QuietStepHolds ==
  ASSUME RoutesIInv, NEW q \in Sync, NEW s \in SyncRecord,
         sync' = [sync EXCEPT ![q] = s], UNCHANGED <<pooled, routes>>, Unsynced,
         policy' \in BOOLEAN, fallback' = fallback,
         s.pc = "insert" => sync[q].pc = "insert" /\ s.model = sync[q].model,
         s.pc \in {"check", "insert", "rule"} => s.read \ s.todo \subseteq RoutedModels,
         s.pc = "insert" => s.model \in Model,
         s.pc = "rule" => s.todo = {}
  PROVE  RoutesIInv'
<1>1. RoutesAreCounted' /\ TiersAreBelowNext' /\ RoutedModels' = RoutedModels
  BY QuietStepsHold
<1>2. CheckedAreRouted'
  BY <1>1, OthersStayRouted
<1>3. RouteTypeOK'
  BY DEF RoutesIInv, RouteTypeOK, Unsynced
<1>4. SyncedIsRouted'
  BY <1>1 DEF RoutesIInv, SyncedIsRouted, Unsynced
<1> QED
  BY <1>1, <1>2, <1>3, <1>4 DEF RoutesIInv

LEMMA StartHolds == ASSUME RoutesIInv, NEW q \in Sync, Start(q) PROVE RoutesIInv'
<1>1. PICK s \in SyncRecord : s = [sync[q] EXCEPT !.pc = "policy"]
  BY DEF RoutesIInv, RouteTypeOK, SyncRecord
<1>2. s.pc = "policy"
  BY <1>1 DEF RoutesIInv, RouteTypeOK, SyncRecord
<1> QED
  BY <1>1, <1>2, QuietStepHolds DEF Start, routeVars, RoutesIInv, RouteTypeOK

LEMMA FindPolicyHolds == ASSUME RoutesIInv, NEW q \in Sync, FindPolicy(q) PROVE RoutesIInv'
<1>1. NextTier \in Nat
  BY DEF RoutesIInv, TiersAreBelowNext
<1>2. CASE policy
  <2>1. PICK s \in SyncRecord : s = [sync[q] EXCEPT !.pc = "models", !.tier = NextTier]
    BY <1>1 DEF RoutesIInv, RouteTypeOK, SyncRecord
  <2>2. s.pc = "models" /\ sync' = [sync EXCEPT ![q] = s]
    BY <1>2, <2>1 DEF RoutesIInv, RouteTypeOK, SyncRecord, FindPolicy
  <2> QED
    BY <2>2, QuietStepHolds DEF FindPolicy, routeVars, RoutesIInv, RouteTypeOK
<1>3. CASE ~policy
  <2>1. PICK s \in SyncRecord : s = [sync[q] EXCEPT !.pc = "create"]
    BY DEF RoutesIInv, RouteTypeOK, SyncRecord
  <2>2. s.pc = "create" /\ sync' = [sync EXCEPT ![q] = s]
    BY <1>3, <2>1 DEF RoutesIInv, RouteTypeOK, SyncRecord, FindPolicy
  <2> QED
    BY <2>2, QuietStepHolds DEF FindPolicy, routeVars, RoutesIInv, RouteTypeOK
<1> QED
  BY <1>2, <1>3

LEMMA CreatePolicyHolds == ASSUME RoutesIInv, NEW q \in Sync, CreatePolicy(q) PROVE RoutesIInv'
<1>1. PICK s \in SyncRecord :
        s \in {IdleSync, [sync[q] EXCEPT !.pc = "models", !.tier = 1]}
        /\ s.pc \in {"idle", "models"} /\ sync' = [sync EXCEPT ![q] = s]
  <2>1. IdleSync \in SyncRecord /\ IdleSync.pc = "idle"
    BY DEF IdleSync, SyncRecord
  <2>2. PICK s \in SyncRecord : s = [sync[q] EXCEPT !.pc = "models", !.tier = 1]
    BY DEF RoutesIInv, RouteTypeOK, SyncRecord
  <2>3. s.pc = "models"
    BY <2>2 DEF RoutesIInv, RouteTypeOK, SyncRecord
  <2> QED
    BY <2>1, <2>2, <2>3 DEF CreatePolicy, Unstarted, RoutesIInv, RouteTypeOK
<1> QED
  BY <1>1, QuietStepHolds DEF CreatePolicy

LEMMA ReadModelsHolds == ASSUME RoutesIInv, NEW q \in Sync, ReadModels(q) PROVE RoutesIInv'
<1>1. PICK s \in SyncRecord : s = [sync[q] EXCEPT !.pc = "check", !.read = pooled, !.todo = pooled]
  BY DEF RoutesIInv, RouteTypeOK, SyncRecord
<1>2. s.pc = "check" /\ s.read \ s.todo = {} /\ sync' = [sync EXCEPT ![q] = s]
  BY <1>1 DEF RoutesIInv, RouteTypeOK, SyncRecord, ReadModels
<1> QED
  BY <1>2, QuietStepHolds DEF ReadModels, routeVars, RoutesIInv, RouteTypeOK

\* A model is found to have a route, or not: then it has none, and the calls
\* that insert one are no more than the calls.
LEMMA CheckRouteHolds == ASSUME RoutesIInv, NEW q \in Sync, CheckRoute(q) PROVE RoutesIInv'
<1>1. PICK m \in sync[q].todo :
        \/ m \in RoutedModels /\ sync' = [sync EXCEPT ![q].todo = @ \ {m}]
        \/ m \notin RoutedModels /\ sync' = [sync EXCEPT ![q].pc = "insert", ![q].model = m]
  BY DEF CheckRoute, CheckAgainst
<1>2. sync[q] \in SyncRecord /\ m \in Model /\ sync[q].pc = "check"
      /\ sync[q].read \ sync[q].todo \subseteq RoutedModels
  BY DEF RoutesIInv, RouteTypeOK, SyncRecord, CheckRoute, CheckAgainst, CheckedAreRouted
<1>3. CASE m \in RoutedModels
  <2>1. PICK s \in SyncRecord : s = [sync[q] EXCEPT !.todo = @ \ {m}]
    BY <1>2 DEF SyncRecord
  <2>2. s.pc = "check" /\ s.read \ s.todo \subseteq RoutedModels /\ sync' = [sync EXCEPT ![q] = s]
    BY <1>1, <1>2, <1>3, <2>1 DEF SyncRecord, RoutesIInv, RouteTypeOK
  <2> QED
    BY <2>2, QuietStepHolds DEF CheckRoute, CheckAgainst, routeVars, RoutesIInv, RouteTypeOK
<1>4. CASE m \notin RoutedModels
  <2>1. PICK s \in SyncRecord : s = [sync[q] EXCEPT !.pc = "insert", !.model = m]
    BY <1>2 DEF SyncRecord
  <2>2. s.pc = "insert" /\ s.model = m /\ s.read = sync[q].read /\ s.todo = sync[q].todo
        /\ sync' = [sync EXCEPT ![q] = s]
    BY <1>1, <1>2, <1>4, <2>1 DEF SyncRecord, RoutesIInv, RouteTypeOK
  <2>3. UNCHANGED <<pooled, routes, policy, fallback, covered, synced>>
    BY DEF CheckRoute, CheckAgainst, Unsynced, routeVars
  <2>4. TiersAreBelowNext' /\ RoutedModels' = RoutedModels
    BY <2>3, SameRoutesSameNext DEF RoutesIInv
  <2>5. RoutesAreCounted'
    <3> SUFFICES ASSUME NEW n \in Model
                 PROVE  /\ IsFiniteSet(RoutesOf(n))'
                        /\ Cardinality(RoutesOf(n))' + Cardinality(Inserting(n))' <= Cardinality(Sync)
      BY DEF RoutesAreCounted
    <3>1. RoutesOf(n)' = RoutesOf(n)
      BY <2>3 DEF RoutesOf
    <3>2. /\ IsFiniteSet(RoutesOf(n)) /\ Cardinality(RoutesOf(n)) \in Nat
          /\ Cardinality(RoutesOf(n)) + Cardinality(Inserting(n)) <= Cardinality(Sync)
      BY FS_CardinalityType DEF RoutesIInv, RoutesAreCounted
    <3>3. CASE n # m
      <4>1. Inserting(n)' \subseteq Inserting(n)
        BY <2>2, <3>3 DEF Inserting, RoutesIInv, RouteTypeOK
      <4> QED
        BY <3>1, <3>2, <4>1, FewerInserting, InsertingIsFinite
    <3>4. CASE n = m
      <4>1. RoutesOf(n) = {} /\ Cardinality(RoutesOf(n)) = 0
        BY <1>4, <3>4, FS_EmptySet DEF RoutesOf, RoutedModels
      <4>2. Inserting(n)' \subseteq Sync
        BY DEF Inserting
      <4>3. Cardinality(Inserting(n)') \in Nat /\ Cardinality(Inserting(n)') <= Cardinality(Sync)
        BY <4>2, SyncAssumption, FS_Subset, FS_CardinalityType
      <4> QED
        BY <3>1, <3>2, <4>1, <4>3
    <3> QED
      BY <3>3, <3>4
  <2>6. CheckedAreRouted'
    BY <1>2, <2>2, <2>4, OthersStayRouted
  <2>7. RouteTypeOK' /\ SyncedIsRouted'
    BY <2>2, <2>3, <2>4 DEF RoutesIInv, RouteTypeOK, SyncedIsRouted
  <2> QED
    BY <2>4, <2>5, <2>6, <2>7 DEF RoutesIInv
<1> QED
  BY <1>3, <1>4

\* A route is made or refused: one call less inserts, one route more is there.
LEMMA InsertRouteHolds == ASSUME RoutesIInv, NEW q \in Sync, InsertRoute(q) PROVE RoutesIInv'
<1> DEFINE m == sync[q].model
           route == Insert(q)
<1>1. /\ sync[q] \in SyncRecord /\ sync[q].pc = "insert" /\ m \in Model
      /\ sync[q].read \ sync[q].todo \subseteq RoutedModels
  BY DEF RoutesIInv, RouteTypeOK, SyncRecord, InsertRoute, CheckedAreRouted
<1>2. route \in Nat \X Model /\ route[1] = sync[q].tier /\ route[2] = m
  BY <1>1 DEF Insert, SyncRecord
<1>3. CASE route \in routes
  <2>1. Unstarted(q) /\ UNCHANGED <<routes, pooled, policy, fallback, covered, synced>>
    BY <1>3 DEF InsertRoute, Unsynced
  <2>2. IdleSync \in SyncRecord
    BY DEF IdleSync, SyncRecord
  <2>3. RouteTypeOK' /\ SyncedIsRouted'
    BY <2>1, <2>2 DEF RoutesIInv, RouteTypeOK, SyncedIsRouted, RoutedModels, Unstarted
  <2> QED
    BY <2>1, <2>3, EndHolds
<1>4. CASE route \notin routes
  <2>1. PICK s \in SyncRecord :
          s = [sync[q] EXCEPT !.pc = "check", !.tier = @ + 1, !.model = NoModel, !.todo = @ \ {m}]
    <3>1. sync[q].tier + 1 \in Nat /\ sync[q].todo \ {m} \in SUBSET Model
      BY <1>1 DEF SyncRecord
    <3> QED
      BY <1>1, <3>1 DEF SyncRecord
  <2>2. /\ s.pc = "check" /\ s.read = sync[q].read /\ s.todo = sync[q].todo \ {m}
        /\ sync' = [sync EXCEPT ![q] = s]
    BY <1>1, <1>4, <2>1 DEF SyncRecord, RoutesIInv, RouteTypeOK, InsertRoute
  <2>3. routes' = routes \cup {route} /\ UNCHANGED <<pooled, policy, fallback, covered, synced>>
    BY <1>4 DEF InsertRoute, Unsynced
  <2>4. RoutedModels' = RoutedModels \cup {m}
    BY <1>2, <2>3 DEF RoutedModels
  <2>5. TiersAreBelowNext'
    <3>1. PICK next \in Nat : next = NextTier /\ \A r \in routes : r[1] < next
      BY DEF RoutesIInv, TiersAreBelowNext
    <3>2. PICK R \in SUBSET (Nat \X Model) : R = routes'
      BY <1>2, <2>3 DEF RoutesIInv, RouteTypeOK
    <3>3. sync[q].tier \in Nat
      BY <1>1 DEF SyncRecord
    <3>4. \A r \in R : r[1] \in Nat /\ (r[1] < next \/ r[1] = sync[q].tier)
      BY <1>2, <2>3, <3>1, <3>2
    <3>5. PICK b \in Nat : b = next + sync[q].tier
      BY <3>3
    <3>6. \A r \in R : r[1] <= b
      BY <3>3, <3>4, <3>5
    <3> QED
      BY <3>2, <3>6, NextTierIsAbove DEF TiersAreBelowNext, NextTier
  <2>6. RoutesAreCounted'
    <3> SUFFICES ASSUME NEW n \in Model
                 PROVE  /\ IsFiniteSet(RoutesOf(n))'
                        /\ Cardinality(RoutesOf(n))' + Cardinality(Inserting(n))' <= Cardinality(Sync)
      BY DEF RoutesAreCounted
    <3>1. /\ IsFiniteSet(RoutesOf(n)) /\ Cardinality(RoutesOf(n)) \in Nat
          /\ Cardinality(RoutesOf(n)) + Cardinality(Inserting(n)) <= Cardinality(Sync)
      BY FS_CardinalityType DEF RoutesIInv, RoutesAreCounted
    <3>2. CASE n # m
      <4>1. RoutesOf(n)' = RoutesOf(n)
        BY <1>2, <2>3, <3>2 DEF RoutesOf
      <4>2. Inserting(n)' \subseteq Inserting(n)
        BY <2>2 DEF Inserting, RoutesIInv, RouteTypeOK
      <4> QED
        BY <3>1, <4>1, <4>2, FewerInserting, InsertingIsFinite
    <3>3. CASE n = m
      <4>1. RoutesOf(n)' = RoutesOf(n) \cup {route} /\ route \notin RoutesOf(n)
        BY <1>2, <1>4, <2>3, <3>3 DEF RoutesOf
      <4>2. IsFiniteSet(RoutesOf(n)') /\ Cardinality(RoutesOf(n)') = Cardinality(RoutesOf(n)) + 1
        BY <3>1, <4>1, FS_AddElement
      <4>3. q \in Inserting(n) /\ Inserting(n)' = Inserting(n) \ {q}
        BY <1>1, <2>2, <3>3 DEF Inserting, RoutesIInv, RouteTypeOK
      <4>4. Cardinality(Inserting(n)') = Cardinality(Inserting(n)) - 1
        BY <4>3, InsertingIsFinite, FS_RemoveElement
      <4> QED
        BY <3>1, <4>2, <4>4, InsertingIsFinite
    <3> QED
      BY <3>2, <3>3
  <2>7. CheckedAreRouted'
    BY <1>1, <2>2, <2>4, OthersStayRouted
  <2>8. RouteTypeOK'
    BY <1>2, <2>2, <2>3 DEF RoutesIInv, RouteTypeOK
  <2>9. SyncedIsRouted'
    BY <2>3, <2>4 DEF RoutesIInv, SyncedIsRouted
  <2> QED
    BY <2>5, <2>6, <2>7, <2>8, <2>9 DEF RoutesIInv
<1> QED
  BY <1>3, <1>4

\* The rule engine's route is there: what the call read is routed.
LEMMA SyncedHolds ==
  ASSUME RoutesIInv, NEW q \in Sync, Synced(q), UNCHANGED <<pooled, policy, routes>>, fallback',
         fallback' \in BOOLEAN, sync[q].pc \in {"check", "rule"}, sync[q].todo = {}
  PROVE  RoutesIInv'
<1>1. IdleSync \in SyncRecord
  BY DEF IdleSync, SyncRecord
<1>2. sync[q].read \subseteq Model /\ sync[q].read \subseteq RoutedModels
  BY DEF RoutesIInv, RouteTypeOK, SyncRecord, CheckedAreRouted
<1>3. RouteTypeOK'
  BY <1>1, <1>2 DEF RoutesIInv, RouteTypeOK, Synced, Unstarted
<1>4. SyncedIsRouted'
  BY <1>2 DEF RoutesIInv, SyncedIsRouted, RoutedModels, Synced
<1> QED
  BY <1>3, <1>4, EndHolds DEF Synced

LEMMA CheckFallbackHolds == ASSUME RoutesIInv, NEW q \in Sync, CheckFallback(q) PROVE RoutesIInv'
<1>1. CASE fallback
  BY <1>1, SyncedHolds DEF CheckFallback, routeVars, RoutesIInv, RouteTypeOK
<1>2. CASE ~fallback
  <2>1. PICK s \in SyncRecord : s = [sync[q] EXCEPT !.pc = "rule"]
    BY DEF RoutesIInv, RouteTypeOK, SyncRecord
  <2>2. /\ s.pc = "rule" /\ s.read = sync[q].read /\ s.todo = {} /\ sync' = [sync EXCEPT ![q] = s]
    BY <1>2, <2>1 DEF SyncRecord, RoutesIInv, RouteTypeOK, CheckFallback
  <2>3. s.read \ s.todo \subseteq RoutedModels
    BY <2>2 DEF RoutesIInv, CheckedAreRouted, CheckFallback
  <2> QED
    BY <1>2, <2>2, <2>3, QuietStepHolds DEF CheckFallback, routeVars, RoutesIInv, RouteTypeOK
<1> QED
  BY <1>1, <1>2

LEMMA InsertFallbackHolds == ASSUME RoutesIInv, NEW q \in Sync, InsertFallback(q) PROVE RoutesIInv'
<1>1. CASE fallback
  <2>1. Unstarted(q) /\ UNCHANGED <<routes, pooled, policy, fallback, covered, synced>>
    BY <1>1 DEF InsertFallback, Unsynced, RoutesIInv, RouteTypeOK
  <2>2. IdleSync \in SyncRecord
    BY DEF IdleSync, SyncRecord
  <2>3. RouteTypeOK' /\ SyncedIsRouted'
    BY <2>1, <2>2 DEF RoutesIInv, RouteTypeOK, SyncedIsRouted, RoutedModels, Unstarted
  <2> QED
    BY <2>1, <2>3, EndHolds
<1>2. CASE ~fallback
  BY <1>2, SyncedHolds DEF InsertFallback, RoutesIInv, CheckedAreRouted
<1> QED
  BY <1>1, <1>2

\* A call that dies, or a pool that changes, leaves the routes.
LEMMA SyncDiesHolds == ASSUME RoutesIInv, NEW q \in Sync, SyncDies(q) PROVE RoutesIInv'
<1>1. Unstarted(q) /\ UNCHANGED <<routes, pooled, policy, fallback, covered, synced>>
  BY DEF SyncDies, Unsynced, routeVars
<1>2. IdleSync \in SyncRecord
  BY DEF IdleSync, SyncRecord
<1>3. RouteTypeOK' /\ SyncedIsRouted'
  BY <1>1, <1>2 DEF RoutesIInv, RouteTypeOK, SyncedIsRouted, RoutedModels, Unstarted
<1> QED
  BY <1>1, <1>3, EndHolds

LEMMA RoutesAloneHold ==
  ASSUME RoutesIInv, RouteTypeOK', UNCHANGED <<routeVars, sync, covered, synced>>
  PROVE  RoutesIInv'
BY DEF RoutesIInv, RoutesAreCounted, RoutesOf, Inserting, CheckedAreRouted, RoutedModels,
       TiersAreBelowNext, NextTier, SyncedIsRouted, routeVars

\* The inductive invariant holds in every reachable state.
THEOREM RoutesInductive == RouteSpec => []RoutesIInv
<1>1. RoutesIInv /\ [RouteNext]_routingVars => RoutesIInv'
  <2> SUFFICES ASSUME RoutesIInv, [RouteNext]_routingVars PROVE RoutesIInv'
    OBVIOUS
  <2>1. ASSUME NEW m \in Model, PoolChanges(m) PROVE RoutesIInv'
    <3>1. RouteTypeOK'
      BY <2>1 DEF PoolChanges, RoutesIInv, RouteTypeOK, routeVars
    <3> QED
      BY <2>1, <3>1, RoutesAloneHold DEF PoolChanges
  <2>2. ASSUME NEW q \in Sync, Start(q) \/ SyncStep(q) \/ SyncDies(q) PROVE RoutesIInv'
    BY <2>2, StartHolds, FindPolicyHolds, CreatePolicyHolds, ReadModelsHolds, CheckRouteHolds,
       InsertRouteHolds, CheckFallbackHolds, InsertFallbackHolds, SyncDiesHolds DEF SyncStep
  <2>3. CASE UNCHANGED routingVars
    <3>1. RouteTypeOK'
      BY <2>3 DEF routingVars, routeVars, RoutesIInv, RouteTypeOK
    <3> QED
      BY <2>3, <3>1, RoutesAloneHold DEF routingVars
  <2> QED
    BY <2>1, <2>2, <2>3 DEF RouteNext
<1> QED
  BY <1>1, RouteInitHolds, PTL DEF RouteSpec

\* However many syncRoutes calls run at once, fail and die, a model has no more
\* routes than calls run at once.
THEOREM RoutesBound == RouteSpec => []RoutesAreBounded
<1>1. RoutesIInv => RoutesAreBounded
  <2> SUFFICES ASSUME RoutesIInv, NEW m \in Model
               PROVE  Cardinality({r \in routes : r[2] = m}) <= Cardinality(Sync)
    BY DEF RoutesAreBounded
  <2>1. /\ IsFiniteSet(RoutesOf(m)) /\ Cardinality(RoutesOf(m)) \in Nat
        /\ Cardinality(RoutesOf(m)) + Cardinality(Inserting(m)) <= Cardinality(Sync)
    BY FS_CardinalityType DEF RoutesIInv, RoutesAreCounted
  <2>2. Cardinality(RoutesOf(m)) <= Cardinality(Sync)
    BY <2>1, InsertingIsFinite
  <2> QED
    BY <2>2 DEF RoutesOf
<1> QED
  BY <1>1, RoutesInductive, PTL

\* A call that completes has routed every model it read, and the rule engine.
THEOREM SyncRoutes == RouteSpec => []SyncedIsRouted
<1>1. RoutesIInv => SyncedIsRouted
  BY DEF RoutesIInv
<1> QED
  BY <1>1, RoutesInductive, PTL

\* The next tier is above the tiers of all routes.
THEOREM NextTierIsFree == RouteSpec => []TiersAreBelowNext
<1>1. RoutesIInv => TiersAreBelowNext
  BY DEF RoutesIInv
<1> QED
  BY <1>1, RoutesInductive, PTL
=============================================================================
