-------------------------- MODULE ReplayGuardProofs --------------------------
(***************************************************************************)
(* ReplayGuard is safe for any number of messages and requests and any     *)
(* clock values, as long as SlackAssumption holds.                         *)
(***************************************************************************)
EXTENDS ReplayGuard, TLAPS

\* IInv holds initially.
LEMMA InitIInv == Init => IInv
BY TimeAssumption, NullAssumption
   DEF Init, IInv, TypeOK, ReqRecord, IdleReq, StampsAreClose, ChecksAreRecent,
       UsedIsRemembered, NoReplay

\* Every step preserves the types.
LEMMA TypeStep == IInv /\ [Next]_vars => TypeOK'
<1> SUFFICES ASSUME TypeOK, ChecksAreRecent, [Next]_vars PROVE TypeOK'
  BY DEF IInv
<1> USE TimeAssumption, NullAssumption DEF TypeOK
<1>1. ASSUME NEW m \in Msg, Sign(m) PROVE TypeOK'
  BY <1>1 DEF Sign
<1>2. ASSUME NEW p \in Req, NEW m \in Msg, Deliver(p, m) PROVE TypeOK'
  BY <1>2, ZenonT(30) DEF Deliver, ReqRecord
<1>3. ASSUME NEW p \in Req, CheckTimestamp(p) PROVE TypeOK'
  BY <1>3 DEF CheckTimestamp, Done, IdleReq, ReqRecord
<1>4. ASSUME NEW p \in Req, FindNonce(p) PROVE TypeOK'
  BY <1>4 DEF FindNonce, Goto, Done, IdleReq, ReqRecord
<1>5. ASSUME NEW p \in Req, CreateNonce(p) PROVE TypeOK'
  BY <1>5 DEF CreateNonce, ChecksAreRecent, Goto, Done, IdleReq, ReqRecord
<1>6. ASSUME NEW p \in Req, StoreBatch(p) PROVE TypeOK'
  BY <1>6 DEF StoreBatch, Goto, ReqRecord
<1>7. ASSUME NEW p \in Req, SweepNonces(p) PROVE TypeOK'
  BY <1>7 DEF SweepNonces, Done, IdleReq, ReqRecord
<1>8. ASSUME NEW p \in Req, RequestDies(p) PROVE TypeOK'
  BY <1>8 DEF RequestDies, Done, IdleReq, ReqRecord
<1>9. CASE Tick
  BY <1>9 DEF Tick
<1>10. CASE UNCHANGED vars
  BY <1>10 DEF vars
<1> QED
  BY <1>1, <1>2, <1>3, <1>4, <1>5, <1>6, <1>7, <1>8, <1>9, <1>10 DEF Next, ReqStep

\* Timestamps stay within the skew: signing respects it and the clock only
\* goes forward.
LEMMA StampStep == IInv /\ [Next]_vars => StampsAreClose'
<1> SUFFICES ASSUME TypeOK, StampsAreClose, [Next]_vars PROVE StampsAreClose'
  BY DEF IInv
<1> USE TimeAssumption, NullAssumption DEF TypeOK, StampsAreClose
<1>1. ASSUME NEW m \in Msg, Sign(m) PROVE StampsAreClose'
  BY <1>1 DEF Sign
<1>2. CASE Tick
  BY <1>2 DEF Tick
<1>3. CASE UNCHANGED <<now, stamp>>
  BY <1>3
<1> QED
  BY <1>1, <1>2, <1>3 DEF Next, ReqStep, vars, Deliver, CheckTimestamp, FindNonce,
     CreateNonce, StoreBatch, SweepNonces, RequestDies

\* A request before its nonce statement keeps its recent, passed check.
LEMMA CheckStep == IInv /\ [Next]_vars => ChecksAreRecent'
<1> SUFFICES ASSUME TypeOK, ChecksAreRecent, [Next]_vars PROVE ChecksAreRecent'
  BY DEF IInv
<1> USE TimeAssumption, NullAssumption DEF TypeOK, ReqRecord, ChecksAreRecent
<1>1. ASSUME NEW m \in Msg, Sign(m) PROVE ChecksAreRecent'
  BY <1>1 DEF Sign
<1>2. ASSUME NEW p \in Req, NEW m \in Msg, Deliver(p, m) PROVE ChecksAreRecent'
  BY <1>2 DEF Deliver
<1>3. ASSUME NEW p \in Req, CheckTimestamp(p) PROVE ChecksAreRecent'
  <2>1. CASE InWindow(req[p].msg) /\ req[p].msg \in Msg
    BY <1>3, <2>1 DEF CheckTimestamp, InWindow
  <2>2. CASE ~InWindow(req[p].msg)
    BY <1>3, <2>2 DEF CheckTimestamp, Done, IdleReq
  <2> QED
    BY <1>3, <2>1, <2>2 DEF CheckTimestamp
<1>4. ASSUME NEW p \in Req, FindNonce(p) PROVE ChecksAreRecent'
  BY <1>4 DEF FindNonce, Goto, Done, IdleReq
<1>5. ASSUME NEW p \in Req, CreateNonce(p) PROVE ChecksAreRecent'
  BY <1>5 DEF CreateNonce, Goto, Done, IdleReq
<1>6. ASSUME NEW p \in Req, StoreBatch(p) PROVE ChecksAreRecent'
  BY <1>6 DEF StoreBatch, Goto
<1>7. ASSUME NEW p \in Req, SweepNonces(p) PROVE ChecksAreRecent'
  BY <1>7 DEF SweepNonces, Done, IdleReq
<1>8. ASSUME NEW p \in Req, RequestDies(p) PROVE ChecksAreRecent'
  BY <1>8 DEF RequestDies, Done, IdleReq
<1>9. CASE Tick
  BY <1>9 DEF Tick
<1>10. CASE UNCHANGED vars
  BY <1>10 DEF vars
<1> QED
  BY <1>1, <1>2, <1>3, <1>4, <1>5, <1>6, <1>7, <1>8, <1>9, <1>10 DEF Next, ReqStep

\* A used message is remembered until it is too old; here the slack is used:
\* at its first acceptance a message is at most Skew ahead of the clock.
LEMMA RememberStep == IInv /\ [Next]_vars => UsedIsRemembered'
<1> SUFFICES ASSUME TypeOK, StampsAreClose, ChecksAreRecent, UsedIsRemembered,
                    [Next]_vars
             PROVE UsedIsRemembered'
  BY DEF IInv
<1> USE TimeAssumption, NullAssumption DEF TypeOK, UsedIsRemembered
<1>1. ASSUME NEW m \in Msg, Sign(m) PROVE UsedIsRemembered'
  BY <1>1 DEF Sign
<1>2. ASSUME NEW p \in Req, CreateNonce(p) PROVE UsedIsRemembered'
  <2> DEFINE m == req[p].msg
  <2>1. m \in Msg /\ stamp[m] \in Nat /\ stamp[m] <= now + Skew
    BY <1>2 DEF CreateNonce, ChecksAreRecent, StampsAreClose
  <2>2. stamp[m] + Window + Delay <= now + Lifetime
    BY <2>1, SlackAssumption
  <2> QED
    BY <1>2, <2>1, <2>2 DEF CreateNonce
<1>3. ASSUME NEW p \in Req, SweepNonces(p) PROVE UsedIsRemembered'
  <2> SUFFICES ASSUME NEW m \in Msg, accepted[m] > 0
               PROVE /\ nonce'[m] # NoNonce => stamp[m] + Window + Delay <= nonce'[m]
                     /\ nonce'[m] = NoNonce => stamp[m] + Window + Delay < now
    BY <1>3 DEF SweepNonces
  <2>1. CASE nonce[m] # NoNonce /\ nonce[m] < now
    BY <1>3, <2>1 DEF SweepNonces
  <2>2. CASE ~(nonce[m] # NoNonce /\ nonce[m] < now)
    BY <1>3, <2>2 DEF SweepNonces
  <2> QED
    BY <2>1, <2>2
<1>4. CASE Tick
  BY <1>4 DEF Tick
<1>5. CASE UNCHANGED <<now, stamp, nonce, accepted>>
  BY <1>5
<1> QED
  BY <1>1, <1>2, <1>3, <1>4, <1>5 DEF Next, ReqStep, vars, Deliver, CheckTimestamp,
     FindNonce, StoreBatch, RequestDies

\* A message that was used is not accepted again: were its nonce row gone, it
\* would be too old for a request that has passed its check.
LEMMA ReplayStep == IInv /\ [Next]_vars => NoReplay'
<1> SUFFICES ASSUME IInv, [Next]_vars PROVE NoReplay'
  OBVIOUS
<1> USE TimeAssumption, NullAssumption DEF IInv, TypeOK, NoReplay
<1>1. ASSUME NEW p \in Req, CreateNonce(p) PROVE NoReplay'
  <2> DEFINE m == req[p].msg
  <2>1. CASE nonce[m] # NoNonce
    BY <1>1, <2>1 DEF CreateNonce
  <2>2. CASE nonce[m] = NoNonce
    <3>1. m \in Msg /\ stamp[m] \in Nat /\ now <= stamp[m] + Window + Delay
      BY <1>1 DEF CreateNonce, ChecksAreRecent, ReqRecord
    <3>2. accepted[m] = 0
      BY <2>2, <3>1 DEF UsedIsRemembered
    <3> QED
      BY <1>1, <2>2, <3>1, <3>2 DEF CreateNonce
  <2> QED
    BY <2>1, <2>2
<1>2. CASE UNCHANGED accepted
  BY <1>2
<1> QED
  BY <1>1, <1>2 DEF Next, ReqStep, vars, Sign, Tick, Deliver, CheckTimestamp,
     FindNonce, StoreBatch, SweepNonces, RequestDies

\* IInv is an invariant of ReplayGuard.
THEOREM Inductive == Spec => []IInv
<1>1. Init => IInv
  BY InitIInv
<1>2. IInv /\ [Next]_vars => IInv'
  BY TypeStep, StampStep, CheckStep, RememberStep, ReplayStep DEF IInv
<1> QED
  BY <1>1, <1>2, PTL DEF Spec

\* The variables keep their types (ReplayGuard's type invariant).
THEOREM TypeCorrect == Spec => []TypeOK
BY Inductive, PTL DEF IInv

\* A signed message is acted on at most once (ingest, resolve and the deletion
\* of expired nonces together).
THEOREM ReplayIsRefused == Spec => []NoReplay
BY Inductive, PTL DEF IInv

\* A nonce row is deleted only when its message is stale for every request.
THEOREM SweepIsSafe == Spec => []SweptIsStale
<1>1. IInv => SweptIsStale
  BY TimeAssumption, NullAssumption
     DEF IInv, TypeOK, ReqRecord, ChecksAreRecent, UsedIsRemembered, SweptIsStale, InWindow
<1> QED
  BY <1>1, Inductive, PTL
=============================================================================
