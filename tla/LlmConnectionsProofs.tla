------------------------ MODULE LlmConnectionsProofs ------------------------
(***************************************************************************)
(* LlmConnections for any number of connections, states and calls.         *)
(***************************************************************************)
EXTENDS LlmConnections, FiniteSetTheorems, TLAPS

\* Nothing but the record of q changes.
Only(q) == \A p \in Call \ {q} : call'[p] = call[p]

\* A call's new record.
LEMMA Updated ==
  ASSUME TypeOK, NEW q \in Call, NEW rec \in CallRecord, call' = [call EXCEPT ![q] = rec]
  PROVE  call' \in [Call -> CallRecord] /\ call'[q] = rec /\ Only(q)
BY DEF TypeOK, Only

\* A callback's record.
LEMMA CallbackCall ==
  ASSUME TypeOK, NEW q \in Call, NEW x \in State, OauthCallback(q, x)
  PROVE  /\ call' \in [Call -> CallRecord] /\ Only(q)
         /\ call'[q].pc = "exchange" /\ call'[q].state = x /\ call'[q].conn = call[q].conn
<1> DEFINE rec == [call[q] EXCEPT !.pc = "exchange", !.state = x]
<1>1. rec \in CallRecord
  BY CallAssumption DEF TypeOK, CallRecord, IdleCall
<1>2. rec.pc = "exchange" /\ rec.state = x /\ rec.conn = call[q].conn
  BY CallAssumption DEF TypeOK, CallRecord, IdleCall
<1>3. call' = [call EXCEPT ![q] = rec]
  BY DEF OauthCallback, TypeOK, CallRecord
<1> HIDE DEF rec
<1> QED
  BY <1>1, <1>2, <1>3, Updated

\* The record of a use.
LEMMA UseCall ==
  ASSUME TypeOK, NEW q \in Call, NEW c \in Conn, NEW verify \in BOOLEAN, BeginUse(q, c, verify)
  PROVE  /\ call' \in [Call -> CallRecord] /\ Only(q)
         /\ call'[q].pc = "read" /\ call'[q].conn = c
<1> DEFINE rec == [call[q] EXCEPT !.pc = "read", !.conn = c, !.verify = verify]
<1>1. rec \in CallRecord
  BY CallAssumption DEF TypeOK, CallRecord, IdleCall
<1>2. rec.pc = "read" /\ rec.conn = c
  BY CallAssumption DEF TypeOK, CallRecord, IdleCall
<1>3. call' = [call EXCEPT ![q] = rec]
  BY DEF BeginUse, TypeOK, CallRecord
<1> HIDE DEF rec
<1> QED
  BY <1>1, <1>2, <1>3, Updated

\* The record after the exchange.
LEMMA ExchangeCall ==
  ASSUME TypeOK, NEW q \in Call, ExchangeOAuthCode(q)
  PROVE  /\ call' \in [Call -> CallRecord] /\ Only(q)
         /\ call'[q].pc = "find" /\ call'[q].conn = Nobody /\ call'[q].token = issued'
<1> DEFINE rec == [IdleCall EXCEPT !.pc = "find", !.token = issued']
<1>0. issued' \in Nat
  BY DEF ExchangeOAuthCode, TypeOK
<1>1. rec \in CallRecord
  BY <1>0, CallAssumption DEF TypeOK, CallRecord, IdleCall
<1>2. rec.pc = "find" /\ rec.conn = Nobody /\ rec.token = issued'
  BY <1>0, CallAssumption DEF TypeOK, CallRecord, IdleCall
<1>3. call' = [call EXCEPT ![q] = rec]
  BY DEF ExchangeOAuthCode, TypeOK, CallRecord
<1> HIDE DEF rec
<1> QED
  BY <1>1, <1>2, <1>3, Updated

\* The record after the connection was stored.
LEMMA StoreCall ==
  ASSUME TypeOK, NEW q \in Call, NEW c \in Conn,
         call' = [call EXCEPT ![q].pc = "credential", ![q].conn = c]
  PROVE  /\ call' \in [Call -> CallRecord] /\ Only(q)
         /\ call'[q].pc = "credential" /\ call'[q].conn = c /\ call'[q].token = call[q].token
         /\ call'[q].late = call[q].late
<1> DEFINE rec == [call[q] EXCEPT !.pc = "credential", !.conn = c]
<1>1. rec \in CallRecord
  BY CallAssumption DEF TypeOK, CallRecord, IdleCall
<1>2. rec.pc = "credential" /\ rec.conn = c /\ rec.token = call[q].token
         /\ rec.late = call[q].late
  BY CallAssumption DEF TypeOK, CallRecord, IdleCall
<1>3. call' = [call EXCEPT ![q] = rec]
  BY DEF TypeOK, TypeOK, CallRecord
<1> HIDE DEF rec
<1> QED
  BY <1>1, <1>2, <1>3, Updated

\* The record after a connection was found.
LEMMA FoundCall ==
  ASSUME TypeOK, NEW q \in Call, NEW c \in Conn,
         call' = [call EXCEPT ![q].pc = "store", ![q].conn = c]
  PROVE  /\ call' \in [Call -> CallRecord] /\ Only(q)
         /\ call'[q].pc = "store" /\ call'[q].conn = c /\ call'[q].token = call[q].token
<1> DEFINE rec == [call[q] EXCEPT !.pc = "store", !.conn = c]
<1>1. rec \in CallRecord
  BY CallAssumption DEF TypeOK, CallRecord, IdleCall
<1>2. rec.pc = "store" /\ rec.conn = c /\ rec.token = call[q].token
  BY CallAssumption DEF TypeOK, CallRecord, IdleCall
<1>3. call' = [call EXCEPT ![q] = rec]
  BY DEF TypeOK, TypeOK, CallRecord
<1> HIDE DEF rec
<1> QED
  BY <1>1, <1>2, <1>3, Updated

\* The record of a call that goes on.
LEMMA MoveCall ==
  ASSUME TypeOK, NEW q \in Call, NEW pc \in {"store", "write"}, call' = [call EXCEPT ![q].pc = pc]
  PROVE  /\ call' \in [Call -> CallRecord] /\ Only(q)
         /\ call'[q].pc = pc /\ call'[q].conn = call[q].conn /\ call'[q].token = call[q].token
         /\ call'[q].late = call[q].late
<1> DEFINE rec == [call[q] EXCEPT !.pc = pc]
<1>1. rec \in CallRecord
  BY CallAssumption DEF TypeOK, CallRecord, IdleCall
<1>2. rec.pc = pc /\ rec.conn = call[q].conn /\ rec.token = call[q].token
         /\ rec.late = call[q].late
  BY CallAssumption DEF TypeOK, CallRecord, IdleCall
<1>3. call' = [call EXCEPT ![q] = rec]
  BY DEF TypeOK, TypeOK, CallRecord
<1> HIDE DEF rec
<1> QED
  BY <1>1, <1>2, <1>3, Updated

\* The record of a call that goes on with a token.
LEMMA TokenCall ==
  ASSUME TypeOK, NEW q \in Call, NEW pc \in {"refresh", "write"}, NEW t \in Nat,
         call' = [call EXCEPT ![q].pc = pc, ![q].token = t]
  PROVE  /\ call' \in [Call -> CallRecord] /\ Only(q)
         /\ call'[q].pc = pc /\ call'[q].conn = call[q].conn /\ call'[q].token = t
         /\ call'[q].late = call[q].late
<1> DEFINE rec == [call[q] EXCEPT !.pc = pc, !.token = t]
<1>1. rec \in CallRecord
  BY CallAssumption, ZenonT(30) DEF TypeOK, CallRecord, IdleCall
<1>2. rec.pc = pc /\ rec.conn = call[q].conn /\ rec.token = t
         /\ rec.late = call[q].late
  BY CallAssumption DEF TypeOK, CallRecord, IdleCall
<1>3. call' = [call EXCEPT ![q] = rec]
  BY DEF TypeOK, TypeOK, CallRecord
<1> HIDE DEF rec
<1> QED
  BY <1>1, <1>2, <1>3, Updated

\* The record of a call that is over.
LEMMA IdledCall ==
  ASSUME TypeOK, NEW q \in Call, Idle(q)
  PROVE  /\ call' \in [Call -> CallRecord] /\ Only(q)
         /\ call'[q].pc = "idle" /\ call'[q].conn = Nobody
<1> DEFINE rec == IdleCall
<1>1. rec \in CallRecord
  BY CallAssumption DEF TypeOK, CallRecord, IdleCall
<1>2. rec.pc = "idle" /\ rec.conn = Nobody
  BY CallAssumption DEF TypeOK, CallRecord, IdleCall
<1>3. call' = [call EXCEPT ![q] = rec]
  BY DEF Idle, TypeOK, CallRecord
<1> HIDE DEF rec
<1> QED
  BY <1>1, <1>2, <1>3, Updated

\* The record of a call that has its credential.
LEMMA GotCall ==
  ASSUME TypeOK, NEW q \in Call, GotCredential(q)
  PROVE  /\ call' \in [Call -> CallRecord] /\ Only(q)
         /\ call'[q].pc \in {"idle", "probe"}
         /\ call'[q].pc = "idle" => call'[q].conn = Nobody
         /\ call'[q].pc = "probe" => call'[q].conn = call[q].conn /\ call'[q].late = call[q].late
<1>1. CASE call[q].verify
  <2> DEFINE rec == [call[q] EXCEPT !.pc = "probe", !.token = 0]
  <2>1. rec \in CallRecord
    BY DEF TypeOK, CallRecord
  <2>2. rec.pc = "probe" /\ rec.conn = call[q].conn /\ rec.late = call[q].late
    BY DEF TypeOK, CallRecord
  <2>3. call' = [call EXCEPT ![q] = rec]
    BY <1>1 DEF GotCredential
  <2> HIDE DEF rec
  <2> QED
    BY <2>1, <2>2, <2>3, Updated
<1>2. CASE ~call[q].verify
  <2>1. IdleCall \in CallRecord /\ IdleCall.pc = "idle" /\ IdleCall.conn = Nobody
    BY DEF IdleCall, CallRecord
  <2>2. call' = [call EXCEPT ![q] = IdleCall]
    BY <1>2 DEF GotCredential
  <2> QED
    BY <2>1, <2>2, Updated
<1> QED
  BY <1>1, <1>2

\* A connection's new row.
LEMMA RowUpdated ==
  ASSUME TypeOK, NEW c \in Conn, NEW row \in ConnRecord, conn' = [conn EXCEPT ![c] = row]
  PROVE  /\ conn' \in [Conn -> ConnRecord] /\ conn'[c] = row
         /\ \A d \in Conn \ {c} : conn'[d] = conn[d]
BY DEF TypeOK

\* The row that a callback stores.
LEMMA StoredRow ==
  ASSUME TypeOK, NEW c \in Conn, conn' = [conn EXCEPT ![c] = Linked(conn[c])]
  PROVE  /\ conn' \in [Conn -> ConnRecord]
         /\ conn'[c].oauth = TRUE
         /\ conn'[c].life = IF conn[c].life = "none" THEN "live" ELSE conn[c].life
         /\ \A d \in Conn \ {c} : conn'[d] = conn[d]
<1>1. conn[c] \in ConnRecord
  BY DEF TypeOK
<1>2. /\ Linked(conn[c]) \in ConnRecord /\ Linked(conn[c]).oauth = TRUE
      /\ Linked(conn[c]).life = IF conn[c].life = "none" THEN "live" ELSE conn[c].life
  BY <1>1 DEF ConnRecord, Linked
<1>3. /\ conn' \in [Conn -> ConnRecord] /\ conn'[c] = Linked(conn[c])
      /\ \A d \in Conn \ {c} : conn'[d] = conn[d]
  BY <1>2, RowUpdated
<1> QED
  BY <1>2, <1>3

\* The row of a connection that a call wrote to, or that was removed.
LEMMA KeptRow ==
  ASSUME TypeOK, NEW c \in Conn,
         \/ \E status \in {"ACTIVE", "INVALID"} :
              conn' = [conn EXCEPT ![c].status = status]
         \/ conn' = [conn EXCEPT ![c].status = "ACTIVE", ![c].secret = TRUE]
  PROVE  /\ conn' \in [Conn -> ConnRecord]
         /\ \A d \in Conn : conn'[d].life = conn[d].life /\ conn'[d].oauth = conn[d].oauth
         /\ \A d \in Conn \ {c} : conn'[d] = conn[d]
<1>0. conn[c] \in ConnRecord
  BY DEF TypeOK
<1>1. ASSUME NEW status \in {"ACTIVE", "INVALID"}, conn' = [conn EXCEPT ![c].status = status]
      PROVE  /\ conn' \in [Conn -> ConnRecord]
             /\ conn'[c].life = conn[c].life /\ conn'[c].oauth = conn[c].oauth
             /\ \A d \in Conn \ {c} : conn'[d] = conn[d]
  <2> DEFINE row == [conn[c] EXCEPT !.status = status]
  <2>1. row \in ConnRecord /\ row.life = conn[c].life /\ row.oauth = conn[c].oauth
    BY <1>0 DEF ConnRecord
  <2>2. conn' = [conn EXCEPT ![c] = row]
    BY <1>1
  <2> HIDE DEF row
  <2> QED
    BY <2>1, <2>2, RowUpdated
<1>2. ASSUME conn' = [conn EXCEPT ![c].status = "ACTIVE", ![c].secret = TRUE]
      PROVE  /\ conn' \in [Conn -> ConnRecord]
             /\ conn'[c].life = conn[c].life /\ conn'[c].oauth = conn[c].oauth
             /\ \A d \in Conn \ {c} : conn'[d] = conn[d]
  <2> DEFINE row == [conn[c] EXCEPT !.status = "ACTIVE", !.secret = TRUE]
  <2>1. row \in ConnRecord /\ row.life = conn[c].life /\ row.oauth = conn[c].oauth
    BY <1>0 DEF ConnRecord
  <2>2. conn' = [conn EXCEPT ![c] = row]
    BY <1>2 DEF TypeOK, ConnRecord
  <2> HIDE DEF row
  <2> QED
    BY <2>1, <2>2, RowUpdated
<1> QED
  BY <1>1, <1>2

\* Removal touches the row and marks the calls that found it.
LEMMA RemovedRow ==
  ASSUME TypeOK, NEW c \in Conn, RemoveConnection(c)
  PROVE  /\ conn' \in [Conn -> ConnRecord]
         /\ conn'[c].life = "removed" /\ conn'[c].oauth = conn[c].oauth
         /\ \A d \in Conn \ {c} : conn'[d] = conn[d]
         /\ call' \in [Call -> CallRecord]
         /\ \A q \in Call :
              /\ call'[q].pc = call[q].pc /\ call'[q].conn = call[q].conn
              /\ call'[q].token = call[q].token /\ call'[q].state = call[q].state
              /\ call[q].late \/ call[q].conn = c => call'[q].late
<1> DEFINE row == [conn[c] EXCEPT !.life = "removed", !.status = "DRAINING",
                                  !.pooled = FALSE, !.secret = FALSE]
           late(q) == [call[q] EXCEPT !.late = TRUE]
<1>1. row \in ConnRecord /\ row.life = "removed" /\ row.oauth = conn[c].oauth
  BY ZenonT(30) DEF TypeOK, ConnRecord
<1>2. conn' = [conn EXCEPT ![c] = row]
  BY DEF RemoveConnection
<1>3. call' = [q \in Call |-> IF call[q].conn = c THEN late(q) ELSE call[q]]
  BY DEF RemoveConnection
<1>4. ASSUME NEW q \in Call
      PROVE  /\ late(q) \in CallRecord /\ late(q).late = TRUE
             /\ late(q).pc = call[q].pc /\ late(q).conn = call[q].conn
             /\ late(q).token = call[q].token /\ late(q).state = call[q].state
  BY DEF TypeOK, CallRecord
<1>5. \A q \in Call : call[q] \in CallRecord /\ call[q].late \in BOOLEAN
  BY DEF TypeOK, CallRecord
<1> HIDE DEF row, late
<1>6. ASSUME NEW q \in Call
      PROVE  /\ call'[q] \in CallRecord
             /\ call'[q].pc = call[q].pc /\ call'[q].conn = call[q].conn
             /\ call'[q].token = call[q].token /\ call'[q].state = call[q].state
             /\ call[q].late \/ call[q].conn = c => call'[q].late
  BY <1>3, <1>4, <1>5
<1>7. call' \in [Call -> CallRecord]
  BY <1>3, <1>6
<1> QED
  BY <1>1, <1>2, <1>6, <1>7, RowUpdated

\* Reading the credential ends the use, or goes on with the stored token.
LEMMA ReadCall ==
  ASSUME TypeOK, CallsHaveRows, NEW q \in Call, ReadCredential(q)
  PROVE  /\ call[q].pc = "read" /\ Only(q)
         /\ call'[q].pc \in {"idle", "probe", "refresh"}
         /\ call'[q].pc = "refresh" =>
              /\ call[q].conn \in Conn /\ call'[q].conn = call[q].conn
              /\ call'[q].token = cred[call[q].conn] /\ call'[q].token # 0
<1>1. call[q].pc = "read" /\ call[q].conn \in Conn /\ cred[call[q].conn] \in Nat
  BY DEF ReadCredential, CallsHaveRows, TypeOK
<1>2. CASE GotCredential(q)
  BY <1>1, <1>2, GotCall
<1>3. CASE /\ cred[call[q].conn] # 0
           /\ call' = [call EXCEPT ![q].pc = "refresh", ![q].token = cred[call[q].conn]]
  <2>1. /\ call'[q].pc = "refresh" /\ call'[q].conn = call[q].conn
        /\ call'[q].token = cred[call[q].conn] /\ Only(q)
    BY <1>1, <1>3, TokenCall
  <2> QED
    BY <1>1, <1>3, <2>1
<1> QED
  BY <1>2, <1>3 DEF ReadCredential

\* The lookup goes on with an OAuth connection or with none.
LEMMA FindCall ==
  ASSUME TypeOK, CallsHaveRows, NEW q \in Call, FindOAuth(q)
  PROVE  /\ call[q].pc = "find" /\ Only(q)
         /\ call'[q].pc = "store" /\ call'[q].token = call[q].token
         /\ \/ /\ call'[q].conn \in Conn /\ Live(call'[q].conn) /\ conn[call'[q].conn].oauth
            \/ call'[q].conn = Nobody /\ OAuthConns = {}
<1>1. call[q].pc = "find" /\ call[q].conn = Nobody
  BY DEF FindOAuth, FindAmong, CallsHaveRows
<1>2. CASE \E c \in OAuthConns : call' = [call EXCEPT ![q].pc = "store", ![q].conn = c]
  <2>1. PICK c \in OAuthConns : call' = [call EXCEPT ![q].pc = "store", ![q].conn = c]
    BY <1>2
  <2>2. c \in Conn /\ Live(c) /\ conn[c].oauth
    BY DEF OAuthConns
  <2> QED
    BY <1>1, <2>1, <2>2, FoundCall
<1>3. CASE OAuthConns = {} /\ call' = [call EXCEPT ![q].pc = "store"]
  BY <1>1, <1>3, MoveCall
<1> QED
  BY <1>2, <1>3 DEF FindOAuth, FindAmong, OAuthConns

\* A refresh replaces the token, keeps it, or fails.
LEMMA RefreshCall ==
  ASSUME TypeOK, CallsHaveRows, TokensAreOwned, NEW q \in Call, Refresh(q)
  PROVE  /\ call[q].pc = "refresh" /\ Only(q)
         /\ \/ /\ rotates /\ call[q].token \in valid /\ issued' = issued + 1
               /\ valid' = (valid \ {call[q].token}) \cup {issued'}
               /\ call'[q].pc = "write" /\ call'[q].conn = call[q].conn
               /\ call'[q].token = issued'
            \/ /\ ~rotates /\ UNCHANGED <<valid, issued>>
               /\ call'[q].pc = "write" /\ call'[q].conn = call[q].conn
               /\ call'[q].token = call[q].token
            \/ UNCHANGED <<valid, issued>> /\ call'[q].pc = "idle"
<1>1. call[q].pc = "refresh"
  BY DEF Refresh
<1>2. CASE rotates /\ call[q].token \in valid
  <2>1. /\ call' = [call EXCEPT ![q].pc = "write", ![q].token = issued']
        /\ issued' = issued + 1 /\ valid' = (valid \ {call[q].token}) \cup {issued'}
    BY <1>2 DEF Refresh
  <2>2. issued' \in Nat
    BY <2>1 DEF TypeOK
  <2>3. /\ call'[q].pc = "write" /\ call'[q].conn = call[q].conn /\ call'[q].token = issued'
        /\ Only(q)
    BY <2>1, <2>2, TokenCall
  <2> QED
    BY <1>1, <1>2, <2>1, <2>3
<1>3. CASE ~rotates /\ call[q].token \in valid
  BY <1>1, <1>3, MoveCall DEF Refresh, providerVars
<1>4. CASE call[q].token \notin valid
  BY <1>1, <1>4, IdledCall DEF Refresh, providerVars
<1> QED
  BY <1>2, <1>3, <1>4

\* A connection is stored by a call that goes on to the credential.
LEMMA StoreStep ==
  ASSUME TypeOK, CallsHaveRows, NEW q \in Call, StoreConnection(q)
  PROVE  \E c \in Conn :
           /\ c = call[q].conn \/ (call[q].conn = Nobody /\ conn[c].life = "none")
           /\ call[q].pc = "store" /\ Only(q)
           /\ call'[q].pc = "credential" /\ call'[q].conn = c
           /\ call'[q].token = call[q].token
           /\ conn'[c].oauth = TRUE
           /\ conn'[c].life = IF conn[c].life = "none" THEN "live" ELSE conn[c].life
           /\ \A d \in Conn \ {c} : conn'[d] = conn[d]
<1>1. PICK c \in Conn :
        /\ c = call[q].conn \/ (call[q].conn = Nobody /\ conn[c].life = "none")
        /\ conn' = [conn EXCEPT ![c] = Linked(conn[c])]
        /\ call' = [call EXCEPT ![q].pc = "credential", ![q].conn = c]
  BY DEF StoreConnection
<1>2. /\ conn'[c].oauth = TRUE /\ \A d \in Conn \ {c} : conn'[d] = conn[d]
      /\ conn'[c].life = IF conn[c].life = "none" THEN "live" ELSE conn[c].life
  BY <1>1, StoredRow
<1>3. /\ call'[q].pc = "credential" /\ call'[q].conn = c /\ call'[q].token = call[q].token
      /\ Only(q)
  BY <1>1, StoreCall
<1>4. call[q].pc = "store"
  BY DEF StoreConnection
<1> QED
  BY <1>1, <1>2, <1>3, <1>4

\* A stored token works as before while the calls that are about to store one stay.
LEMMA StoredKept ==
  ASSUME StoredTokenWorks, NEW q \in Call, Only(q), call[q].pc \notin {"write", "credential"},
         UNCHANGED <<cred, valid, cut>>, \A d \in Conn : conn'[d].oauth = conn[d].oauth
  PROVE  StoredTokenWorks'
BY DEF StoredTokenWorks, Only

\* Tokens stay owned when a call goes on, or ends, with a token it had or one
\* that is stored for its connection.
LEMMA TokensKept ==
  ASSUME TokensAreOwned, NEW q \in Call, Only(q), UNCHANGED <<cred, valid, issued, rotates>>,
         HasToken(q)' => call'[q].token \in 1..issued,
         HasNew(q)' => HasNew(q) /\ call'[q].token = call[q].token,
         HasToken(q)' => \A p \in Call \ {q} : HasNew(p) => call[p].token # call'[q].token,
         rotates /\ call'[q].pc = "refresh" =>
           \A c \in Conn : cred[c] = call'[q].token => c = call'[q].conn
  PROVE  TokensAreOwned'
<1>1. \A p \in Call \ {q} : /\ call'[p] = call[p]
                            /\ HasToken(p)' <=> HasToken(p)
                            /\ HasNew(p)' <=> HasNew(p)
  BY DEF Only, HasToken, HasNew
<1>2. \A p \in Call : HasToken(p)' => call'[p].token \in 1..issued
  BY <1>1 DEF TokensAreOwned
<1>3. ASSUME NEW p \in Call, HasNew(p)'
      PROVE  /\ call'[p].token \in valid
             /\ \A c \in Conn : cred[c] # call'[p].token
             /\ \A r \in Call \ {p} : HasToken(r)' => call'[r].token # call'[p].token
  <2>1. HasNew(p) /\ call'[p].token = call[p].token
    BY <1>1, <1>3
  <2>2. \A r \in Call \ {p} : HasToken(r)' => call'[r].token # call'[p].token
    <3>1. \A r \in Call \ {p, q} : HasToken(r)' => call'[r].token # call'[p].token
      BY <1>1, <2>1 DEF TokensAreOwned
    <3>2. p # q => (HasToken(q)' => call'[q].token # call'[p].token)
      BY <2>1
    <3> QED
      BY <3>1, <3>2
  <2> QED
    BY <2>1, <2>2 DEF TokensAreOwned
<1>4. rotates => \A p \in Call, c \in Conn :
        call'[p].pc = "refresh" /\ cred[c] = call'[p].token => c = call'[p].conn
  BY <1>1 DEF TokensAreOwned
<1> HIDE DEF HasNew, HasToken
<1> QED
  BY <1>2, <1>3, <1>4 DEF TokensAreOwned

\* Every step preserves the types.
LEMMA TypeStep == IInv /\ [Next]_vars => TypeOK'
<1> SUFFICES ASSUME TypeOK, CallsHaveRows, TokensAreOwned, [Next]_vars PROVE TypeOK'
  BY DEF IInv
<1> USE CallAssumption, TokenAssumption DEF TypeOK, CallsHaveRows, ConnRecord, NoConn,
        CallRecord, IdleCall, rowVars, providerVars
<1>1. ASSUME NEW x \in State, OauthStart(x) PROVE TypeOK'
  BY <1>1 DEF OauthStart
<1>2. ASSUME NEW x \in State, StateExpires(x) PROVE TypeOK'
  BY <1>2 DEF StateExpires
<1>3. ASSUME NEW x \in State, NEW q \in Call, OauthCallback(q, x) PROVE TypeOK'
  <2> HIDE DEF ConnRecord, CallRecord, IdleCall
  <2> QED
    BY <1>3, CallbackCall DEF OauthCallback
<1>4. ASSUME NEW c \in Conn, AddKey(c) PROVE TypeOK'
  BY <1>4 DEF AddKey
<1>5. ASSUME NEW c \in Conn, RemoveConnection(c) PROVE TypeOK'
  <2> HIDE DEF ConnRecord, CallRecord, IdleCall
  <2> QED
    BY <1>5, RemovedRow DEF RemoveConnection
<1>6. ASSUME NEW c \in Conn, NEW q \in Call, Verify(q, c) PROVE TypeOK'
  <2> HIDE DEF ConnRecord, CallRecord, IdleCall
  <2> QED
    BY <1>6, UseCall DEF Verify, BeginUse
<1>7. ASSUME NEW c \in Conn, NEW q \in Call, Route(q, c) PROVE TypeOK'
  <2> HIDE DEF ConnRecord, CallRecord, IdleCall
  <2> QED
    BY <1>7, UseCall DEF Route, BeginUse
<1>8. ASSUME NEW q \in Call, ExchangeOAuthCode(q) PROVE TypeOK'
  <2> HIDE DEF ConnRecord, CallRecord, IdleCall
  <2>1. call' \in [Call -> CallRecord]
    BY <1>8, ExchangeCall
  <2>2. spent' \in [State -> Nat]
    BY <1>8 DEF ExchangeOAuthCode
  <2>3. Cardinality(Storing') \in Nat
    <3>1. Storing' \subseteq Call
      BY DEF Storing
    <3> QED
      BY <3>1, CallAssumption, FS_Subset, FS_CardinalityType
  <2>4. peak' \in Nat
    BY <1>8, <2>3 DEF ExchangeOAuthCode
  <2>5. issued' = issued + 1 /\ valid' = valid \cup {issued'}
    BY <1>8 DEF ExchangeOAuthCode
  <2>6. valid' \subseteq 1..issued' /\ issued' \in Nat
    BY <2>5
  <2> QED
    BY <1>8, <2>1, <2>2, <2>4, <2>6 DEF ExchangeOAuthCode
<1>9. ASSUME NEW q \in Call, FindOAuth(q) PROVE TypeOK'
  BY <1>9, SMTT(30) DEF FindOAuth, FindAmong
<1>10. ASSUME NEW q \in Call, StoreConnection(q) PROVE TypeOK'
  <2> HIDE DEF ConnRecord, CallRecord, IdleCall
  <2>1. PICK c \in Conn :
          /\ conn' = [conn EXCEPT ![c] = Linked(conn[c])]
          /\ call' = [call EXCEPT ![q].pc = "credential", ![q].conn = c]
    BY <1>10 DEF StoreConnection
  <2>2. conn' \in [Conn -> ConnRecord]
    BY <2>1, StoredRow
  <2>3. call' \in [Call -> CallRecord]
    BY <2>1, StoreCall
  <2> QED
    BY <1>10, <2>2, <2>3 DEF StoreConnection
<1>11. ASSUME NEW q \in Call, StoreCredential(q) PROVE TypeOK'
  BY <1>11 DEF StoreCredential, Idle
<1>12. ASSUME NEW q \in Call, ReadCredential(q) PROVE TypeOK'
  <2> HIDE DEF ConnRecord, CallRecord, IdleCall
  <2>1. CASE GotCredential(q)
    BY <1>12, <2>1, GotCall DEF ReadCredential
  <2>2. CASE call' = [call EXCEPT ![q].pc = "refresh", ![q].token = cred[call[q].conn]]
    <3>1. cred[call[q].conn] \in Nat
      BY <1>12 DEF ReadCredential, CallsHaveRows, TypeOK
    <3>2. call' \in [Call -> CallRecord]
      BY <2>2, <3>1, TokenCall
    <3> QED
      BY <1>12, <3>2 DEF ReadCredential
  <2> QED
    BY <1>12, <2>1, <2>2 DEF ReadCredential
<1>13. ASSUME NEW q \in Call, Refresh(q) PROVE TypeOK'
  <2> HIDE DEF ConnRecord, CallRecord, IdleCall
  <2>1. CASE rotates /\ call[q].token \in valid
    <3>1. call' = [call EXCEPT ![q].pc = "write", ![q].token = issued'] /\ issued' \in Nat
          /\ issued' = issued + 1 /\ valid' = (valid \ {call[q].token}) \cup {issued'}
      BY <1>13, <2>1 DEF Refresh
    <3>2. call' \in [Call -> CallRecord]
      BY <3>1, TokenCall
    <3>3. valid' \subseteq 1..issued'
      BY <3>1
    <3> QED
      BY <1>13, <3>1, <3>2, <3>3 DEF Refresh
  <2>2. CASE ~rotates /\ call[q].token \in valid
    <3>1. call' = [call EXCEPT ![q].pc = "write"]
      BY <1>13, <2>2 DEF Refresh
    <3>2. call' \in [Call -> CallRecord]
      BY <3>1, MoveCall
    <3> QED
      BY <1>13, <2>2, <3>2 DEF Refresh
  <2>3. CASE call[q].token \notin valid
    BY <1>13, <2>3, IdledCall DEF Refresh
  <2> QED
    BY <2>1, <2>2, <2>3
<1>14. ASSUME NEW q \in Call, WriteToken(q) PROVE TypeOK'
  <2> HIDE DEF ConnRecord, CallRecord, IdleCall
  <2>1. call[q].conn \in Conn /\ call[q].token \in Nat
    BY <1>14 DEF WriteToken, CallsHaveRows, CallRecord
  <2>2. conn' \in [Conn -> ConnRecord]
    BY <1>14, <2>1, KeptRow DEF WriteToken
  <2>3. call' \in [Call -> CallRecord]
    BY <1>14, GotCall DEF WriteToken
  <2> QED
    BY <1>14, <2>1, <2>2, <2>3 DEF WriteToken
<1>15. ASSUME NEW q \in Call, Probe(q) PROVE TypeOK'
  <2> HIDE DEF ConnRecord, CallRecord, IdleCall
  <2>1. call[q].conn \in Conn
    BY <1>15 DEF Probe, CallsHaveRows
  <2>2. conn' \in [Conn -> ConnRecord]
    BY <1>15, <2>1, KeptRow DEF Probe
  <2>3. call' \in [Call -> CallRecord]
    BY <1>15, IdledCall DEF Probe
  <2> QED
    BY <1>15, <2>2, <2>3 DEF Probe
<1>16. ASSUME NEW q \in Call, CallDies(q) PROVE TypeOK'
  BY <1>16 DEF CallDies, Idle
<1>17. ASSUME UNCHANGED vars PROVE TypeOK'
  BY <1>17 DEF vars
<1> QED
  BY <1>1, <1>2, <1>3, <1>4, <1>5, <1>6, <1>7, <1>8, <1>9, <1>10, <1>11, <1>12, <1>13, <1>14,
     <1>15, <1>16, <1>17 DEF Next, Step

\* Calls keep their rows: a row is never deleted.
LEMMA RowStep == IInv /\ [Next]_vars => CallsHaveRows'
<1> SUFFICES ASSUME TypeOK, CallsHaveRows, [Next]_vars PROVE CallsHaveRows'
  BY DEF IInv
<1> USE CallAssumption DEF TypeOK, CallsHaveRows, ConnRecord, NoConn, CallRecord, IdleCall,
        Live, rowVars, providerVars
<1>1. ASSUME NEW x \in State, OauthStart(x) PROVE CallsHaveRows'
  BY <1>1 DEF OauthStart
<1>2. ASSUME NEW x \in State, StateExpires(x) PROVE CallsHaveRows'
  BY <1>2 DEF StateExpires
<1>3. ASSUME NEW x \in State, NEW q \in Call, OauthCallback(q, x) PROVE CallsHaveRows'
  <2>1. UNCHANGED conn /\ call[q].pc = "idle"
    BY <1>3 DEF OauthCallback
  <2> HIDE DEF CallRecord, ConnRecord, IdleCall
  <2>2. /\ call'[q].pc = "exchange" /\ call'[q].state = x /\ call'[q].conn = call[q].conn
        /\ Only(q)
    BY <1>3, CallbackCall
  <2> QED
    BY <2>1, <2>2 DEF Only
<1>4. ASSUME NEW c \in Conn, AddKey(c) PROVE CallsHaveRows'
  BY <1>4 DEF AddKey
<1>5. ASSUME NEW c \in Conn, RemoveConnection(c) PROVE CallsHaveRows'
  <2>1. conn[c].life # "none"
    BY <1>5 DEF RemoveConnection
  <2> HIDE DEF CallRecord, ConnRecord, IdleCall
  <2>2. /\ conn'[c].life = "removed" /\ conn'[c].oauth = conn[c].oauth
        /\ \A d \in Conn \ {c} : conn'[d] = conn[d]
        /\ \A q \in Call :
             /\ call'[q].pc = call[q].pc /\ call'[q].conn = call[q].conn
             /\ call'[q].state = call[q].state
             /\ call[q].late \/ call[q].conn = c => call'[q].late
    BY <1>5, RemovedRow
  <2> QED
    BY <2>1, <2>2
<1>6. ASSUME NEW c \in Conn, NEW q \in Call, Verify(q, c) PROVE CallsHaveRows'
  BY <1>6 DEF Verify, BeginUse
<1>7. ASSUME NEW c \in Conn, NEW q \in Call, Route(q, c) PROVE CallsHaveRows'
  BY <1>7 DEF Route, BeginUse
<1>8. ASSUME NEW q \in Call, ExchangeOAuthCode(q) PROVE CallsHaveRows'
  BY <1>8 DEF ExchangeOAuthCode
<1>9. ASSUME NEW q \in Call, FindOAuth(q) PROVE CallsHaveRows'
  BY <1>9, SMTT(30) DEF FindOAuth, FindAmong
<1>10. ASSUME NEW q \in Call, StoreConnection(q) PROVE CallsHaveRows'
  <2> HIDE DEF CallRecord, ConnRecord, IdleCall, CallsHaveRows, TypeOK
  <2>1. PICK c \in Conn :
          /\ c = call[q].conn \/ (call[q].conn = Nobody /\ conn[c].life = "none")
          /\ conn' = [conn EXCEPT ![c] = Linked(conn[c])]
          /\ call' = [call EXCEPT ![q].pc = "credential", ![q].conn = c]
    BY <1>10 DEF StoreConnection
  <2>2. /\ conn'[c].oauth = TRUE /\ \A d \in Conn \ {c} : conn'[d] = conn[d]
        /\ conn'[c].life = IF conn[c].life = "none" THEN "live" ELSE conn[c].life
    BY <2>1, StoredRow
  <2>3. /\ call'[q].pc = "credential" /\ call'[q].conn = c /\ call'[q].late = call[q].late
        /\ Only(q)
    BY <2>1, StoreCall
  <2>4. call[q].pc = "store"
    BY <1>10 DEF StoreConnection
  <2>5. ASSUME NEW p \in Call, p # q, call[p].conn \in Conn
        PROVE  /\ call'[p] = call[p] /\ call[p].pc # "idle"
               /\ conn'[call[p].conn].life = conn[call[p].conn].life
               /\ conn[call[p].conn].oauth => conn'[call[p].conn].oauth
    BY CallAssumption, <2>2, <2>3, <2>5 DEF Only, CallsHaveRows
  <2>6. \A d \in Conn : conn'[d].oauth => conn'[d].life # "none"
    BY <2>2 DEF CallsHaveRows
  <2>7. /\ conn'[c].life # "none"
        /\ conn'[c].life = "removed" => call'[q].late
    BY CallAssumption, <2>1, <2>2, <2>3, <2>4 DEF CallsHaveRows
  <2>8. ASSUME NEW p \in Call, p # q, call'[p].conn \in Conn, call'[p].pc # "idle"
        PROVE  /\ conn'[call'[p].conn].life # "none"
               /\ conn'[call'[p].conn].life = "removed" => call'[p].late
               /\ call'[p].pc \in {"store", "credential"} => conn'[call'[p].conn].oauth
    <3>1. call'[p] = call[p]
      BY <2>3, <2>8 DEF Only
    <3> QED
      BY <2>5, <2>8, <3>1 DEF CallsHaveRows
  <2>9. \A p \in Call \ {q} : call'[p] = call[p]
    BY <2>3 DEF Only
  <2> QED
    BY <2>2, <2>3, <2>6, <2>7, <2>8, <2>9 DEF CallsHaveRows
<1>11. ASSUME NEW q \in Call, StoreCredential(q) PROVE CallsHaveRows'
  BY <1>11 DEF StoreCredential, Idle
<1>12. ASSUME NEW q \in Call, ReadCredential(q) PROVE CallsHaveRows'
  <2>1. call[q].pc = "read" /\ UNCHANGED conn
    BY <1>12 DEF ReadCredential
  <2>2. cred[call[q].conn] \in Nat
    BY <2>1
  <2> HIDE DEF CallRecord, ConnRecord
  <2>3. CASE GotCredential(q)
    BY <2>1, <2>3, GotCall DEF Only
  <2>4. CASE call' = [call EXCEPT ![q].pc = "refresh", ![q].token = cred[call[q].conn]]
    <3>1. /\ call'[q].pc = "refresh" /\ call'[q].conn = call[q].conn
          /\ call'[q].late = call[q].late /\ Only(q)
      BY <2>2, <2>4, TokenCall
    <3> QED
      BY <2>1, <3>1 DEF Only
  <2> QED
    BY <1>12, <2>3, <2>4 DEF ReadCredential
<1>13. ASSUME NEW q \in Call, Refresh(q) PROVE CallsHaveRows'
  <2>1. call[q].pc = "refresh" /\ UNCHANGED conn
    BY <1>13 DEF Refresh
  <2> HIDE DEF CallRecord, ConnRecord
  <2>2. \/ /\ call'[q].pc = "write" /\ call'[q].conn = call[q].conn
           /\ call'[q].late = call[q].late
        \/ call'[q].pc = "idle" /\ call'[q].conn = Nobody
    BY <1>13, MoveCall, TokenCall, IdledCall DEF Refresh
  <2>3. Only(q)
    BY <1>13, MoveCall, TokenCall, IdledCall DEF Refresh
  <2> QED
    BY <2>1, <2>2, <2>3 DEF Only
<1>14. ASSUME NEW q \in Call, WriteToken(q) PROVE CallsHaveRows'
  <2>1. call[q].pc = "write" /\ call[q].conn \in Conn
    BY <1>14 DEF WriteToken
  <2> HIDE DEF CallRecord, ConnRecord, IdleCall
  <2>2. \A d \in Conn : conn'[d].life = conn[d].life /\ conn'[d].oauth = conn[d].oauth
    BY <1>14, <2>1, KeptRow DEF WriteToken
  <2>3. /\ Only(q) /\ call'[q].pc \in {"idle", "probe"}
        /\ call'[q].pc = "idle" => call'[q].conn = Nobody
        /\ call'[q].pc = "probe" => call'[q].conn = call[q].conn /\ call'[q].late = call[q].late
    BY <1>14, GotCall DEF WriteToken
  <2> QED
    BY <2>1, <2>2, <2>3 DEF Only
<1>15. ASSUME NEW q \in Call, Probe(q) PROVE CallsHaveRows'
  BY <1>15 DEF Probe, Idle
<1>16. ASSUME NEW q \in Call, CallDies(q) PROVE CallsHaveRows'
  BY <1>16 DEF CallDies, Idle
<1>17. ASSUME UNCHANGED vars PROVE CallsHaveRows'
  BY <1>17 DEF vars
<1> QED
  BY <1>1, <1>2, <1>3, <1>4, <1>5, <1>6, <1>7, <1>8, <1>9, <1>10, <1>11, <1>12, <1>13, <1>14,
     <1>15, <1>16, <1>17 DEF Next, Step

\* A state is claimed by the statement that finds it, and exchanged once.
LEMMA StateStep == IInv /\ [Next]_vars => StatesAreClaimed' /\ StateIsExchangedOnce'
<1> SUFFICES ASSUME TypeOK, CallsHaveRows, StatesAreClaimed, StateIsExchangedOnce, [Next]_vars
             PROVE  StatesAreClaimed' /\ StateIsExchangedOnce'
  BY DEF IInv
<1> USE CallAssumption DEF TypeOK, CallsHaveRows, StatesAreClaimed, StateIsExchangedOnce,
        CallRecord, IdleCall, rowVars, providerVars
<1>1. ASSUME NEW x \in State, OauthStart(x) PROVE StatesAreClaimed' /\ StateIsExchangedOnce'
  BY <1>1 DEF OauthStart
<1>2. ASSUME NEW x \in State, StateExpires(x) PROVE StatesAreClaimed' /\ StateIsExchangedOnce'
  BY <1>2 DEF StateExpires
<1>3. ASSUME NEW x \in State, NEW q \in Call, OauthCallback(q, x)
      PROVE StatesAreClaimed' /\ StateIsExchangedOnce'
  BY <1>3 DEF OauthCallback
<1>4. ASSUME NEW c \in Conn, AddKey(c) PROVE StatesAreClaimed' /\ StateIsExchangedOnce'
  BY <1>4 DEF AddKey
<1>5. ASSUME NEW c \in Conn, RemoveConnection(c) PROVE StatesAreClaimed' /\ StateIsExchangedOnce'
  BY <1>5 DEF RemoveConnection
<1>6. ASSUME NEW c \in Conn, NEW q \in Call, Verify(q, c)
      PROVE StatesAreClaimed' /\ StateIsExchangedOnce'
  BY <1>6 DEF Verify, BeginUse
<1>7. ASSUME NEW c \in Conn, NEW q \in Call, Route(q, c)
      PROVE StatesAreClaimed' /\ StateIsExchangedOnce'
  BY <1>7 DEF Route, BeginUse
<1>8. ASSUME NEW q \in Call, ExchangeOAuthCode(q) PROVE StatesAreClaimed' /\ StateIsExchangedOnce'
  BY <1>8 DEF ExchangeOAuthCode
<1>9. ASSUME NEW q \in Call, FindOAuth(q) PROVE StatesAreClaimed' /\ StateIsExchangedOnce'
  <2>1. UNCHANGED <<conn, cred, oauth, valid, issued, rotates, spent, peak, cut>>
    BY <1>9 DEF FindOAuth, FindAmong
  <2> HIDE DEF CallRecord, IdleCall
  <2>2. call'[q].pc = "store" /\ Only(q)
    BY <1>9, FindCall
  <2> QED
    BY <2>1, <2>2 DEF Only
<1>10. ASSUME NEW q \in Call, StoreConnection(q) PROVE StatesAreClaimed' /\ StateIsExchangedOnce'
  BY <1>10 DEF StoreConnection
<1>11. ASSUME NEW q \in Call, StoreCredential(q) PROVE StatesAreClaimed' /\ StateIsExchangedOnce'
  BY <1>11 DEF StoreCredential, Idle
<1>12. ASSUME NEW q \in Call, ReadCredential(q) PROVE StatesAreClaimed' /\ StateIsExchangedOnce'
  <2> HIDE DEF CallRecord, IdleCall
  <2>1. UNCHANGED <<conn, cred, oauth, valid, issued, rotates, spent, peak, cut>>
    BY <1>12 DEF ReadCredential
  <2>2. /\ call[q].pc = "read" /\ Only(q)
        /\ call'[q].pc \in {"idle", "probe", "refresh"}
        /\ call'[q].pc = "refresh" =>
             /\ call[q].conn \in Conn /\ call'[q].conn = call[q].conn
             /\ call'[q].token = cred[call[q].conn] /\ call'[q].token # 0
    BY <1>12, ReadCall
  <2> QED
    BY <2>1, <2>2 DEF Only
<1>13. ASSUME NEW q \in Call, Refresh(q) PROVE StatesAreClaimed' /\ StateIsExchangedOnce'
  BY <1>13 DEF Refresh, Idle
<1>14. ASSUME NEW q \in Call, WriteToken(q) PROVE StatesAreClaimed' /\ StateIsExchangedOnce'
  BY <1>14 DEF WriteToken, GotCredential
<1>15. ASSUME NEW q \in Call, Probe(q) PROVE StatesAreClaimed' /\ StateIsExchangedOnce'
  BY <1>15 DEF Probe, Idle
<1>16. ASSUME NEW q \in Call, CallDies(q) PROVE StatesAreClaimed' /\ StateIsExchangedOnce'
  BY <1>16 DEF CallDies, Idle
<1>17. ASSUME UNCHANGED vars PROVE StatesAreClaimed' /\ StateIsExchangedOnce'
  BY <1>17 DEF vars
<1> QED
  BY <1>1, <1>2, <1>3, <1>4, <1>5, <1>6, <1>7, <1>8, <1>9, <1>10, <1>11, <1>12, <1>13, <1>14,
     <1>15, <1>16, <1>17 DEF Next, Step

\* A new token is one call's until it is stored, and a stored one is one
\* connection's.
LEMMA TokenStep == IInv /\ [Next]_vars => TokensAreOwned'
<1> SUFFICES ASSUME TypeOK, CallsHaveRows, TokensAreOwned, [Next]_vars PROVE TokensAreOwned'
  BY DEF IInv
<1> USE CallAssumption DEF TypeOK, CallsHaveRows, TokensAreOwned, HasNew, HasToken,
        CallRecord, IdleCall, rowVars, providerVars
<1>1. ASSUME NEW x \in State, OauthStart(x) PROVE TokensAreOwned'
  BY <1>1 DEF OauthStart
<1>2. ASSUME NEW x \in State, StateExpires(x) PROVE TokensAreOwned'
  BY <1>2 DEF StateExpires
<1>3. ASSUME NEW x \in State, NEW q \in Call, OauthCallback(q, x) PROVE TokensAreOwned'
  BY <1>3 DEF OauthCallback
<1>4. ASSUME NEW c \in Conn, AddKey(c) PROVE TokensAreOwned'
  BY <1>4 DEF AddKey
<1>5. ASSUME NEW c \in Conn, RemoveConnection(c) PROVE TokensAreOwned'
  BY <1>5 DEF RemoveConnection
<1>6. ASSUME NEW c \in Conn, NEW q \in Call, Verify(q, c) PROVE TokensAreOwned'
  BY <1>6 DEF Verify, BeginUse
<1>7. ASSUME NEW c \in Conn, NEW q \in Call, Route(q, c) PROVE TokensAreOwned'
  BY <1>7 DEF Route, BeginUse
<1>8. ASSUME NEW q \in Call, ExchangeOAuthCode(q) PROVE TokensAreOwned'
  BY <1>8 DEF ExchangeOAuthCode
<1>9. ASSUME NEW q \in Call, FindOAuth(q) PROVE TokensAreOwned'
  <2>1. UNCHANGED <<cred, valid, issued, rotates>>
    BY <1>9 DEF FindOAuth, FindAmong
  <2> HIDE DEF CallRecord, IdleCall
  <2>2. /\ call[q].pc = "find" /\ call'[q].pc = "store" /\ call'[q].token = call[q].token
        /\ Only(q)
    BY <1>9, FindCall
  <2>3. HasNew(q) /\ HasToken(q)
    BY <2>2
  <2>4. /\ call'[q].token \in 1..issued
        /\ \A p \in Call \ {q} : HasNew(p) => call[p].token # call'[q].token
    BY <2>2, <2>3
  <2> HIDE DEF HasNew, HasToken, TokensAreOwned, TypeOK, CallsHaveRows
  <2> QED
    BY <2>1, <2>2, <2>3, <2>4, TokensKept
<1>10. ASSUME NEW q \in Call, StoreConnection(q) PROVE TokensAreOwned'
  BY <1>10 DEF StoreConnection
<1>11. ASSUME NEW q \in Call, StoreCredential(q) PROVE TokensAreOwned'
  BY <1>11 DEF StoreCredential, Idle
<1>12. ASSUME NEW q \in Call, ReadCredential(q) PROVE TokensAreOwned'
  <2>1. UNCHANGED <<cred, valid, issued, rotates>>
    BY <1>12 DEF ReadCredential
  <2> HIDE DEF CallRecord, IdleCall
  <2>2. /\ Only(q) /\ call'[q].pc \in {"idle", "probe", "refresh"}
        /\ call'[q].pc = "refresh" =>
             /\ call[q].conn \in Conn /\ call'[q].conn = call[q].conn
             /\ call'[q].token = cred[call[q].conn] /\ call'[q].token # 0
    BY <1>12, ReadCall
  <2>3. ~HasNew(q)' /\ (HasToken(q)' => call'[q].pc = "refresh")
    BY <2>2
  <2>4. call'[q].pc = "refresh" =>
          /\ call'[q].token \in 1..issued
          /\ \A p \in Call : HasNew(p) => call[p].token # call'[q].token
          /\ rotates => \A c \in Conn : cred[c] = call'[q].token => c = call'[q].conn
    BY <2>2
  <2> HIDE DEF HasNew, HasToken, TokensAreOwned, TypeOK, CallsHaveRows
  <2> QED
    BY <2>1, <2>2, <2>3, <2>4, TokensKept
<1>13. ASSUME NEW q \in Call, Refresh(q) PROVE TokensAreOwned'
  <2>1. UNCHANGED <<conn, cred, oauth, rotates, spent, peak, cut>>
    BY <1>13 DEF Refresh
  <2> HIDE DEF CallRecord, IdleCall, CallsHaveRows
  <2>2. call[q].pc = "refresh" /\ Only(q) /\ HasToken(q) /\ call[q].token \in 1..issued
        /\ \A p \in Call \ {q} : HasNew(p) => call[p].token # call[q].token
    BY <1>13, RefreshCall
  <2>3. CASE UNCHANGED <<valid, issued>> /\ call'[q].pc = "idle"
    <3>1. ~HasToken(q)' /\ ~HasNew(q)'
      BY <2>3
    <3> HIDE DEF HasNew, HasToken, TokensAreOwned, TypeOK
    <3> QED
      BY <2>1, <2>2, <2>3, <3>1, TokensKept
  <2>4. CASE /\ ~rotates /\ UNCHANGED <<valid, issued>>
             /\ call'[q].pc = "write" /\ call'[q].conn = call[q].conn
             /\ call'[q].token = call[q].token
    <3>1. ~HasNew(q)'
      BY <2>1, <2>4
    <3> HIDE DEF HasNew, HasToken, TokensAreOwned, TypeOK
    <3> QED
      BY <2>1, <2>2, <2>4, <3>1, TokensKept
  <2>5. CASE /\ rotates /\ call[q].token \in valid /\ issued' = issued + 1
             /\ valid' = (valid \ {call[q].token}) \cup {issued'}
             /\ call'[q].pc = "write" /\ call'[q].conn = call[q].conn
             /\ call'[q].token = issued'
    <3>0. issued \in Nat
      OBVIOUS
    <3>1. \A c \in Conn : cred'[c] \in 0..issued' /\ cred'[c] # issued'
      BY <2>1, <2>5
    <3>2. \A p \in Call \ {q} : /\ call'[p] = call[p]
                                /\ HasToken(p)' => /\ HasToken(p)
                                                   /\ call'[p].token \in 1..issued'
                                                   /\ call'[p].token # issued'
      BY <2>1, <2>2, <2>5 DEF Only
    <3>3. \A p \in Call \ {q} : HasNew(p)' => HasNew(p) /\ call'[p].token \in valid'
      BY <2>1, <2>2, <2>5, <3>2
    <3>4. valid' \subseteq 1..issued' /\ issued' \in 1..issued' /\ issued' \in valid'
      <4>1. valid \subseteq 1..issued
        OBVIOUS
      <4> HIDE DEF TypeOK, TokensAreOwned
      <4>2. issued' = issued + 1 /\ valid' = (valid \ {call[q].token}) \cup {issued'}
        BY <2>5
      <4>3. issued' \in 1..issued' /\ 1..issued \subseteq 1..issued'
        BY <3>0, <4>2
      <4> QED
        BY <4>1, <4>2, <4>3
    <3>5. \A p \in Call : HasToken(p)' => call'[p].token \in 1..issued'
      BY <2>5, <3>2, <3>4
    <3>6. ASSUME NEW p \in Call, HasNew(p)'
          PROVE  /\ call'[p].token \in valid'
                 /\ \A c \in Conn : cred'[c] # call'[p].token
                 /\ \A r \in Call \ {p} : HasToken(r)' => call'[r].token # call'[p].token
      <4>1. CASE p = q
        BY <2>5, <3>1, <3>2, <3>4, <4>1
      <4>2. CASE p # q
        <5>1. HasNew(p) /\ call'[p].token = call[p].token /\ call'[p].token \in valid'
              /\ call'[p].token # issued'
          BY <3>2, <3>3, <3>6, <4>2
        <5>2. \A r \in Call \ {p, q} : HasToken(r)' => call'[r].token # call'[p].token
          <6> HIDE DEF HasNew, HasToken, TypeOK
          <6> QED
            BY <3>2, <5>1
        <5>3. \A c \in Conn : cred'[c] # call'[p].token
          BY <2>1, <5>1
        <5> QED
          BY <2>5, <5>1, <5>2, <5>3
      <4> QED
        BY <4>1, <4>2
    <3>7. /\ \A c, d \in Conn : cred'[c] = cred'[d] /\ cred'[c] # 0 => c = d
          /\ \A p \in Call, c \in Conn :
               call'[p].pc = "refresh" /\ cred'[c] = call'[p].token => c = call'[p].conn
      BY <2>1, <2>5, <3>2
    <3>8. \A c \in Conn : cred'[c] \in 0..issued'
      BY <3>1
    <3>9. rotates'
      BY <2>1, <2>5
    <3> HIDE DEF HasNew, HasToken, TypeOK
    <3> QED
      BY <3>4, <3>5, <3>6, <3>7, <3>8, <3>9
  <2> QED
    BY <1>13, <2>3, <2>4, <2>5, RefreshCall
<1>14. ASSUME NEW q \in Call, WriteToken(q) PROVE TokensAreOwned'
  BY <1>14 DEF WriteToken, GotCredential
<1>15. ASSUME NEW q \in Call, Probe(q) PROVE TokensAreOwned'
  BY <1>15 DEF Probe, Idle
<1>16. ASSUME NEW q \in Call, CallDies(q) PROVE TokensAreOwned'
  BY <1>16 DEF CallDies, Idle
<1>17. ASSUME UNCHANGED vars PROVE TokensAreOwned'
  BY <1>17 DEF vars
<1> QED
  BY <1>1, <1>2, <1>3, <1>4, <1>5, <1>6, <1>7, <1>8, <1>9, <1>10, <1>11, <1>12, <1>13, <1>14,
     <1>15, <1>16, <1>17 DEF Next, Step

\* A stored token works, or a newer one is on its way or was lost.
LEMMA StoredStep == IInv /\ [Next]_vars => StoredTokenWorks'
<1> SUFFICES ASSUME TypeOK, CallsHaveRows, TokensAreOwned, StoredTokenWorks, [Next]_vars
             PROVE  StoredTokenWorks'
  BY DEF IInv
<1> USE CallAssumption DEF TypeOK, CallsHaveRows, TokensAreOwned, StoredTokenWorks, HasNew,
        HasToken, CallRecord, IdleCall, ConnRecord, NoConn, rowVars, providerVars
<1>1. ASSUME NEW x \in State, OauthStart(x) PROVE StoredTokenWorks'
  BY <1>1 DEF OauthStart
<1>2. ASSUME NEW x \in State, StateExpires(x) PROVE StoredTokenWorks'
  BY <1>2 DEF StateExpires
<1>3. ASSUME NEW x \in State, NEW q \in Call, OauthCallback(q, x) PROVE StoredTokenWorks'
  BY <1>3, ZenonT(30) DEF OauthCallback
<1>4. ASSUME NEW c \in Conn, AddKey(c) PROVE StoredTokenWorks'
  BY <1>4 DEF AddKey
<1>5. ASSUME NEW c \in Conn, RemoveConnection(c) PROVE StoredTokenWorks'
  BY <1>5 DEF RemoveConnection
<1>6. ASSUME NEW c \in Conn, NEW q \in Call, Verify(q, c) PROVE StoredTokenWorks'
  BY <1>6 DEF Verify, BeginUse
<1>7. ASSUME NEW c \in Conn, NEW q \in Call, Route(q, c) PROVE StoredTokenWorks'
  BY <1>7 DEF Route, BeginUse
<1>8. ASSUME NEW q \in Call, ExchangeOAuthCode(q) PROVE StoredTokenWorks'
  BY <1>8 DEF ExchangeOAuthCode
<1>9. ASSUME NEW q \in Call, FindOAuth(q) PROVE StoredTokenWorks'
  <2>1. UNCHANGED <<conn, cred, valid, cut>> /\ call[q].pc = "find"
    BY <1>9 DEF FindOAuth, FindAmong
  <2>2. Only(q)
    BY <1>9, FindCall
  <2> HIDE DEF CallRecord, IdleCall, ConnRecord, TypeOK, CallsHaveRows, TokensAreOwned,
               StoredTokenWorks
  <2> QED
    BY <2>1, <2>2, StoredKept
<1>10. ASSUME NEW q \in Call, StoreConnection(q) PROVE StoredTokenWorks'
  <2>1. UNCHANGED <<cred, oauth, valid, issued, rotates, spent, peak, cut>>
    BY <1>10 DEF StoreConnection
  <2> HIDE DEF CallRecord, IdleCall, ConnRecord, NoConn
  <2> HIDE DEF TypeOK, CallsHaveRows, TokensAreOwned, StoredTokenWorks
  <2>2. PICK c \in Conn :
           /\ call[q].pc = "store" /\ Only(q)
           /\ call'[q].pc = "credential" /\ call'[q].conn = c
           /\ call'[q].token = call[q].token
           /\ \A d \in Conn \ {c} : conn'[d] = conn[d]
    BY <1>10, StoreStep
  <2>3. call[q].token \in valid
    BY <2>2 DEF TokensAreOwned
  <2> SUFFICES ASSUME NEW d \in Conn, conn'[d].oauth, cred[d] \notin valid
               PROVE  \/ d \in cut
                      \/ \E p \in Call : /\ call'[p].pc \in {"write", "credential"}
                                         /\ call'[p].conn = d /\ call'[p].token \in valid
    BY <2>1 DEF StoredTokenWorks
  <2>4. CASE d = c
    BY <2>2, <2>3, <2>4
  <2>5. CASE d # c
    <3>1. conn[d].oauth
      BY <2>2, <2>5
    <3>2. d \in cut \/ \E p \in Call \ {q} : /\ call[p].pc \in {"write", "credential"}
                                             /\ call[p].conn = d /\ call[p].token \in valid
      BY <2>2, <3>1 DEF StoredTokenWorks
    <3> QED
      BY <2>2, <3>2 DEF Only
  <2> QED
    BY <2>4, <2>5
<1>11. ASSUME NEW q \in Call, StoreCredential(q) PROVE StoredTokenWorks'
  BY <1>11 DEF StoreCredential, Idle
<1>12. ASSUME NEW q \in Call, ReadCredential(q) PROVE StoredTokenWorks'
  <2>1. UNCHANGED <<conn, cred, valid, cut>> /\ call[q].pc = "read"
    BY <1>12 DEF ReadCredential
  <2>2. Only(q)
    BY <1>12, ReadCall
  <2> HIDE DEF CallRecord, IdleCall, ConnRecord, TypeOK, CallsHaveRows, TokensAreOwned,
               StoredTokenWorks
  <2> QED
    BY <2>1, <2>2, StoredKept
<1>13. ASSUME NEW q \in Call, Refresh(q) PROVE StoredTokenWorks'
  <2>1. UNCHANGED <<conn, cred, oauth, rotates, spent, peak, cut>>
    BY <1>13 DEF Refresh
  <2> HIDE DEF CallRecord, IdleCall, CallsHaveRows, ConnRecord, NoConn
  <2>2. call[q].pc = "refresh" /\ Only(q)
    BY <1>13, RefreshCall
  <2>3. CASE UNCHANGED <<valid, issued>>
    <3> HIDE DEF TypeOK, TokensAreOwned, StoredTokenWorks
    <3> QED
      BY <2>1, <2>2, <2>3, StoredKept
  <2>4. CASE /\ rotates /\ call[q].token \in valid /\ issued' = issued + 1
             /\ valid' = (valid \ {call[q].token}) \cup {issued'}
             /\ call'[q].pc = "write" /\ call'[q].conn = call[q].conn
             /\ call'[q].token = issued'
    <3> SUFFICES ASSUME NEW c \in Conn, conn[c].oauth, cred[c] \notin valid'
                 PROVE  \/ c \in cut
                        \/ \E p \in Call : /\ call'[p].pc \in {"write", "credential"}
                                           /\ call'[p].conn = c /\ call'[p].token \in valid'
      BY <2>1
    <3>1. CASE cred[c] \in valid
      <4>1. cred[c] = call[q].token
        BY <2>4, <3>1
      <4>2. c = call[q].conn
        BY <2>2, <2>4, <4>1
      <4> QED
        BY <2>4, <4>2
    <3>2. CASE cred[c] \notin valid
      <4>1. CASE c \in cut
        BY <4>1
      <4>2. ASSUME NEW p \in Call, call[p].pc \in {"write", "credential"}, call[p].conn = c,
                   call[p].token \in valid
            PROVE  /\ call'[p].pc \in {"write", "credential"} /\ call'[p].conn = c
                   /\ call'[p].token \in valid'
        <5>1. p # q /\ HasNew(p) /\ HasToken(q)
          BY <2>2, <2>4, <4>2
        <5>2. call[p].token # call[q].token
          BY <5>1
        <5> QED
          BY <2>2, <2>4, <4>2, <5>1, <5>2 DEF Only
      <4> QED
        BY <3>2, <4>1, <4>2
    <3> QED
      BY <3>1, <3>2
  <2> QED
    BY <1>13, <2>3, <2>4, RefreshCall
<1>14. ASSUME NEW q \in Call, WriteToken(q) PROVE StoredTokenWorks'
  BY <1>14 DEF WriteToken, GotCredential
<1>15. ASSUME NEW q \in Call, Probe(q) PROVE StoredTokenWorks'
  <2>1. call[q].conn \in Conn /\ call[q].pc = "probe" /\ UNCHANGED <<cred, valid, cut>>
    BY <1>15 DEF Probe
  <2>2. \A d \in Conn : conn'[d].oauth = conn[d].oauth
    BY <1>15, <2>1, KeptRow DEF Probe
  <2>3. Only(q)
    BY <1>15, IdledCall DEF Probe
  <2> HIDE DEF CallRecord, IdleCall, ConnRecord, TypeOK, CallsHaveRows, TokensAreOwned,
               StoredTokenWorks
  <2> QED
    BY <2>1, <2>2, <2>3, StoredKept
<1>16. ASSUME NEW q \in Call, CallDies(q) PROVE StoredTokenWorks'
  BY <1>16 DEF CallDies, Idle
<1>17. ASSUME UNCHANGED vars PROVE StoredTokenWorks'
  BY <1>17 DEF vars
<1> QED
  BY <1>1, <1>2, <1>3, <1>4, <1>5, <1>6, <1>7, <1>8, <1>9, <1>10, <1>11, <1>12, <1>13, <1>14,
     <1>15, <1>16, <1>17 DEF Next, Step

\* The callbacks in progress are finitely many.
LEMMA CallsAreFinite ==
  /\ IsFiniteSet(Storing) /\ IsFiniteSet(Creating) /\ Creating \subseteq Storing
  /\ Cardinality(Storing) \in Nat /\ Cardinality(Creating) \in Nat
  /\ Cardinality(Creating) <= Cardinality(Storing)
<1>1. Storing \subseteq Call /\ Creating \subseteq Storing
  BY DEF Storing, Creating
<1>2. IsFiniteSet(Storing)
  BY <1>1, CallAssumption, FS_Subset
<1> QED
  BY <1>1, <1>2, FS_Subset, FS_CardinalityType

\* A step that adds neither an OAuth connection nor a callback to those counted
\* leaves the count right.
LEMMA PeakKept ==
  ASSUME TypeOK, PeakIsShared, UNCHANGED peak, Storing' \subseteq Storing,
         OAuthConns' \subseteq OAuthConns, Creating' \subseteq Creating
  PROVE  PeakIsShared'
<1> DEFINE N(S) == Cardinality(S)
<1>1. /\ IsFiniteSet(OAuthConns') /\ N(OAuthConns') <= N(OAuthConns)
      /\ N(OAuthConns') \in Nat /\ N(OAuthConns) \in Nat
  BY FS_Subset, FS_CardinalityType DEF PeakIsShared
<1>2. N(Storing') <= N(Storing) /\ N(Storing') \in Nat /\ N(Storing) \in Nat
  BY CallsAreFinite, FS_Subset, FS_CardinalityType
<1>3. N(Creating') <= N(Creating) /\ N(Creating') \in Nat /\ N(Creating) \in Nat
  BY CallsAreFinite, FS_Subset, FS_CardinalityType
<1>4. N(Storing) <= peak /\ N(OAuthConns) + N(Creating) <= peak /\ peak \in Nat
  BY DEF PeakIsShared, TypeOK
<1> HIDE DEF N
<1>5. N(Storing') <= peak' /\ N(OAuthConns') + N(Creating') <= peak'
  BY <1>1, <1>2, <1>3, <1>4
<1> QED
  BY <1>1, <1>5 DEF PeakIsShared, N

\* A callback makes a connection only when there was none when it looked, and
\* those that looked since are still counted.
LEMMA PeakStep == IInv /\ [Next]_vars => PeakIsShared'
<1> SUFFICES ASSUME TypeOK, CallsHaveRows, TokensAreOwned, PeakIsShared, [Next]_vars
             PROVE  PeakIsShared'
  BY DEF IInv
<1>1. ASSUME NEW x \in State, OauthStart(x) PROVE PeakIsShared'
  <2>1. UNCHANGED peak
    BY <1>1 DEF OauthStart, rowVars
  <2>2. Storing' \subseteq Storing /\ Creating' \subseteq Creating /\ OAuthConns' \subseteq OAuthConns
    BY <1>1 DEF OauthStart, rowVars, Storing, Creating, OAuthConns, Live, Only
  <2> QED
    BY <2>1, <2>2, PeakKept
<1>2. ASSUME NEW x \in State, StateExpires(x) PROVE PeakIsShared'
  <2>1. UNCHANGED peak
    BY <1>2 DEF StateExpires, rowVars
  <2>2. Storing' \subseteq Storing /\ Creating' \subseteq Creating /\ OAuthConns' \subseteq OAuthConns
    BY <1>2 DEF StateExpires, rowVars, Storing, Creating, OAuthConns, Live, Only
  <2> QED
    BY <2>1, <2>2, PeakKept
<1>3. ASSUME NEW x \in State, NEW q \in Call, OauthCallback(q, x) PROVE PeakIsShared'
  <2>1. UNCHANGED peak
    BY <1>3 DEF OauthCallback, rowVars
  <2>2. Storing' \subseteq Storing /\ Creating' \subseteq Creating /\ OAuthConns' \subseteq OAuthConns
    BY <1>3, CallbackCall DEF OauthCallback, rowVars, Storing, Creating, OAuthConns, Live, Only
  <2> QED
    BY <2>1, <2>2, PeakKept
<1>4. ASSUME NEW c \in Conn, AddKey(c) PROVE PeakIsShared'
  <2>1. UNCHANGED peak
    BY <1>4 DEF AddKey, NoConn, TypeOK, ConnRecord
  <2>2. Storing' \subseteq Storing /\ Creating' \subseteq Creating /\ OAuthConns' \subseteq OAuthConns
    BY <1>4, CallAssumption DEF AddKey, NoConn, TypeOK, ConnRecord, Storing, Creating,
       OAuthConns, Live, Only
  <2> QED
    BY <2>1, <2>2, PeakKept
<1>5. ASSUME NEW c \in Conn, RemoveConnection(c) PROVE PeakIsShared'
  <2>1. UNCHANGED peak
    BY <1>5 DEF RemoveConnection
  <2>2. Storing' \subseteq Storing /\ Creating' \subseteq Creating /\ OAuthConns' \subseteq OAuthConns
    BY <1>5, RemovedRow DEF RemoveConnection, Storing, Creating, OAuthConns, Live, Only
  <2> QED
    BY <2>1, <2>2, PeakKept
<1>6. ASSUME NEW c \in Conn, NEW q \in Call, Verify(q, c) PROVE PeakIsShared'
  <2>1. BeginUse(q, c, TRUE) /\ UNCHANGED <<peak, conn>>
    BY <1>6 DEF Verify, BeginUse, rowVars
  <2>2. Storing' \subseteq Storing /\ Creating' \subseteq Creating /\ OAuthConns' \subseteq OAuthConns
    BY <2>1, UseCall DEF Storing, Creating, OAuthConns, Live, Only
  <2> QED
    BY <2>1, <2>2, PeakKept
<1>7. ASSUME NEW c \in Conn, NEW q \in Call, Route(q, c) PROVE PeakIsShared'
  <2>1. BeginUse(q, c, FALSE) /\ UNCHANGED <<peak, conn>>
    BY <1>7 DEF Route, BeginUse, rowVars
  <2>2. Storing' \subseteq Storing /\ Creating' \subseteq Creating /\ OAuthConns' \subseteq OAuthConns
    BY <2>1, UseCall DEF Storing, Creating, OAuthConns, Live, Only
  <2> QED
    BY <2>1, <2>2, PeakKept
<1>8. ASSUME NEW q \in Call, ExchangeOAuthCode(q) PROVE PeakIsShared'
  <2>1. UNCHANGED conn
    BY <1>8 DEF ExchangeOAuthCode, rowVars
  <2>2. call'[q].pc = "find" /\ Only(q) /\ call[q].pc = "exchange"
    BY <1>8, ExchangeCall DEF ExchangeOAuthCode
  <2>3. Creating' \subseteq Creating /\ OAuthConns' = OAuthConns
    BY <2>1, <2>2 DEF Creating, OAuthConns, Live, Only
  <2>4. /\ peak' = IF Cardinality(Storing') > peak THEN Cardinality(Storing') ELSE peak
        /\ peak \in Nat
    BY <1>8 DEF ExchangeOAuthCode, TypeOK
  <2>5. Storing' \subseteq Call
    BY DEF Storing
  <2>6. Cardinality(Storing') \in Nat
    BY <2>5, CallAssumption, FS_Subset, FS_CardinalityType
  <2>7. peak' >= peak /\ Cardinality(Storing') <= peak' /\ peak' \in Nat
    BY <2>4, <2>6
  <2>8. /\ Cardinality(Creating') <= Cardinality(Creating)
        /\ Cardinality(Creating') \in Nat /\ Cardinality(Creating) \in Nat
    BY <2>3, CallsAreFinite, FS_Subset, FS_CardinalityType
  <2>9. /\ IsFiniteSet(OAuthConns) /\ Cardinality(OAuthConns) \in Nat
        /\ Cardinality(OAuthConns) + Cardinality(Creating) <= peak
    BY FS_CardinalityType DEF PeakIsShared
  <2>10. Cardinality(OAuthConns') + Cardinality(Creating') <= peak'
    BY <2>3, <2>4, <2>7, <2>8, <2>9
  <2> QED
    BY <2>3, <2>7, <2>9, <2>10 DEF PeakIsShared
<1>9. ASSUME NEW q \in Call, FindOAuth(q) PROVE PeakIsShared'
  <2>1. UNCHANGED <<conn, peak>>
    BY <1>9 DEF FindOAuth, FindAmong, rowVars
  <2>2. /\ call[q].pc = "find" /\ Only(q) /\ call'[q].pc = "store"
        /\ call'[q].conn \in Conn \/ (call'[q].conn = Nobody /\ OAuthConns = {})
    BY <1>9, FindCall
  <2>3. Storing' = Storing /\ OAuthConns' = OAuthConns
    BY <2>1, <2>2 DEF Storing, OAuthConns, Live, Only
  <2>4. CASE call'[q].conn \in Conn
    <3>1. Creating' \subseteq Creating
      BY <2>2, <2>4, CallAssumption DEF Creating, Only
    <3> QED
      BY <2>1, <2>3, <3>1, PeakKept
  <2>5. CASE OAuthConns = {}
    <3>1. Creating' \subseteq Storing'
      BY DEF Creating, Storing
    <3>2. /\ Cardinality(Creating') <= Cardinality(Storing)
          /\ Cardinality(Creating') \in Nat /\ Cardinality(Storing) \in Nat
      BY <2>3, <3>1, CallsAreFinite, FS_Subset, FS_CardinalityType
    <3>3. Cardinality(OAuthConns') = 0 /\ IsFiniteSet(OAuthConns')
      BY <2>3, <2>5, FS_EmptySet
    <3>4. Cardinality(Storing) <= peak /\ peak \in Nat
      BY DEF PeakIsShared, TypeOK
    <3>5. Cardinality(OAuthConns') + Cardinality(Creating') <= peak'
      BY <2>1, <3>2, <3>3, <3>4
    <3> QED
      BY <2>1, <2>3, <3>3, <3>4, <3>5 DEF PeakIsShared
  <2> QED
    BY <2>2, <2>4, <2>5
<1>10. ASSUME NEW q \in Call, StoreConnection(q) PROVE PeakIsShared'
  <2>1. PICK c \in Conn :
           /\ c = call[q].conn \/ (call[q].conn = Nobody /\ conn[c].life = "none")
           /\ call[q].pc = "store" /\ Only(q)
           /\ call'[q].pc = "credential" /\ call'[q].conn = c
           /\ conn'[c].oauth = TRUE
           /\ conn'[c].life = IF conn[c].life = "none" THEN "live" ELSE conn[c].life
           /\ \A d \in Conn \ {c} : conn'[d] = conn[d]
    BY <1>10, StoreStep
  <2>2. UNCHANGED peak
    BY <1>10 DEF StoreConnection
  <2>3. Storing' \subseteq Storing /\ Creating' \subseteq Creating
    BY <2>1 DEF Storing, Creating, Only
  <2>4. CASE c = call[q].conn
    <3>1. conn[c].oauth /\ conn[c].life # "none"
      BY <2>1, <2>4 DEF CallsHaveRows
    <3>2. OAuthConns' \subseteq OAuthConns
      BY <2>1, <3>1 DEF OAuthConns, Live
    <3> QED
      BY <2>2, <2>3, <3>2, PeakKept
  <2>5. CASE call[q].conn = Nobody /\ conn[c].life = "none"
    <3>1. q \in Creating /\ Creating' = Creating \ {q}
      BY <2>1, <2>5 DEF Creating, Only
    <3>2. OAuthConns' \subseteq OAuthConns \cup {c} /\ c \notin OAuthConns
      BY <2>1, <2>5 DEF OAuthConns, Live
    <3>3. /\ Cardinality(Creating') = Cardinality(Creating) - 1
          /\ Cardinality(Creating) \in Nat
      BY <3>1, CallsAreFinite, FS_RemoveElement
    <3>4. IsFiniteSet(OAuthConns) /\ Cardinality(OAuthConns) \in Nat
      BY FS_CardinalityType DEF PeakIsShared
    <3>5. /\ IsFiniteSet(OAuthConns \cup {c})
          /\ Cardinality(OAuthConns \cup {c}) = Cardinality(OAuthConns) + 1
      BY <3>2, <3>4, FS_AddElement
    <3>6. /\ IsFiniteSet(OAuthConns') /\ Cardinality(OAuthConns') \in Nat
          /\ Cardinality(OAuthConns') <= Cardinality(OAuthConns) + 1
      BY <3>2, <3>5, FS_Subset, FS_CardinalityType
    <3>7. /\ Cardinality(Storing') <= Cardinality(Storing)
          /\ Cardinality(Storing') \in Nat /\ Cardinality(Storing) \in Nat
      BY <2>3, CallsAreFinite, FS_Subset, FS_CardinalityType
    <3>8. /\ Cardinality(OAuthConns) + Cardinality(Creating) <= peak
          /\ Cardinality(Storing) <= peak /\ peak \in Nat
      BY DEF PeakIsShared, TypeOK
    <3>9. /\ Cardinality(OAuthConns') + Cardinality(Creating') <= peak'
          /\ Cardinality(Storing') <= peak'
      BY <2>2, <3>3, <3>4, <3>6, <3>7, <3>8
    <3> QED
      BY <3>6, <3>9 DEF PeakIsShared
  <2> QED
    BY <2>1, <2>4, <2>5
<1>11. ASSUME NEW q \in Call, StoreCredential(q) PROVE PeakIsShared'
  <2>1. UNCHANGED peak
    BY <1>11 DEF StoreCredential, Idle
  <2>2. Storing' \subseteq Storing /\ Creating' \subseteq Creating /\ OAuthConns' \subseteq OAuthConns
    BY <1>11, IdledCall DEF StoreCredential, Idle, Storing, Creating, OAuthConns, Live, Only
  <2> QED
    BY <2>1, <2>2, PeakKept
<1>12. ASSUME NEW q \in Call, ReadCredential(q) PROVE PeakIsShared'
  <2>1. UNCHANGED peak
    BY <1>12 DEF ReadCredential, rowVars
  <2>2. Storing' \subseteq Storing /\ Creating' \subseteq Creating /\ OAuthConns' \subseteq OAuthConns
    BY <1>12, ReadCall DEF ReadCredential, rowVars, Storing, Creating, OAuthConns, Live, Only
  <2> QED
    BY <2>1, <2>2, PeakKept
<1>13. ASSUME NEW q \in Call, Refresh(q) PROVE PeakIsShared'
  <2>1. UNCHANGED peak
    BY <1>13 DEF Refresh, rowVars
  <2>2. Storing' \subseteq Storing /\ Creating' \subseteq Creating /\ OAuthConns' \subseteq OAuthConns
    BY <1>13, RefreshCall DEF Refresh, rowVars, Storing, Creating, OAuthConns, Live, Only
  <2> QED
    BY <2>1, <2>2, PeakKept
<1>14. ASSUME NEW q \in Call, WriteToken(q) PROVE PeakIsShared'
  <2>1. UNCHANGED peak /\ call[q].pc = "write" /\ call[q].conn \in Conn
    BY <1>14 DEF WriteToken, CallsHaveRows
  <2>2. Storing' \subseteq Storing /\ Creating' \subseteq Creating
    BY <1>14, <2>1, GotCall DEF WriteToken, Storing, Creating, Only
  <2>3. OAuthConns' \subseteq OAuthConns
    BY <1>14, <2>1, KeptRow DEF WriteToken, OAuthConns, Live
  <2> QED
    BY <2>1, <2>2, <2>3, PeakKept
<1>15. ASSUME NEW q \in Call, Probe(q) PROVE PeakIsShared'
  <2>1. UNCHANGED peak /\ call[q].pc = "probe" /\ call[q].conn \in Conn
    BY <1>15 DEF Probe, CallsHaveRows
  <2>2. Storing' \subseteq Storing /\ Creating' \subseteq Creating
    BY <1>15, <2>1, IdledCall DEF Probe, Storing, Creating, Only
  <2>3. OAuthConns' \subseteq OAuthConns
    BY <1>15, <2>1, KeptRow DEF Probe, OAuthConns, Live
  <2> QED
    BY <2>1, <2>2, <2>3, PeakKept
<1>16. ASSUME NEW q \in Call, CallDies(q) PROVE PeakIsShared'
  <2>1. UNCHANGED peak
    BY <1>16 DEF CallDies, Idle, rowVars
  <2>2. Storing' \subseteq Storing /\ Creating' \subseteq Creating /\ OAuthConns' \subseteq OAuthConns
    BY <1>16, IdledCall DEF CallDies, Idle, rowVars, Storing, Creating, OAuthConns, Live, Only
  <2> QED
    BY <2>1, <2>2, PeakKept
<1>17. ASSUME UNCHANGED vars PROVE PeakIsShared'
  <2>1. UNCHANGED peak /\ Storing' = Storing /\ Creating' = Creating /\ OAuthConns' = OAuthConns
    BY <1>17 DEF vars, rowVars, Storing, Creating, OAuthConns, Live
  <2> QED
    BY <2>1, PeakKept
<1> QED
  BY <1>1, <1>2, <1>3, <1>4, <1>5, <1>6, <1>7, <1>8, <1>9, <1>10, <1>11, <1>12, <1>13, <1>14,
     <1>15, <1>16, <1>17 DEF Next, Step

\* The invariant holds before any connection exists.
LEMMA InitIInv == Init => IInv
<1> SUFFICES ASSUME Init PROVE IInv
  OBVIOUS
<1> USE CallAssumption DEF Init
<1>1. TypeOK /\ CallsHaveRows
  BY DEF TypeOK, CallsHaveRows, ConnRecord, NoConn, CallRecord, IdleCall
<1>2. StatesAreClaimed /\ StateIsExchangedOnce
  BY DEF StatesAreClaimed, StateIsExchangedOnce, IdleCall
<1>3. TokensAreOwned /\ StoredTokenWorks
  BY DEF TokensAreOwned, StoredTokenWorks, HasNew, HasToken, IdleCall, NoConn
<1>4. PeakIsShared
  <2>1. Storing = {} /\ Creating = {} /\ OAuthConns = {}
    BY DEF Storing, Creating, OAuthConns, Live, IdleCall, NoConn
  <2> QED
    BY <2>1, FS_EmptySet DEF PeakIsShared
<1> QED
  BY <1>1, <1>2, <1>3, <1>4 DEF IInv

\* The invariant is one of every behaviour.
LEMMA Invariance == Spec => []IInv
<1>1. IInv /\ [Next]_vars => IInv'
  BY TypeStep, RowStep, StateStep, TokenStep, StoredStep, PeakStep DEF IInv
<1> QED
  BY InitIInv, <1>1, PTL DEF Spec

\* What no call found before the removal is left alone after it.
LEMMA RemovedStep ==
  ASSUME IInv, [Next]_vars, NEW d \in Conn, conn[d].life = "removed",
         \A p \in Call : ~(call[p].late /\ call[p].conn = d)
  PROVE  conn'[d] = conn[d] /\ cred'[d] = cred[d]
<1> DEFINE Kept == conn'[d] = conn[d] /\ cred'[d] = cred[d]
<1> USE CallAssumption DEF rowVars
<1>0. TypeOK /\ CallsHaveRows /\ \A p \in Call : call[p].pc # "idle" => call[p].conn # d
  BY DEF IInv, CallsHaveRows
<1>1. ASSUME NEW x \in State, OauthStart(x) PROVE Kept
  BY <1>1 DEF OauthStart
<1>2. ASSUME NEW x \in State, StateExpires(x) PROVE Kept
  BY <1>2 DEF StateExpires
<1>3. ASSUME NEW x \in State, NEW q \in Call, OauthCallback(q, x) PROVE Kept
  BY <1>3 DEF OauthCallback
<1>4. ASSUME NEW c \in Conn, AddKey(c) PROVE Kept
  BY <1>0, <1>4 DEF AddKey, TypeOK
<1>5. ASSUME NEW c \in Conn, RemoveConnection(c) PROVE Kept
  BY <1>0, <1>5, RemovedRow DEF RemoveConnection, Live
<1>6. ASSUME NEW c \in Conn, NEW q \in Call, Verify(q, c) PROVE Kept
  BY <1>6 DEF Verify, BeginUse
<1>7. ASSUME NEW c \in Conn, NEW q \in Call, Route(q, c) PROVE Kept
  BY <1>7 DEF Route, BeginUse
<1>8. ASSUME NEW q \in Call, ExchangeOAuthCode(q) PROVE Kept
  BY <1>8 DEF ExchangeOAuthCode
<1>9. ASSUME NEW q \in Call, FindOAuth(q) PROVE Kept
  BY <1>9 DEF FindOAuth, FindAmong
<1>10. ASSUME NEW q \in Call, StoreConnection(q) PROVE Kept
  BY <1>0, <1>10, StoreStep DEF StoreConnection
<1>11. ASSUME NEW q \in Call, StoreCredential(q) PROVE Kept
  BY <1>0, <1>11 DEF StoreCredential, TypeOK
<1>12. ASSUME NEW q \in Call, ReadCredential(q) PROVE Kept
  BY <1>12 DEF ReadCredential, GotCredential
<1>13. ASSUME NEW q \in Call, Refresh(q) PROVE Kept
  BY <1>13 DEF Refresh, Idle
<1>14. ASSUME NEW q \in Call, WriteToken(q) PROVE Kept
  <2>1. call[q].conn \in Conn \ {d}
    BY <1>0, <1>14 DEF WriteToken, CallsHaveRows
  <2>2. conn'[d] = conn[d]
    BY <1>0, <1>14, <2>1, KeptRow DEF WriteToken
  <2>3. cred'[d] = cred[d]
    BY <1>0, <1>14, <2>1 DEF WriteToken, TypeOK
  <2> QED
    BY <2>2, <2>3
<1>15. ASSUME NEW q \in Call, Probe(q) PROVE Kept
  <2>1. call[q].conn \in Conn \ {d}
    BY <1>0, <1>15 DEF Probe, CallsHaveRows
  <2> QED
    BY <1>0, <1>15, <2>1, KeptRow DEF Probe
<1>16. ASSUME NEW q \in Call, CallDies(q) PROVE Kept
  BY <1>16 DEF CallDies, Idle
<1>17. ASSUME UNCHANGED vars PROVE Kept
  BY <1>17 DEF vars
<1> QED
  BY <1>1, <1>2, <1>3, <1>4, <1>5, <1>6, <1>7, <1>8, <1>9, <1>10, <1>11, <1>12, <1>13, <1>14,
     <1>15, <1>16, <1>17 DEF Next, Step

\* The variables always have their types.
THEOREM TypeCorrect == Spec => []TypeOK
BY Invariance, PTL DEF IInv

\* The provider is asked once per state at most (oauthCallback).
THEOREM StatesAreExchangedOnce == Spec => []StateIsExchangedOnce
BY Invariance, PTL DEF IInv

\* Calls that refresh at once never overwrite a good refresh token with a used
\* one (getFreshProviderCredential, storeProviderOAuth).
THEOREM StoredTokensWork == Spec => []StoredTokenWorks
BY Invariance, PTL DEF IInv

\* Finding or creating makes no more OAuth connections than callbacks ever ran
\* at once between the lookup and the creation (storeProviderOAuth).
THEOREM OAuthConnectionsBound == Spec => []OAuthConnectionsAreBounded
<1>1. IInv => OAuthConnectionsAreBounded
  <2> SUFFICES ASSUME IInv PROVE Cardinality(OAuthConns) <= peak
    BY DEF OAuthConnectionsAreBounded, OAuthConns
  <2>1. /\ IsFiniteSet(OAuthConns) /\ Cardinality(OAuthConns) + Cardinality(Creating) <= peak
        /\ peak \in Nat
    BY DEF IInv, PeakIsShared, TypeOK
  <2>2. Cardinality(OAuthConns) \in Nat /\ Cardinality(Creating) \in Nat
    BY <2>1, CallsAreFinite, FS_CardinalityType
  <2> QED
    BY <2>1, <2>2
<1> QED
  BY <1>1, Invariance, PTL

\* A removed connection is never written again, except by the calls that had
\* found it before (remove(), and the updates by id alone).
THEOREM RemovalIsFinal == Spec => RemovedIsFinal
<1>1. IInv /\ [Next]_vars =>
        [\A c \in Conn :
           conn[c].life = "removed" /\ (\A q \in Call : ~(call[q].late /\ call[q].conn = c)) =>
             conn'[c] = conn[c] /\ cred'[c] = cred[c]]_vars
  BY RemovedStep
<1> QED
  BY <1>1, Invariance, PTL DEF Spec, RemovedIsFinal
=============================================================================
