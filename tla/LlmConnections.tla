--------------------------- MODULE LlmConnections ---------------------------
(***************************************************************************)
(* The LLM connections of one user in a workspace: API keys and an OAuth   *)
(* account, the refreshing of its token when a connection is verified or   *)
(* used, and removal.                                                      *)
(* A call is one request or one classification; each action is one of its  *)
(* statements or its exchange with the provider, so calls interleave       *)
(* between any two of them.  A token stands for an OAuth grant with its    *)
(* refresh token.  How a call uses the slots is LlmRouter's; the routes    *)
(* that every listing brings up to date are ModelRoutes'.                  *)
(***************************************************************************)
EXTENDS Naturals, FiniteSets

CONSTANTS
  Conn,
  State,        \* OAuth states
  Call,
  MaxTokens,    \* bound of the model: refresh tokens the provider issues
  Nobody

ASSUME CallAssumption == Call # {} /\ IsFiniteSet(Call) /\ Nobody \notin Conn
ASSUME TokenAssumption == MaxTokens \in Nat

VARIABLES
  conn,      \* [Conn -> LlmConnection row]
  cred,      \* [Conn -> token in its ProviderOAuthCredential row, 0 without row]
  oauth,     \* [State -> OAuthState row: "none", "open", or used or expired]
  valid,     \* the provider: refresh tokens it accepts
  issued,    \* ... tokens issued so far
  rotates,   \* ... does it replace a refresh token that is used
  call,      \* [Call -> local state]
  \* history, read by properties only
  spent,     \* [State -> tokens exchanged for it]
  peak,      \* callbacks that were between lookup and creation at once
  cut        \* connections whose token or credential was lost with a call

rowVars == <<conn, cred>>
providerVars == <<valid, issued>>
vars == <<rowVars, oauth, providerVars, rotates, call, spent, peak, cut>>

ConnRecord == [life : {"none", "live", "removed"}, oauth : BOOLEAN, pooled : BOOLEAN,
               status : {"PENDING", "ACTIVE", "INVALID", "DRAINING"},
               secret : BOOLEAN]  \* encryptedCredential is set
NoConn == [life |-> "none", oauth |-> FALSE, pooled |-> FALSE, status |-> "PENDING",
           secret |-> FALSE]

CallRecord ==
  [pc : {"idle", "exchange", "find", "store", "credential",  \* OAuth callback
         "read", "refresh", "write", "probe"},               \* use of a connection
   state : State \cup {Nobody},
   conn : Conn \cup {Nobody},
   token : Nat,
   verify : BOOLEAN,                \* probes the connection afterwards
   late : BOOLEAN]                  \* history: the connection was removed meanwhile
IdleCall == [pc |-> "idle", state |-> Nobody, conn |-> Nobody, token |-> 0, verify |-> FALSE,
             late |-> FALSE]

\* Type invariant.
TypeOK ==
  /\ conn \in [Conn -> ConnRecord] /\ cred \in [Conn -> Nat]
  /\ oauth \in [State -> {"none", "open", "over"}]
  /\ valid \subseteq 1..issued /\ issued \in Nat /\ rotates \in BOOLEAN
  /\ call \in [Call -> CallRecord]
  /\ spent \in [State -> Nat] /\ peak \in Nat /\ cut \subseteq Conn

Init ==
  /\ conn = [c \in Conn |-> NoConn] /\ cred = [c \in Conn |-> 0]
  /\ oauth = [x \in State |-> "none"]
  /\ valid = {} /\ issued = 0 /\ rotates \in BOOLEAN
  /\ call = [q \in Call |-> IdleCall]
  /\ spent = [x \in State |-> 0] /\ peak = 0 /\ cut = {}

Live(c) == conn[c].life = "live"
Idle(q) == call' = [call EXCEPT ![q] = IdleCall]

-----------------------------------------------------------------------------
(* OAuth authorization *)

OauthStart(x) ==
  /\ oauth[x] = "none"
  /\ oauth' = [oauth EXCEPT ![x] = "open"]
  /\ UNCHANGED <<rowVars, providerVars, rotates, call, spent, peak, cut>>

\* Ten minutes pass.
StateExpires(x) ==
  /\ oauth[x] = "open"
  /\ oauth' = [oauth EXCEPT ![x] = "over"]
  /\ UNCHANGED <<rowVars, providerVars, rotates, call, spent, peak, cut>>

\* The callback marks the state used in the statement that finds it.
OauthCallback(q, x) ==
  /\ call[q].pc = "idle" /\ oauth[x] = "open"
  /\ oauth' = [oauth EXCEPT ![x] = "over"]
  /\ call' = [call EXCEPT ![q].pc = "exchange", ![q].state = x]
  /\ UNCHANGED <<rowVars, providerVars, rotates, spent, peak, cut>>

Storing == {q \in Call : call[q].pc \in {"find", "store"}}

\* The provider exchanges the code for a new grant.
ExchangeOAuthCode(q) ==
  /\ call[q].pc = "exchange"
  /\ issued < MaxTokens /\ issued' = issued + 1
  /\ valid' = valid \cup {issued'}
  /\ spent' = [spent EXCEPT ![call[q].state] = @ + 1]
  /\ call' = [call EXCEPT ![q] = [IdleCall EXCEPT !.pc = "find", !.token = issued']]
  /\ peak' = IF Cardinality(Storing') > peak THEN Cardinality(Storing') ELSE peak
  /\ UNCHANGED <<rowVars, oauth, rotates, cut>>

\* storeProviderOAuth looks for the user's OAuth connection ...
FindAmong(q, found) ==
  /\ call[q].pc = "find"
  /\ \/ \E c \in found : call' = [call EXCEPT ![q].pc = "store", ![q].conn = c]
     \/ found = {} /\ call' = [call EXCEPT ![q].pc = "store"]
  /\ UNCHANGED <<rowVars, oauth, providerVars, rotates, spent, peak, cut>>
\* Variant with a fault: none is looked for.
FindNone(q) == FindAmong(q, {})
FindOAuth(q) == FindAmong(q, {c \in Conn : Live(c) /\ conn[c].oauth})

\* ... updates it, by its id alone, or creates one ...
Linked(row) ==
  [row EXCEPT !.life = IF row.life = "none" THEN "live" ELSE row.life, !.oauth = TRUE,
              !.status = "ACTIVE", !.pooled = TRUE, !.secret = TRUE]
StoreConnection(q) ==
  /\ call[q].pc = "store"
  /\ \E c \in Conn :
       /\ \/ c = call[q].conn
          \/ call[q].conn = Nobody /\ conn[c].life = "none"
       /\ conn' = [conn EXCEPT ![c] = Linked(conn[c])]
       /\ call' = [call EXCEPT ![q].pc = "credential", ![q].conn = c]
  /\ UNCHANGED <<cred, oauth, providerVars, rotates, spent, peak, cut>>

\* ... and upserts the credential row.
StoreCredential(q) ==
  /\ call[q].pc = "credential"
  /\ cred' = [cred EXCEPT ![call[q].conn] = call[q].token]
  /\ cut' = cut \ {call[q].conn}
  /\ Idle(q)
  /\ UNCHANGED <<conn, oauth, providerVars, rotates, spent, peak>>

-----------------------------------------------------------------------------
(* API keys, removal, verification and use *)

\* create() stores the key.
AddKey(c) ==
  /\ conn[c].life = "none"
  /\ conn' = [conn EXCEPT ![c] = [NoConn EXCEPT !.life = "live", !.pooled = TRUE,
                                                !.secret = TRUE]]
  /\ UNCHANGED <<cred, oauth, providerVars, rotates, call, spent, peak, cut>>

\* remove() of the owner: the row stays; so does the credential row.
RemoveConnection(c) ==
  /\ Live(c)
  /\ conn' = [conn EXCEPT ![c] = [@ EXCEPT !.life = "removed", !.status = "DRAINING",
                                           !.pooled = FALSE, !.secret = FALSE]]
  /\ call' = [q \in Call |-> IF call[q].conn = c THEN [call[q] EXCEPT !.late = TRUE]
                                                 ELSE call[q]]
  /\ UNCHANGED <<cred, oauth, providerVars, rotates, spent, peak, cut>>

BeginUse(q, c, verify) ==
  /\ call[q].pc = "idle"
  /\ call' = [call EXCEPT ![q].pc = "read", ![q].conn = c, ![q].verify = verify]
  /\ UNCHANGED <<rowVars, oauth, providerVars, rotates, spent, peak, cut>>
\* Variant with a fault: the lookup forgets deletedAt.
VerifyRemoved(q, c) == conn[c].life # "none" /\ BeginUse(q, c, TRUE)
\* verify() of a member, and the router's choice of an active, pooled connection.
Verify(q, c) == Live(c) /\ BeginUse(q, c, TRUE)
Route(q, c) ==
  /\ Live(c) /\ conn[c].status = "ACTIVE" /\ conn[c].pooled
  /\ BeginUse(q, c, FALSE)

\* getFreshProviderCredential has returned.
GotCredential(q) ==
  call' = [call EXCEPT ![q] = IF @.verify THEN [@ EXCEPT !.pc = "probe", !.token = 0]
                                          ELSE IdleCall]

\* The stored token, if there is one, is good for two more minutes or not.
ReadCredential(q) ==
  /\ call[q].pc = "read"
  /\ \/ GotCredential(q)
     \/ /\ cred[call[q].conn] # 0
        /\ call' = [call EXCEPT ![q].pc = "refresh", ![q].token = cred[call[q].conn]]
  /\ UNCHANGED <<rowVars, oauth, providerVars, rotates, spent, peak, cut>>

\* The provider accepts the refresh token and may replace it, or refuses.
Refresh(q) ==
  /\ call[q].pc = "refresh"
  /\ \/ /\ call[q].token \in valid /\ rotates
        /\ issued < MaxTokens /\ issued' = issued + 1
        /\ valid' = (valid \ {call[q].token}) \cup {issued'}
        /\ call' = [call EXCEPT ![q].pc = "write", ![q].token = issued']
     \/ /\ call[q].token \in valid /\ ~rotates
        /\ call' = [call EXCEPT ![q].pc = "write"]
        /\ UNCHANGED providerVars
     \/ call[q].token \notin valid /\ Idle(q) /\ UNCHANGED providerVars
  /\ UNCHANGED <<rowVars, oauth, rotates, spent, peak, cut>>

\* Variant with a fault: the new refresh token is not kept.
WriteOldToken(q) ==
  /\ call[q].pc = "write"
  /\ UNCHANGED cred
  /\ conn' = [conn EXCEPT ![call[q].conn].status = "ACTIVE", ![call[q].conn].secret = TRUE]
  /\ GotCredential(q)
  /\ UNCHANGED <<oauth, providerVars, rotates, spent, peak, cut>>

\* Credential row and connection in one transaction, by id alone.
WriteToken(q) ==
  LET c == call[q].conn IN
  /\ call[q].pc = "write"
  /\ cred' = [cred EXCEPT ![c] = call[q].token]
  /\ cut' = cut \ {c}
  /\ conn' = [conn EXCEPT ![c].status = "ACTIVE", ![c].secret = TRUE]
  /\ GotCredential(q)
  /\ UNCHANGED <<oauth, providerVars, rotates, spent, peak>>

\* The verification's request, and its outcome, by id alone.
Probe(q) ==
  /\ call[q].pc = "probe"
  /\ \E status \in {"ACTIVE", "INVALID"} :
       conn' = [conn EXCEPT ![call[q].conn].status = status]
  /\ Idle(q)
  /\ UNCHANGED <<cred, oauth, providerVars, rotates, spent, peak, cut>>

-----------------------------------------------------------------------------

\* A call ends where it is: its process dies, a statement or the provider fails.
CallDies(q) ==
  /\ call[q].pc # "idle"
  /\ Idle(q)
  /\ cut' = IF call[q].pc \in {"write", "credential"} THEN cut \cup {call[q].conn} ELSE cut
  /\ UNCHANGED <<rowVars, oauth, providerVars, rotates, spent, peak>>

Step(q) ==
  \/ ExchangeOAuthCode(q) \/ FindOAuth(q) \/ StoreConnection(q) \/ StoreCredential(q)
  \/ ReadCredential(q) \/ Refresh(q) \/ WriteToken(q) \/ Probe(q)

Next ==
  \/ \E x \in State : OauthStart(x) \/ StateExpires(x) \/ \E q \in Call : OauthCallback(q, x)
  \/ \E c \in Conn : AddKey(c) \/ RemoveConnection(c)
                     \/ \E q \in Call : Verify(q, c) \/ Route(q, c)
  \/ \E q \in Call : Step(q) \/ CallDies(q)

Spec == Init /\ [][Next]_vars

-----------------------------------------------------------------------------
(* Properties *)

\* An OAuth state is exchanged for one grant at most, however often and at
\* once its callback is called.
StateIsExchangedOnce == \A x \in State : spent[x] <= 1

\* An OAuth connection has a credential row, and its refresh token is one the
\* provider accepts, unless a call is about to store a newer one or died with
\* it: calls that refresh at once never overwrite a good token with a used one.
StoredTokenWorks ==
  \A c \in Conn : conn[c].oauth /\ cred[c] \notin valid =>
    \/ c \in cut
    \/ \E q \in Call : /\ call[q].pc \in {"write", "credential"}
                       /\ call[q].conn = c /\ call[q].token \in valid

\* Find-or-create leaves a user as many OAuth connections as callbacks ever ran
\* at once between the lookup and the creation, and no more.
OAuthConnectionsAreBounded ==
  Cardinality({c \in Conn : Live(c) /\ conn[c].oauth}) <= peak

\* Once a connection is removed and the calls that had found it before are
\* over, nothing writes it or its credential again.
RemovedIsFinal ==
  [][\A c \in Conn :
       conn[c].life = "removed" /\ (\A q \in Call : ~(call[q].late /\ call[q].conn = c)) =>
         conn'[c] = conn[c] /\ cred'[c] = cred[c]]_vars

-----------------------------------------------------------------------------
(* The inductive invariant *)

\* Calls work on rows that exist; a call whose connection was removed is late.
CallsHaveRows ==
  /\ \A q \in Call :
       LET c == call[q].conn IN
       /\ call[q].pc = "exchange" => call[q].state \in State
       /\ call[q].pc \in {"idle", "exchange", "find"} => c = Nobody
       /\ call[q].pc \in {"credential", "read", "refresh", "write", "probe"} => c \in Conn
       /\ call[q].pc # "idle" /\ c \in Conn =>
            /\ conn[c].life # "none"
            /\ conn[c].life = "removed" => call[q].late
            /\ call[q].pc \in {"store", "credential"} => conn[c].oauth
  /\ \A c \in Conn : conn[c].oauth => conn[c].life # "none"

\* A used state is over, and one callback at most has it.
StatesAreClaimed ==
  /\ \A x \in State : oauth[x] # "over" => spent[x] = 0
  /\ \A q \in Call : call[q].pc = "exchange" =>
       /\ oauth[call[q].state] = "over" /\ spent[call[q].state] = 0
       /\ \A p \in Call : call[p].pc = "exchange" /\ call[p].state = call[q].state => p = q

\* A call that got a new token is the only one to know it until it stores it;
\* a stored token is one connection's, and one that is about to be used was
\* stored for that connection only.
HasNew(q) ==
  call[q].pc \in {"find", "store", "credential"} \/ (call[q].pc = "write" /\ rotates)
HasToken(q) == HasNew(q) \/ call[q].pc \in {"refresh", "write"}
TokensAreOwned ==
  /\ valid \subseteq 1..issued
  /\ \A c \in Conn : cred[c] \in 0..issued
  /\ \A q \in Call : HasToken(q) => call[q].token \in 1..issued
  /\ ~rotates => valid = 1..issued
  /\ \A q \in Call : HasNew(q) =>
       /\ call[q].token \in valid
       /\ \A c \in Conn : cred[c] # call[q].token
       /\ \A p \in Call \ {q} : HasToken(p) => call[p].token # call[q].token
  /\ rotates =>
       /\ \A c, d \in Conn : cred[c] = cred[d] /\ cred[c] # 0 => c = d
       /\ \A q \in Call, c \in Conn :
            call[q].pc = "refresh" /\ cred[c] = call[q].token => c = call[q].conn

\* Callbacks that found no connection count as the connection they will make.
OAuthConns == {c \in Conn : Live(c) /\ conn[c].oauth}
Creating == {q \in Call : call[q].pc = "store" /\ call[q].conn = Nobody}
PeakIsShared ==
  /\ Cardinality(Storing) <= peak
  /\ IsFiniteSet(OAuthConns)
  /\ Cardinality(OAuthConns) + Cardinality(Creating) <= peak

IInv ==
  /\ TypeOK /\ CallsHaveRows /\ StatesAreClaimed /\ StateIsExchangedOnce
  /\ TokensAreOwned /\ StoredTokenWorks /\ PeakIsShared
=============================================================================
