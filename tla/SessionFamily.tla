--------------------------- MODULE SessionFamily ---------------------------
(***************************************************************************)
(* Refresh-token rotation, reuse detection and logout over the AuthSession *)
(* table (production.service.ts).                                          *)
(*                                                                         *)
(* A session row and its refresh token are one value of Token: the row     *)
(* stores the token's hash.  The database is Postgres at READ COMMITTED.   *)
(* What matters of it here: a SELECT and the row set of an UPDATE see the  *)
(* rows committed when the statement starts; an UPDATE waits for a row     *)
(* another transaction has updated and then evaluates its WHERE again on   *)
(* the committed row, and keeps the rows it has updated until it commits;  *)
(* rows committed after the statement started are not in its row set.      *)
(***************************************************************************)
EXTENDS Naturals, FiniteSets

CONSTANTS
  Token,     \* refresh tokens, one per AuthSession row
  Family,    \* familyId values
  Req,       \* API requests that may be in flight at once
  MaxPresent,  \* bound of the model: how often one token is presented
  NoToken, NoReq, NoRow

ASSUME BoundAssumption == MaxPresent \in Nat
ASSUME NullAssumption ==
  /\ NoToken \notin Token
  /\ NoReq \notin Req
  /\ NoRow \notin [family : Family, next : Token \cup {NoToken},
                   revoked : BOOLEAN, expired : BOOLEAN]

VARIABLES
  session,   \* [Token -> committed AuthSession row or NoRow]
  lock,      \* [Token -> the request whose open transaction updated the row, or NoReq]
  req,       \* [Req -> local state of the request]
  known,     \* tokens some client received
  \* history, read by properties only
  presented, \* [Token -> how often the token was presented]
  loggedOut, \* tokens whose session was logged out
  condemned  \* families whose reuse was answered with "session family revoked"

vars == <<session, lock, req, known, presented, loggedOut, condemned>>

Row == [family : Family, next : Token \cup {NoToken}, revoked : BOOLEAN, expired : BOOLEAN]
NewRow(f) == [family |-> f, next |-> NoToken, revoked |-> FALSE, expired |-> FALSE]

\* "commit" is a rotation between its UPDATE and its COMMIT, "revoke" and
\* "apply" are before and inside the statement of revokeFamily.
ReqRecord == [pc : {"idle", "read", "claim", "commit", "revoke", "apply", "respond", "logout"},
              token : Token \cup {NoToken}, next : Token \cup {NoToken},
              snapshot : SUBSET Token]
IdleReq == [pc |-> "idle", token |-> NoToken, next |-> NoToken, snapshot |-> {}]

Rows == {t \in Token : session[t] # NoRow}
FamilyRows(f) == {t \in Rows : session[t].family = f}

\* refresh() rotates such a row; so does nothing else.
Rotatable(t) == session[t].next = NoToken /\ ~session[t].revoked
\* The guard accepts an access token of such a row.
Live(t) == ~session[t].revoked /\ ~session[t].expired

\* Type invariant.
TypeOK ==
  /\ session \in [Token -> Row \cup {NoRow}]
  /\ lock \in [Token -> Req \cup {NoReq}]
  /\ req \in [Req -> ReqRecord]
  /\ known \subseteq Token
  /\ presented \in [Token -> 0..MaxPresent]
  /\ loggedOut \subseteq Token
  /\ condemned \subseteq Family

Init ==
  /\ session = [t \in Token |-> NoRow]
  /\ lock = [t \in Token |-> NoReq]
  /\ req = [p \in Req |-> IdleReq]
  /\ known = {}
  /\ presented = [t \in Token |-> 0]
  /\ loggedOut = {}
  /\ condemned = {}

-----------------------------------------------------------------------------

\* A token nobody has: not in a row, not about to be inserted by a rotation.
Fresh(t) ==
  /\ session[t] = NoRow
  /\ \A p \in Req : req[p].pc \in {"commit", "respond"} => req[p].next # t

Goto(p, pc) == req' = [req EXCEPT ![p].pc = pc]
Done(p) == req' = [req EXCEPT ![p] = IdleReq]

\* register, login and the extension exchange open a new family: issueSession
\* inserts its first row and answers with the token.
IssueSession(f, t) ==
  /\ FamilyRows(f) = {}
  /\ Fresh(t)
  /\ session' = [session EXCEPT ![t] = NewRow(f)]
  /\ known' = known \cup {t}
  /\ UNCHANGED <<lock, req, presented, loggedOut, condemned>>

\* A client presents a token it holds: its current one, or one that a lost
\* response, a second tab or a copied cookie made stale.
Present(p, t) ==
  /\ req[p].pc = "idle"
  /\ t \in known
  /\ presented[t] < MaxPresent
  /\ req' = [req EXCEPT ![p].pc = "read", ![p].token = t]
  /\ presented' = [presented EXCEPT ![t] = @ + 1]
  /\ UNCHANGED <<session, lock, known, loggedOut, condemned>>

\* Variant with a fault: an expired row is treated like a reused one.
ReadExpiredIsReuse(p) ==
  LET t == req[p].token IN
  /\ req[p].pc = "read"
  /\ \/ (~Rotatable(t) \/ session[t].expired) /\ Goto(p, "revoke")
     \/ Rotatable(t) /\ ~session[t].expired /\ Goto(p, "claim")
  /\ UNCHANGED <<session, lock, known, presented, loggedOut, condemned>>

\* The SELECT and the two checks on what it returned.
ReadSession(p) ==
  LET t == req[p].token IN
  /\ req[p].pc = "read"
  /\ \/ /\ ~Rotatable(t)
        /\ Goto(p, "revoke")
     \/ /\ Rotatable(t) /\ session[t].expired
        /\ Done(p)
     \/ /\ Rotatable(t) /\ ~session[t].expired
        /\ Goto(p, "claim")
  /\ UNCHANGED <<session, lock, known, presented, loggedOut, condemned>>

\* Variants with a fault: the UPDATE does not check that the row is still
\* rotatable, or does not wait for the row.
ClaimUnchecked(p) ==
  LET t == req[p].token IN
  /\ req[p].pc = "claim"
  /\ lock[t] = NoReq
  /\ \E n \in Token :
       /\ Fresh(n)
       /\ req' = [req EXCEPT ![p].pc = "commit", ![p].next = n]
  /\ lock' = [lock EXCEPT ![t] = p]
  /\ UNCHANGED <<session, known, presented, loggedOut, condemned>>
ClaimUnlocked(p) ==
  LET t == req[p].token IN
  /\ req[p].pc = "claim"
  /\ \/ /\ Rotatable(t)
        /\ \E n \in Token :
             /\ Fresh(n)
             /\ req' = [req EXCEPT ![p].pc = "commit", ![p].next = n]
     \/ ~Rotatable(t) /\ Goto(p, "revoke")
  /\ UNCHANGED <<lock, session, known, presented, loggedOut, condemned>>

\* UPDATE ... WHERE "replacedByHash" IS NULL AND "revokedAt" IS NULL: waits
\* for the row, then either claims it or matches nothing.
Claim(p) ==
  LET t == req[p].token IN
  /\ req[p].pc = "claim"
  /\ lock[t] = NoReq
  /\ \/ /\ Rotatable(t)
        /\ \E n \in Token :
             /\ Fresh(n)
             /\ req' = [req EXCEPT ![p].pc = "commit", ![p].next = n]
        /\ lock' = [lock EXCEPT ![t] = p]
     \/ /\ ~Rotatable(t)
        /\ Goto(p, "revoke")
        /\ UNCHANGED lock
  /\ UNCHANGED <<session, known, presented, loggedOut, condemned>>

\* INSERT of the successor and COMMIT: both rows become visible at once.
CommitRotation(p) ==
  LET t == req[p].token  n == req[p].next IN
  /\ req[p].pc = "commit"
  /\ session' = [session EXCEPT ![t].next = n, ![t].revoked = TRUE,
                                ![n] = NewRow(session[t].family)]
  /\ lock' = [lock EXCEPT ![t] = NoReq]
  /\ Goto(p, "respond")
  /\ UNCHANGED <<known, presented, loggedOut, condemned>>

\* The response carries the successor to the client.
Respond(p) ==
  /\ req[p].pc = "respond"
  /\ known' = known \cup {req[p].next}
  /\ Done(p)
  /\ UNCHANGED <<session, lock, presented, loggedOut, condemned>>

\* revokeFamily starts: its UPDATE takes the rows visible now.
RevokeSnapshot(p) ==
  /\ req[p].pc = "revoke"
  /\ req' = [req EXCEPT ![p].pc = "apply",
               ![p].snapshot = FamilyRows(session[req[p].token].family)]
  /\ UNCHANGED <<session, lock, known, presented, loggedOut, condemned>>

\* The UPDATE of revokeFamily changes one more row, waiting if another
\* transaction has it, and keeps those it has changed.  It has no ORDER BY, and
\* a row moves in the table with every update: the order is any.
RevokeRow(p) ==
  /\ req[p].pc = "apply"
  /\ \E t \in req[p].snapshot :
       /\ lock[t] = NoReq
       /\ lock' = [lock EXCEPT ![t] = p]
  /\ UNCHANGED <<session, req, known, presented, loggedOut, condemned>>

\* revokeFamily commits, once it has changed every row of its set, and the
\* request answers "Refresh token reuse detected; session family revoked".
RevokeApply(p) ==
  /\ req[p].pc = "apply"
  /\ \A t \in req[p].snapshot : lock[t] = p
  /\ lock' = [t \in Token |-> IF t \in req[p].snapshot THEN NoReq ELSE lock[t]]
  /\ session' = [t \in Token |-> IF t \in req[p].snapshot
                                   THEN [session[t] EXCEPT !.revoked = TRUE]
                                   ELSE session[t]]
  /\ condemned' = condemned \cup {session[req[p].token].family}
  /\ Done(p)
  /\ UNCHANGED <<known, presented, loggedOut>>

\* The guard found the caller's session live; logout's UPDATE comes later.
StartLogout(p, t) ==
  /\ req[p].pc = "idle"
  /\ t \in known /\ Live(t)
  /\ req' = [req EXCEPT ![p].pc = "logout", ![p].token = t]
  /\ UNCHANGED <<session, lock, known, presented, loggedOut, condemned>>

\* logout revokes the row of the access token, and no other row.
Logout(p) ==
  LET t == req[p].token IN
  /\ req[p].pc = "logout"
  /\ lock[t] = NoReq
  /\ session' = [session EXCEPT ![t].revoked = TRUE]
  /\ loggedOut' = loggedOut \cup {t}
  /\ Done(p)
  /\ UNCHANGED <<lock, known, presented, condemned>>

\* Variant with a fault: an open transaction is not rolled back.
RequestLeaks(p) ==
  /\ req[p].pc # "idle"
  /\ Done(p)
  /\ UNCHANGED <<lock, session, known, presented, loggedOut, condemned>>

\* A statement fails (Postgres ends one in every deadlock), the interactive
\* transaction times out, the process dies or the response is lost: an open
\* transaction is rolled back.
RequestDies(p) ==
  /\ req[p].pc # "idle"
  /\ lock' = [t \in Token |-> IF lock[t] = p THEN NoReq ELSE lock[t]]
  /\ Done(p)
  /\ UNCHANGED <<session, known, presented, loggedOut, condemned>>

\* expiresAt passes.
Expire(t) ==
  /\ session[t] # NoRow /\ ~session[t].expired
  /\ session' = [session EXCEPT ![t].expired = TRUE]
  /\ UNCHANGED <<lock, req, known, presented, loggedOut, condemned>>

ReqStep(p) ==
  \/ ReadSession(p) \/ Claim(p) \/ CommitRotation(p) \/ Respond(p)
  \/ RevokeSnapshot(p) \/ RevokeRow(p) \/ RevokeApply(p) \/ Logout(p)

Next ==
  \/ \E f \in Family, t \in Token : IssueSession(f, t)
  \/ \E p \in Req, t \in Token : Present(p, t) \/ StartLogout(p, t)
  \/ \E p \in Req : ReqStep(p) \/ RequestDies(p)
  \/ \E t \in Token : Expire(t)

Spec == Init /\ [][Next]_vars

-----------------------------------------------------------------------------
(* Properties *)

\* A family never has two rows that could be rotated: rotation never forks
\* it, whatever requests present its tokens at the same time.
AtMostOneRotatable ==
  \A t, u \in Rows :
    session[t].family = session[u].family /\ Rotatable(t) /\ Rotatable(u) => t = u

\* A token is exchanged at most once and a revoked row stays revoked: no
\* later statement gives a row another successor or brings it back.
RotationIsFinal ==
  [][\A t \in Rows :
       /\ session[t].next # NoToken => session'[t].next = session[t].next
       /\ session[t].revoked => session'[t].revoked]_vars

\* A request answers "reuse" only when the token really had been presented
\* before, or when its session or family had been ended.
NoFalseAlarm ==
  \A p \in Req : req[p].pc \in {"revoke", "apply"} =>
    \/ presented[req[p].token] > 1
    \/ req[p].token \in loggedOut
    \/ session[req[p].token].family \in condemned

\* test/production.e2e.ts "refresh-token reuse revokes the whole family", and
\* the message of refresh(): after that answer no session of the family works.
RevokedFamilyIsDead ==
  \A t \in Rows : session[t].family \in condemned => session[t].revoked

\* The rows that the next statement of p, or the rest of it, has to update.
Wanted(p) ==
  CASE req[p].pc \in {"claim", "logout"} -> {req[p].token}
    [] req[p].pc = "apply" -> {t \in req[p].snapshot : lock[t] # p}
    [] OTHER -> {}
WaitsFor(p, q) == \E t \in Wanted(p) : lock[t] = q

\* In D everybody waits for one of D and keeps one of D waiting.
Deadlocked(D) ==
  /\ D # {}
  /\ \A p \in D : (\E q \in D : WaitsFor(p, q)) /\ (\E q \in D : WaitsFor(q, p))

\* Rows of sessions can be waited for in a circle, but only by revokeFamily
\* calls that end one family: a renewal holds its row with nothing left to do
\* but INSERT and COMMIT, logout holds none, and no ended request keeps one, so
\* neither a renewal nor a logout is the victim of a deadlock.
OnlyRevocationsDeadlock ==
  \A D \in SUBSET Req : Deadlocked(D) => \A p \in D :
    /\ req[p].pc = "apply"
    /\ \A q \in D : WaitsFor(p, q) =>
         session[req[p].token].family = session[req[q].token].family

-----------------------------------------------------------------------------
(* The inductive invariant *)

\* Every token a client or a request holds has a row, and revokeFamily is
\* about to change rows of the family of the token that was presented.
RequestsHaveRows ==
  /\ known \subseteq Rows
  /\ \A p \in Req :
       /\ req[p].pc # "idle" => req[p].token \in Rows
       /\ req[p].pc = "commit" => req[p].next \in Token
       /\ req[p].pc = "respond" => req[p].next \in Rows
       /\ req[p].pc = "apply" =>
            req[p].snapshot \subseteq FamilyRows(session[req[p].token].family)

\* Between its UPDATE and its COMMIT a rotation owns the lock of a row that is
\* still rotatable, and has a successor token to itself.
RotationsHoldTheirRow ==
  /\ \A p \in Req : req[p].pc = "commit" =>
       /\ lock[req[p].token] = p
       /\ Rotatable(req[p].token)
       /\ session[req[p].next] = NoRow
  /\ \A p, q \in Req :
       p # q /\ req[p].pc = "commit" /\ req[q].pc = "commit" => req[p].next # req[q].next

\* A request that has presented t and not been answered yet.
Presenting(p, t) == req[p].pc \in {"read", "claim", "commit"} /\ req[p].token = t

\* A row is locked by the rotation that claimed it or by a revokeFamily call
\* that has changed it.
LocksAreHeld ==
  \A t \in Token : lock[t] # NoReq =>
    \/ req[lock[t]].pc = "commit" /\ req[lock[t]].token = t
    \/ req[lock[t]].pc = "apply" /\ t \in req[lock[t]].snapshot

\* Presentations are counted: each unanswered one, and the one that rotated
\* the row, is a different one.
PresentationsCount ==
  \A t \in Rows :
    /\ session[t].next # NoToken => presented[t] >= 1
    /\ \A p \in Req : Presenting(p, t) =>
         /\ presented[t] >= 1
         /\ session[t].next # NoToken => presented[t] >= 2
         /\ \A q \in Req : q # p /\ Presenting(q, t) => presented[t] >= 2

\* A row is revoked by its rotation, by logout or with its family only.
RevokedForAReason ==
  \A t \in Rows : session[t].revoked =>
    \/ session[t].next # NoToken
    \/ t \in loggedOut
    \/ session[t].family \in condemned

IInv ==
  /\ TypeOK /\ RequestsHaveRows /\ RotationsHoldTheirRow /\ AtMostOneRotatable
  /\ PresentationsCount /\ RevokedForAReason /\ NoFalseAlarm /\ LocksAreHeld
=============================================================================
