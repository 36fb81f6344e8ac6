------------------------- MODULE SessionFamilyProofs -------------------------
(***************************************************************************)
(* Rotation, reuse detection and logout are correct for any number of      *)
(* tokens, families and concurrent requests.  And about WebSession, for    *)
(* any number of logins and requests of the browser: as long as nothing    *)
(* interferes with a session, its latest token is with its only request or *)
(* else in the cookies.                                                    *)
(***************************************************************************)
EXTENDS SessionFamily, WebSession, TLAPS

\* IInv holds initially: there is no session and no request.
LEMMA InitIInv == Init => IInv
BY BoundAssumption, NullAssumption
   DEF Init, IInv, TypeOK, ReqRecord, IdleReq, Rows, RequestsHaveRows, Rotatable,
       RotationsHoldTheirRow, AtMostOneRotatable, PresentationsCount, RevokedForAReason,
       NoFalseAlarm, LocksAreHeld

\* Revoking a row gives a row, and changes nothing else of it.
LEMMA RevokedRow ==
  ASSUME NEW r \in Row
  PROVE  /\ [r EXCEPT !.revoked = TRUE] \in Row
         /\ [r EXCEPT !.revoked = TRUE].family = r.family
         /\ [r EXCEPT !.revoked = TRUE].next = r.next
         /\ [r EXCEPT !.revoked = TRUE].revoked
BY DEF Row

\* The row of a new session is a row.
LEMMA InsertedRow == ASSUME NEW f \in Family PROVE NewRow(f) \in Row /\ NewRow(f) # NoRow
<1>1. NewRow(f) \in Row
  BY DEF NewRow, Row
<1>2. NoRow \notin Row
  BY NullAssumption DEF Row
<1> QED
  BY <1>1, <1>2

\* Rotating a row revokes it and sets its successor.
LEMMA RotatedRow ==
  ASSUME NEW r \in Row, NEW n \in Token
  PROVE  /\ [r EXCEPT !.next = n, !.revoked = TRUE] \in Row
         /\ [r EXCEPT !.next = n, !.revoked = TRUE].family = r.family
         /\ [r EXCEPT !.next = n, !.revoked = TRUE].next = n
         /\ [r EXCEPT !.next = n, !.revoked = TRUE].revoked
<1>1. /\ [r EXCEPT !.next = n] \in Row
      /\ [r EXCEPT !.next = n].family = r.family /\ [r EXCEPT !.next = n].next = n
  BY DEF Row
<1> QED
  BY <1>1 DEF Row

\* Two fields of a request's state may change together.
LEMMA RequestRecord ==
  ASSUME NEW p \in Req, req \in [Req -> ReqRecord],
         NEW pc \in {"read", "apply", "logout"}, NEW t \in Token, NEW S \in SUBSET Token
  PROVE  /\ [req EXCEPT ![p].pc = pc, ![p].token = t] \in [Req -> ReqRecord]
         /\ [req EXCEPT ![p].pc = pc, ![p].snapshot = S] \in [Req -> ReqRecord]
<1>1. [req EXCEPT ![p].pc = pc] \in [Req -> ReqRecord]
  BY DEF ReqRecord
<1>2. ASSUME NEW f \in [Req -> ReqRecord]
      PROVE  [f EXCEPT ![p].token = t] \in [Req -> ReqRecord]
  BY DEF ReqRecord
<1>3. ASSUME NEW f \in [Req -> ReqRecord]
      PROVE  [f EXCEPT ![p].snapshot = S] \in [Req -> ReqRecord]
  BY DEF ReqRecord
<1> QED
  BY <1>1, <1>2, <1>3

\* Every step preserves the types.
LEMMA TypeStep == IInv /\ [Next]_vars => TypeOK'
<1> SUFFICES ASSUME TypeOK, RequestsHaveRows, [Next]_vars PROVE TypeOK'
  BY DEF IInv
<1> USE BoundAssumption, NullAssumption DEF TypeOK, Row
<1>1. ASSUME NEW f \in Family, NEW t \in Token, IssueSession(f, t) PROVE TypeOK'
  BY <1>1 DEF IssueSession, NewRow
<1>2. ASSUME NEW p \in Req, NEW t \in Token, Present(p, t) PROVE TypeOK'
  <2>1. req' \in [Req -> ReqRecord]
    BY <1>2, RequestRecord DEF Present
  <2>2. presented' \in [Token -> 0..MaxPresent]
    BY <1>2 DEF Present
  <2> QED
    BY <1>2, <2>1, <2>2 DEF Present
<1>3. ASSUME NEW p \in Req, NEW t \in Token, StartLogout(p, t) PROVE TypeOK'
  <2>1. req' \in [Req -> ReqRecord]
    BY <1>3, RequestRecord DEF StartLogout
  <2> QED
    BY <1>3, <2>1 DEF StartLogout
<1>4. ASSUME NEW p \in Req, ReadSession(p) PROVE TypeOK'
  BY <1>4 DEF ReadSession, Goto, Done, IdleReq, ReqRecord
<1>5. ASSUME NEW p \in Req, Claim(p) PROVE TypeOK'
  <2>1. req[p].token \in Token
    BY <1>5 DEF Claim, RequestsHaveRows, Rows
  <2>2. req' \in [Req -> ReqRecord]
    BY <1>5 DEF Claim, Goto, ReqRecord
  <2> QED
    BY <1>5, <2>1, <2>2 DEF Claim
<1>6. ASSUME NEW p \in Req, CommitRotation(p) PROVE TypeOK'
  <2>1. /\ req[p].token \in Token /\ session[req[p].token] \in Row
        /\ req[p].next \in Token
    BY <1>6 DEF CommitRotation, RequestsHaveRows, Rows
  <2>2. session' \in [Token -> Row \cup {NoRow}]
    BY <1>6, <2>1 DEF CommitRotation, NewRow
  <2>3. req' \in [Req -> ReqRecord]
    BY <1>6 DEF CommitRotation, Goto, ReqRecord
  <2> QED
    BY <1>6, <2>2, <2>3 DEF CommitRotation
<1>7. ASSUME NEW p \in Req, Respond(p) PROVE TypeOK'
  BY <1>7 DEF Respond, RequestsHaveRows, Rows, Done, IdleReq, ReqRecord
<1>8. ASSUME NEW p \in Req, RevokeSnapshot(p) PROVE TypeOK'
  <2>1. FamilyRows(session[req[p].token].family) \in SUBSET Token
    BY DEF FamilyRows, Rows
  <2>2. req' \in [Req -> ReqRecord]
    BY <1>8, <2>1, RequestRecord, ZenonT(30) DEF RevokeSnapshot, RequestsHaveRows, Rows
  <2> QED
    BY <1>8, <2>2 DEF RevokeSnapshot
<1>9. ASSUME NEW p \in Req, RevokeApply(p) PROVE TypeOK'
  <2>1. session' \in [Token -> Row \cup {NoRow}]
    <3> SUFFICES ASSUME NEW t \in Token PROVE session'[t] \in Row \cup {NoRow}
      BY <1>9 DEF RevokeApply
    <3>1. CASE t \in req[p].snapshot
      <4>1. session[t] \in Row
        BY <1>9, <3>1 DEF RevokeApply, RequestsHaveRows, FamilyRows, Rows
      <4> QED
        BY <1>9, <3>1, <4>1, RevokedRow DEF RevokeApply
    <3>2. CASE t \notin req[p].snapshot
      BY <1>9, <3>2 DEF RevokeApply
    <3> QED
      BY <3>1, <3>2
  <2>2. session[req[p].token] \in Row
    BY <1>9 DEF RevokeApply, RequestsHaveRows, Rows
  <2> QED
    BY <1>9, <2>1, <2>2 DEF RevokeApply, Done, IdleReq, ReqRecord
<1>10. ASSUME NEW p \in Req, Logout(p) PROVE TypeOK'
  <2>1. req[p].token \in Token /\ session[req[p].token] \in Row
    BY <1>10 DEF Logout, RequestsHaveRows, Rows
  <2>2. session' \in [Token -> Row \cup {NoRow}]
    BY <1>10, <2>1, RevokedRow DEF Logout
  <2>3. req' \in [Req -> ReqRecord]
    BY <1>10 DEF Logout, Done, IdleReq, ReqRecord
  <2> QED
    BY <1>10, <2>1, <2>2, <2>3 DEF Logout
<1>11. ASSUME NEW p \in Req, RequestDies(p) PROVE TypeOK'
  BY <1>11 DEF RequestDies, Done, IdleReq, ReqRecord
<1>12. ASSUME NEW t \in Token, Expire(t) PROVE TypeOK'
  BY <1>12 DEF Expire
<1>13. CASE UNCHANGED vars
  BY <1>13 DEF vars
<1>14. ASSUME NEW p \in Req, RevokeRow(p) PROVE TypeOK'
  BY <1>14 DEF RevokeRow, ReqRecord
<1> QED
  BY <1>1, <1>2, <1>3, <1>4, <1>5, <1>6, <1>7, <1>8, <1>9, <1>10, <1>11, <1>12, <1>13, <1>14
     DEF Next, ReqStep

\* Rows are never removed, and what a rotation writes to a row stays.
LEMMA RowStep ==
  ASSUME IInv, [Next]_vars
  PROVE  \A t \in Rows :
           /\ t \in Rows' /\ session'[t].family = session[t].family
           /\ session[t].next # NoToken => session'[t].next = session[t].next
           /\ session[t].revoked => session'[t].revoked
<1> SUFFICES ASSUME NEW t \in Rows
             PROVE  /\ t \in Rows' /\ session'[t].family = session[t].family
                    /\ session[t].next # NoToken => session'[t].next = session[t].next
                    /\ session[t].revoked => session'[t].revoked
  OBVIOUS
<1>0. t \in Token /\ session[t] \in Row
  BY DEF IInv, TypeOK, Rows
<1>a. session' \in [Token -> Row \cup {NoRow}]
  BY TypeStep DEF TypeOK
<1> USE NullAssumption, <1>0 DEF IInv, TypeOK, Rows, Row
<1>1. ASSUME NEW f \in Family, NEW u \in Token, IssueSession(f, u) PROVE session'[t] = session[t]
  BY <1>1 DEF IssueSession, Fresh
<1>2. ASSUME NEW p \in Req, CommitRotation(p)
      PROVE  IF t = req[p].token
               THEN session'[t] = [session[t] EXCEPT !.next = req[p].next, !.revoked = TRUE]
               ELSE session'[t] = session[t]
  BY <1>2, ZenonT(30) DEF CommitRotation, RotationsHoldTheirRow, RequestsHaveRows
<1>3. ASSUME NEW p \in Req, CommitRotation(p) PROVE session[req[p].token].next = NoToken
  BY <1>3 DEF CommitRotation, RotationsHoldTheirRow, Rotatable
<1>4. ASSUME NEW p \in Req, RevokeApply(p)
      PROVE  session'[t] = session[t] \/ session'[t] = [session[t] EXCEPT !.revoked = TRUE]
  BY <1>4 DEF RevokeApply
<1>5. ASSUME NEW p \in Req, Logout(p)
      PROVE  session'[t] = session[t] \/ session'[t] = [session[t] EXCEPT !.revoked = TRUE]
  BY <1>5 DEF Logout
<1>6. ASSUME NEW u \in Token, Expire(u)
      PROVE  session'[t] = session[t] \/ session'[t] = [session[t] EXCEPT !.expired = TRUE]
  BY <1>6 DEF Expire
<1>7. CASE session'[t] = session[t]
  BY <1>7
<1>8. CASE session'[t] = [session[t] EXCEPT !.revoked = TRUE]
  BY <1>8, <1>a, RevokedRow
<1>9. CASE session'[t] = [session[t] EXCEPT !.expired = TRUE]
  BY <1>9, <1>a
<1>10. CASE \E p \in Req : CommitRotation(p)
  <2> PICK p \in Req : CommitRotation(p)
    BY <1>10
  <2>1. CASE t = req[p].token
    <3>1. session[t].next = NoToken
      BY <2>1, <1>3
    <3>2. session'[t] = [session[t] EXCEPT !.next = req[p].next, !.revoked = TRUE]
      BY <2>1, <1>2
    <3>3. session'[t] \in Row
      <4>1. req[p].next \in Token
        BY DEF CommitRotation, RequestsHaveRows
      <4> QED
        BY <3>2, <4>1, RotatedRow
    <3> QED
      BY <3>1, <3>2, <3>3, RotatedRow, ZenonT(30)
  <2>2. CASE t # req[p].token
    BY <2>2, <1>2, <1>7
  <2> QED
    BY <2>1, <2>2
<1>11. CASE session' = session
  BY <1>11, <1>7
<1> QED
  BY <1>1, <1>4, <1>5, <1>6, <1>7, <1>8, <1>9, <1>10, <1>11
     DEF Next, ReqStep, vars, Present, StartLogout, ReadSession, Claim, Respond,
         RevokeSnapshot, RevokeRow, RequestDies

\* Requests and clients keep their rows: rows are never removed.
LEMMA HaveRowsStep == IInv /\ [Next]_vars => RequestsHaveRows'
<1> SUFFICES ASSUME IInv, [Next]_vars PROVE RequestsHaveRows'
  OBVIOUS
<1> DEFINE Holds(q) ==
      /\ req[q].pc # "idle" => req[q].token \in Rows
      /\ req[q].pc = "commit" => req[q].next \in Token
      /\ req[q].pc = "respond" => req[q].next \in Rows
      /\ req[q].pc = "apply" =>
           req[q].snapshot \subseteq FamilyRows(session[req[q].token].family)
<1>0. /\ \A t \in Rows : FamilyRows(session[t].family) \subseteq FamilyRows(session[t].family)'
      /\ Rows \subseteq Rows' /\ Rows \subseteq Token /\ known \subseteq Rows
      /\ req \in [Req -> ReqRecord]
      /\ \A q \in Req : Holds(q)
  <2>1. /\ Rows \subseteq Rows' /\ Rows \subseteq Token /\ known \subseteq Rows
        /\ req \in [Req -> ReqRecord]
        /\ \A q \in Req : Holds(q)
    BY RowStep DEF IInv, TypeOK, Rows, RequestsHaveRows
  <2>2. ASSUME NEW t \in Rows
        PROVE  FamilyRows(session[t].family) \subseteq FamilyRows(session[t].family)'
    BY RowStep DEF FamilyRows
  <2> QED
    BY <2>1, <2>2
<1> SUFFICES known' \subseteq Rows' /\ \A q \in Req : Holds(q)'
  BY DEF RequestsHaveRows
<1>b. ASSUME NEW q \in Req, req'[q] = req[q] PROVE Holds(q)'
  BY <1>0, <1>b
<1>1. ASSUME NEW f \in Family, NEW t \in Token, IssueSession(f, t)
      PROVE  known' \subseteq Rows' /\ \A q \in Req : Holds(q)'
  <2>1. t \in Rows'
    BY <1>1, InsertedRow DEF IssueSession, Rows, IInv, TypeOK
  <2> QED
    BY <1>1, <2>1, <1>0 DEF IssueSession
<1>2. ASSUME NEW p \in Req, UNCHANGED known,
             req' = [req EXCEPT ![p] = IdleReq]
             \/ \E pc \in {"revoke", "claim"} :
                  req[p].pc # "idle" /\ req' = [req EXCEPT ![p].pc = pc]
      PROVE  known' \subseteq Rows' /\ \A q \in Req : Holds(q)'
  <2> SUFFICES ASSUME NEW q \in Req, q = p PROVE Holds(q)'
    BY <1>0, <1>2, <1>b
  <2>1. CASE req' = [req EXCEPT ![p] = IdleReq]
    BY <1>0, <2>1 DEF IdleReq
  <2>2. CASE \E pc \in {"revoke", "claim"} :
               req[p].pc # "idle" /\ req' = [req EXCEPT ![p].pc = pc]
    BY <1>0, <2>2 DEF ReqRecord
  <2> QED
    BY <1>2, <2>1, <2>2
<1>3. ASSUME NEW p \in Req, NEW t \in Token, Present(p, t) \/ StartLogout(p, t)
      PROVE  known' \subseteq Rows' /\ \A q \in Req : Holds(q)'
  <2>1. t \in Rows /\ UNCHANGED known
    BY <1>3, <1>0 DEF Present, StartLogout
  <2>2. ASSUME NEW q \in Req
        PROVE  req'[q] = req[q]
               \/ (req'[q].token = t /\ req'[q].pc \in {"read", "logout"})
    <3>0. PICK pc \in {"read", "logout"} :
            req' = [req EXCEPT ![p].pc = pc, ![p].token = t]
      BY <1>3 DEF Present, StartLogout
    <3>1. CASE q # p
      <4>1. req \in [Req -> ReqRecord]
        BY <1>0
      <4>2. req'[q] = req[q]
        BY <3>0, <3>1, <4>1
      <4> QED
        BY <4>2
    <3>2. CASE q = p
      <4>2. req[p] \in ReqRecord
        BY <1>0
      <4>3. req'[p] = [req[p] EXCEPT !.pc = pc, !.token = t]
        BY <3>0, <1>0
      <4> QED
        BY <4>2, <4>3, <3>2 DEF ReqRecord
    <3> QED
      BY <3>1, <3>2
  <2> QED
    BY <1>0, <2>1, <2>2
<1>4. ASSUME NEW p \in Req, Claim(p)
      PROVE  known' \subseteq Rows' /\ \A q \in Req : Holds(q)'
  <2>1. UNCHANGED known /\ \A q \in Req : q # p => req'[q] = req[q]
    BY <1>4, <1>0 DEF Claim, Goto
  <2>2. /\ req[p].token \in Rows /\ req'[p].token = req[p].token
        /\ req'[p].pc \in {"commit", "revoke"} /\ req'[p].next \in Token \cup {req[p].next}
        /\ req'[p].pc = "commit" => req'[p].next \in Token
    BY <1>4, <1>0 DEF Claim, Goto, ReqRecord
  <2> QED
    BY <1>0, <1>b, <2>1, <2>2
<1>5. ASSUME NEW p \in Req, CommitRotation(p)
      PROVE  known' \subseteq Rows' /\ \A q \in Req : Holds(q)'
  <2>1. req[p].next \in Rows'
    <3>1. req[p].token \in Token /\ session[req[p].token] \in Row /\ req[p].next \in Token
      BY <1>5, <1>0 DEF CommitRotation, Rows, IInv, TypeOK
    <3>2. session[req[p].token].family \in Family
      BY <3>1 DEF Row
    <3>3. session' \in [Token -> Row \cup {NoRow}]
          /\ session'[req[p].next] = NewRow(session[req[p].token].family)
      BY <1>5, <3>1, TypeStep DEF CommitRotation, IInv, TypeOK
    <3> QED
      BY <3>1, <3>2, <3>3, InsertedRow DEF Rows
  <2>2. UNCHANGED known /\ \A q \in Req : q # p => req'[q] = req[q]
    BY <1>5, <1>0 DEF CommitRotation, Goto
  <2>3. req'[p] = [req[p] EXCEPT !.pc = "respond"] /\ req[p].token \in Rows
    BY <1>5, <1>0 DEF CommitRotation, Goto
  <2>4. req'[p].pc = "respond" /\ req'[p].token = req[p].token /\ req'[p].next = req[p].next
    BY <1>0, <2>3 DEF ReqRecord
  <2>5. Holds(p)'
    BY <1>0, <2>1, <2>3, <2>4
  <2> QED
    BY <1>0, <1>b, <2>2, <2>5
<1>6. ASSUME NEW p \in Req, Respond(p)
      PROVE  known' \subseteq Rows' /\ \A q \in Req : Holds(q)'
  BY <1>6, <1>0 DEF Respond, Done, IdleReq, ReqRecord
<1>7. ASSUME NEW p \in Req, RevokeSnapshot(p)
      PROVE  known' \subseteq Rows' /\ \A q \in Req : Holds(q)'
  <2>1. req'[p].token = req[p].token
        /\ req'[p].snapshot = FamilyRows(session[req[p].token].family)
        /\ req'[p].pc = "apply" /\ req[p].token \in Rows
    <3>1. req'[p] = [req[p] EXCEPT !.pc = "apply",
                       !.snapshot = FamilyRows(session[req[p].token].family)]
      BY <1>7, <1>0 DEF RevokeSnapshot
    <3> QED
      BY <1>7, <1>0, <3>1 DEF RevokeSnapshot, ReqRecord
  <2>2. UNCHANGED known /\ \A q \in Req : q # p => req'[q] = req[q]
    BY <1>7, <1>0 DEF RevokeSnapshot
  <2> QED
    BY <1>0, <2>1, <2>2
<1>8. CASE UNCHANGED <<req, known>>
  BY <1>8, <1>0
<1> QED
  BY <1>1, <1>2, <1>3, <1>4, <1>5, <1>6, <1>7, <1>8
     DEF Next, ReqStep, vars, ReadSession, RevokeRow, RevokeApply, Logout, RequestDies,
         Expire, Goto, Done

\* What a step does to the rows, the requests and the locks of rotations.
\* CommitRotation is the only step after which another row is rotatable
\* in a family that had one.
LEMMA CommitEffect ==
  ASSUME IInv, NEW p \in Req, CommitRotation(p)
  PROVE  /\ req[p].token \in Rows /\ req[p].next \in Token \ Rows
         /\ Rotatable(req[p].token) /\ lock[req[p].token] = p
         /\ session'[req[p].next] = NewRow(session[req[p].token].family)
         /\ session'[req[p].token] =
              [session[req[p].token] EXCEPT !.next = req[p].next, !.revoked = TRUE]
         /\ \A t \in Token : t \notin {req[p].token, req[p].next} => session'[t] = session[t]
         /\ Rows' = Rows \cup {req[p].next}
<1>1. /\ req[p].token \in Rows /\ req[p].next \in Token \ Rows
      /\ Rotatable(req[p].token) /\ lock[req[p].token] = p
  BY DEF IInv, CommitRotation, RequestsHaveRows, RotationsHoldTheirRow, Rows
<1>2. /\ session \in [Token -> Row \cup {NoRow}] /\ req[p].token # req[p].next
      /\ req[p].token \in Token /\ session[req[p].token] \in Row
  BY <1>1 DEF IInv, TypeOK, Rows
<1>3. /\ session'[req[p].next] = NewRow(session[req[p].token].family)
      /\ session'[req[p].token] =
           [session[req[p].token] EXCEPT !.next = req[p].next, !.revoked = TRUE]
      /\ \A t \in Token : t \notin {req[p].token, req[p].next} => session'[t] = session[t]
  BY <1>1, <1>2 DEF CommitRotation
<1>4. session'[req[p].next] # NoRow /\ session'[req[p].token] # NoRow
  <2>1. session[req[p].token].family \in Family
    BY <1>2 DEF Row
  <2>2. NoRow \notin Row
    BY NullAssumption DEF Row
  <2> QED
    <3>1. session'[req[p].next] # NoRow
      BY <1>3, <2>1, InsertedRow
    <3>2. session'[req[p].token] \in Row
      <4>1. req[p].next \in Token /\ session[req[p].token] \in Row
        BY <1>1, <1>2
      <4>2. [session[req[p].token] EXCEPT !.next = req[p].next, !.revoked = TRUE] \in Row
        BY <4>1, RotatedRow
      <4> QED
        BY <1>3, <4>2
    <3> QED
      BY <2>2, <3>1, <3>2
<1> QED
  BY <1>1, <1>3, <1>4 DEF Rows

\* The rows and locks of the rotations in flight survive a step.
LEMMA RotationsStep == IInv /\ [Next]_vars => RotationsHoldTheirRow'
<1> SUFFICES ASSUME IInv, [Next]_vars PROVE RotationsHoldTheirRow'
  OBVIOUS
<1> DEFINE Own(q) == /\ lock[req[q].token] = q
                     /\ Rotatable(req[q].token)
                     /\ session[req[q].next] = NoRow
<1>0. /\ session \in [Token -> Row \cup {NoRow}] /\ lock \in [Token -> Req \cup {NoReq}]
      /\ req \in [Req -> ReqRecord]
      /\ \A q \in Req : req[q].pc = "commit" => Own(q)
      /\ \A q, r \in Req : q # r /\ req[q].pc = "commit" /\ req[r].pc = "commit"
                              => req[q].next # req[r].next
      /\ \A q \in Req : req[q].pc = "commit" =>
           req[q].token \in Rows /\ req[q].token \in Token /\ req[q].next \in Token
  BY DEF IInv, TypeOK, RotationsHoldTheirRow, RequestsHaveRows, Rows
<1>1. ASSUME UNCHANGED <<session, lock>>,
             \A q \in Req : req'[q].pc = "commit" => req'[q] = req[q]
      PROVE  RotationsHoldTheirRow'
  BY <1>0, <1>1 DEF RotationsHoldTheirRow, Rotatable
<1>2. ASSUME NEW f \in Family, NEW t \in Token, IssueSession(f, t)
      PROVE  RotationsHoldTheirRow'
  <2>1. \A q \in Req : req[q].pc = "commit" => req[q].next # t /\ req[q].token # t
    BY <1>2, <1>0 DEF IssueSession, Fresh, Rows
  <2> QED
    BY <1>2, <1>0, <2>1 DEF IssueSession, RotationsHoldTheirRow, Rotatable
<1>3. ASSUME NEW p \in Req, Claim(p) PROVE RotationsHoldTheirRow'
  <2>1. CASE Rotatable(req[p].token)
    <3> DEFINE t == req[p].token
    <3>1. PICK n \in Token : /\ Fresh(n) /\ lock[t] = NoReq /\ session' = session
                             /\ req' = [req EXCEPT ![p].pc = "commit", ![p].next = n]
                             /\ lock' = [lock EXCEPT ![t] = p]
      BY <1>3, <2>1 DEF Claim
    <3>2. t \in Token
      BY <1>3 DEF Claim, IInv, RequestsHaveRows, Rows
    <3>3. /\ req'[p].token = t /\ req'[p].next = n /\ lock'[t] = p
          /\ \A q \in Req : q # p => req'[q] = req[q]
      <4>1. req'[p] = [req[p] EXCEPT !.pc = "commit", !.next = n]
        BY <1>0, <3>1
      <4> QED
        BY <1>0, <3>1, <3>2, <4>1 DEF ReqRecord
    <3>4. ASSUME NEW q \in Req, q # p, req[q].pc = "commit"
          PROVE  req[q].token # t /\ req[q].next # n
      BY <1>0, <3>1, <3>4, NullAssumption DEF Fresh
    <3>5. session[n] = NoRow
      BY <3>1 DEF Fresh
    <3> QED
      BY <1>0, <2>1, <3>1, <3>2, <3>3, <3>4, <3>5 DEF RotationsHoldTheirRow, Rotatable
  <2>2. CASE ~Rotatable(req[p].token)
    BY <1>3, <2>2, <1>1, <1>0 DEF Claim, Goto, ReqRecord
  <2> QED
    BY <2>1, <2>2
<1>4. ASSUME NEW p \in Req, CommitRotation(p) PROVE RotationsHoldTheirRow'
  <2>1. ASSUME NEW q \in Req, q # p, req[q].pc = "commit"
        PROVE  /\ req[q].token # req[p].token /\ req[q].next # req[p].next
               /\ req[q].token # req[p].next /\ req[q].next # req[p].token
    <3>1. req[p].pc = "commit"
      BY <1>4 DEF CommitRotation
    <3>2. /\ req[p].token \in Rows /\ req[p].next \notin Rows
      BY <1>4, CommitEffect
    <3>3. /\ req[q].token \in Rows /\ req[q].next \notin Rows
      BY <1>0, <2>1 DEF Rows
    <3>4. lock[req[p].token] = p /\ lock[req[q].token] = q
      BY <1>0, <2>1, <3>1
    <3>5. req[q].next # req[p].next
      BY <1>0, <2>1, <3>1
    <3> QED
      BY <2>1, <3>2, <3>3, <3>4, <3>5
  <2>2. \A q \in Req : req'[q].pc = "commit" => q # p /\ req'[q] = req[q]
    BY <1>0, <1>4 DEF CommitRotation, Goto, ReqRecord
  <2>3. ASSUME NEW q \in Req, q # p, req[q].pc = "commit"
        PROVE  /\ session'[req[q].token] = session[req[q].token]
               /\ session'[req[q].next] = session[req[q].next]
               /\ lock'[req[q].token] = lock[req[q].token]
    BY <1>0, <1>4, <2>1, <2>3, CommitEffect, ZenonT(30) DEF CommitRotation
  <2> QED
    BY <1>0, <2>2, <2>3 DEF RotationsHoldTheirRow, Rotatable
<1>5. ASSUME NEW p \in Req, RevokeApply(p) PROVE RotationsHoldTheirRow'
  <2>1. \A q \in Req : req'[q].pc = "commit" => req'[q] = req[q]
    BY <1>0, <1>5 DEF RevokeApply, Done, IdleReq
  <2>2. ASSUME NEW q \in Req, req[q].pc = "commit"
        PROVE  /\ session'[req[q].token] = session[req[q].token]
               /\ session'[req[q].next] = session[req[q].next]
    BY <1>0, <1>5, <2>2, NullAssumption
       DEF RevokeApply, IInv, RequestsHaveRows, FamilyRows, Rows
  <2>3. ASSUME NEW q \in Req, req[q].pc = "commit"
        PROVE  lock'[req[q].token] = lock[req[q].token]
    BY <1>0, <1>5, <2>3 DEF RevokeApply
  <2> QED
    BY <1>0, <2>1, <2>2, <2>3 DEF RotationsHoldTheirRow, Rotatable
<1>6. ASSUME NEW p \in Req, Logout(p) PROVE RotationsHoldTheirRow'
  <2>1. \A q \in Req : req'[q].pc = "commit" => req'[q] = req[q]
    BY <1>0, <1>6 DEF Logout, Done, IdleReq
  <2>2. ASSUME NEW q \in Req, req[q].pc = "commit"
        PROVE  /\ session'[req[q].token] = session[req[q].token]
               /\ session'[req[q].next] = session[req[q].next]
    BY <1>0, <1>6, <2>2, NullAssumption DEF Logout, IInv, RequestsHaveRows, Rows
  <2> QED
    <3>1. lock' = lock
      BY <1>6 DEF Logout
    <3> QED
      BY <1>0, <3>1, <2>1, <2>2 DEF RotationsHoldTheirRow, Rotatable
<1>7. ASSUME NEW p \in Req, RequestDies(p) PROVE RotationsHoldTheirRow'
  <2>1. \A q \in Req : req'[q].pc = "commit" => q # p /\ req'[q] = req[q]
    BY <1>0, <1>7 DEF RequestDies, Done, IdleReq
  <2>2. \A q \in Req : q # p /\ req[q].pc = "commit" => lock'[req[q].token] = q
    BY <1>0, <1>7 DEF RequestDies
  <2> QED
    BY <1>0, <1>7, <2>1, <2>2 DEF RequestDies, RotationsHoldTheirRow, Rotatable
<1>8. ASSUME NEW t \in Token, Expire(t) PROVE RotationsHoldTheirRow'
  <2>1. ASSUME NEW u \in Token
        PROVE  /\ session[u] = NoRow => session'[u] = NoRow
               /\ session[u] # NoRow /\ Rotatable(u) => Rotatable(u)'
    BY <1>0, <1>8 DEF Expire, Rotatable, Row
  <2> QED
    BY <1>0, <1>8, <2>1 DEF Expire, RotationsHoldTheirRow, Rows
<1>9. CASE \E p \in Req : ReadSession(p) \/ Respond(p) \/ RevokeSnapshot(p)
  BY <1>9, <1>0, <1>1 DEF ReadSession, Respond, RevokeSnapshot, Goto, Done, IdleReq, ReqRecord
<1>10. CASE \E p \in Req, t \in Token : Present(p, t) \/ StartLogout(p, t)
  <2>1. \A q \in Req : req'[q].pc = "commit" => req'[q] = req[q]
    <3> PICK p \in Req, t \in Token, pc \in {"read", "logout"} :
          req' = [req EXCEPT ![p].pc = pc, ![p].token = t]
      BY <1>10 DEF Present, StartLogout
    <3>1. req'[p] = [req[p] EXCEPT !.pc = pc, !.token = t]
      BY <1>0
    <3>2. req'[p].pc = pc
      BY <3>1, <1>0 DEF ReqRecord
    <3> QED
      BY <3>2, <1>0
  <2> QED
    BY <1>10, <1>1, <2>1 DEF Present, StartLogout
<1>11. CASE UNCHANGED vars
  BY <1>11, <1>1 DEF vars
<1>12. ASSUME NEW p \in Req, RevokeRow(p) PROVE RotationsHoldTheirRow'
  <2>1. ASSUME NEW q \in Req, req[q].pc = "commit"
        PROVE  lock'[req[q].token] = lock[req[q].token]
    BY <1>0, <1>12, <2>1, NullAssumption DEF RevokeRow
  <2>2. UNCHANGED <<session, req>>
    BY <1>12 DEF RevokeRow
  <2> QED
    BY <1>0, <2>1, <2>2 DEF RotationsHoldTheirRow, Rotatable
<1> QED
  BY <1>2, <1>3, <1>4, <1>5, <1>6, <1>7, <1>8, <1>9, <1>10, <1>11, <1>12 DEF Next, ReqStep

\* Only a new session and a commit make a row rotatable.
LEMMA RotatableStep ==
  ASSUME IInv, [Next]_vars,
         ~\E f \in Family, t \in Token : IssueSession(f, t),
         ~\E p \in Req : CommitRotation(p)
  PROVE  \A t \in Rows' : /\ t \in Rows
                          /\ session'[t].next = session[t].next
                          /\ Rotatable(t)' => Rotatable(t)
<1> SUFFICES ASSUME NEW t \in Rows'
             PROVE  t \in Rows /\ session'[t].next = session[t].next
                    /\ (Rotatable(t)' => Rotatable(t))
  OBVIOUS
<1>1. /\ t \in Token /\ session \in [Token -> Row \cup {NoRow}] /\ session'[t] # NoRow
      /\ \A p \in Req : req[p].pc = "apply" => req[p].snapshot \subseteq Rows
      /\ \A p \in Req : req[p].pc # "idle" => req[p].token \in Rows
  BY DEF IInv, TypeOK, Rows, RequestsHaveRows, FamilyRows
<1>2. CASE session'[t] = session[t]
  BY <1>1, <1>2 DEF Rotatable, Rows
<1>3. CASE t \in Rows /\ session'[t] = [session[t] EXCEPT !.revoked = TRUE]
  <2>1. session[t] \in Row
    BY <1>1, <1>3 DEF Rows
  <2> QED
    BY <1>3, <2>1, RevokedRow DEF Rotatable
<1>4. CASE t \in Rows /\ session'[t] = [session[t] EXCEPT !.expired = TRUE]
  BY <1>1, <1>4 DEF Rotatable, Row, Rows
<1>5. ASSUME NEW p \in Req, RevokeApply(p)
      PROVE  \/ session'[t] = session[t]
             \/ (t \in Rows /\ session'[t] = [session[t] EXCEPT !.revoked = TRUE])
  BY <1>1, <1>5 DEF RevokeApply
<1>6. ASSUME NEW p \in Req, Logout(p)
      PROVE  \/ session'[t] = session[t]
             \/ (t \in Rows /\ session'[t] = [session[t] EXCEPT !.revoked = TRUE])
  BY <1>1, <1>6 DEF Logout
<1>7. ASSUME NEW u \in Token, Expire(u)
      PROVE  \/ session'[t] = session[t]
             \/ (t \in Rows /\ session'[t] = [session[t] EXCEPT !.expired = TRUE])
  BY <1>1, <1>7 DEF Expire, Rows
<1>8. CASE session' = session
  BY <1>2, <1>8
<1> QED
  BY <1>2, <1>3, <1>4, <1>5, <1>6, <1>7, <1>8
     DEF Next, ReqStep, vars, Present, StartLogout, ReadSession, Claim, Respond,
         RevokeSnapshot, RevokeRow, RequestDies

\* A family does not fork.
LEMMA OneRotatableStep == IInv /\ [Next]_vars => AtMostOneRotatable'
<1> SUFFICES ASSUME IInv, [Next]_vars PROVE AtMostOneRotatable'
  OBVIOUS
<1>0. AtMostOneRotatable
  BY DEF IInv
<1>1. ASSUME NEW f \in Family, NEW t \in Token, IssueSession(f, t)
      PROVE  AtMostOneRotatable'
  <2>1. /\ session' = [session EXCEPT ![t] = NewRow(f)] /\ Rows' \subseteq Rows \cup {t}
        /\ \A u \in Rows : session[u].family # f /\ u # t
        /\ session'[t].family = f /\ \A u \in Rows : session'[u] = session[u]
    BY <1>1 DEF IssueSession, Fresh, FamilyRows, Rows, IInv, TypeOK, NewRow
  <2> QED
    BY <1>0, <2>1 DEF AtMostOneRotatable, Rotatable
<1>2. ASSUME NEW p \in Req, CommitRotation(p) PROVE AtMostOneRotatable'
  <2> PICK t \in Rows, n \in Token \ Rows : t = req[p].token /\ n = req[p].next
    BY <1>2, CommitEffect
  <2>1. /\ Rotatable(t) /\ Rows' = Rows \cup {n} /\ t \in Token
        /\ session'[n] = NewRow(session[t].family)
        /\ session'[t] = [session[t] EXCEPT !.next = n, !.revoked = TRUE]
        /\ \A u \in Rows : u # t => session'[u] = session[u]
    <3>1. \A u \in Token : u \notin {t, n} => session'[u] = session[u]
      BY <1>2, CommitEffect
    <3> QED
      BY <1>2, <3>1, CommitEffect DEF Rows
  <2>2. ~Rotatable(t)'
    <3>1. session[t] \in Row
      BY <2>1 DEF IInv, TypeOK, Rows
    <3>2. [session[t] EXCEPT !.next = n, !.revoked = TRUE].revoked
      BY <3>1, RotatedRow
    <3>3. session'[t].revoked
      BY <2>1, <3>2
    <3> QED
      BY <3>3 DEF Rotatable
  <2>3. session'[n].family = session[t].family
    BY <2>1 DEF NewRow
  <2>4. \A u \in Rows : Rotatable(u)' => u # t /\ Rotatable(u) /\ session'[u] = session[u]
    BY <2>1, <2>2 DEF Rotatable
  <2>5. \A u \in Rows : Rotatable(u)' => session'[u].family # session[t].family
    BY <1>0, <2>1, <2>4 DEF AtMostOneRotatable
  <2> QED
    BY <1>0, <2>1, <2>3, <2>4, <2>5 DEF AtMostOneRotatable
<1>3. CASE (~\E f \in Family, t \in Token : IssueSession(f, t))
           /\ (~\E p \in Req : CommitRotation(p))
  BY <1>0, <1>3, RotatableStep, RowStep DEF AtMostOneRotatable
<1> QED
  BY <1>1, <1>2, <1>3

\* Only Present adds an unanswered presentation, and it counts it.
LEMMA PresentingStep ==
  ASSUME IInv, [Next]_vars, NEW q \in Req, NEW t \in Token, Presenting(q, t)'
  PROVE  \/ Presenting(q, t) /\ ~\E u \in Token : Present(q, u)
         \/ Present(q, t) /\ presented'[t] = presented[t] + 1
<1> USE DEF Presenting
<1>0. req \in [Req -> ReqRecord] /\ presented \in [Token -> 0..MaxPresent]
  BY DEF IInv, TypeOK
<1>1. ASSUME NEW p \in Req, NEW u \in Token, Present(p, u), p # q
      PROVE  Presenting(q, t)
  <2>1. req'[q] = req[q]
    BY <1>0, <1>1 DEF Present
  <2> QED
    BY <2>1
<1>2. ASSUME NEW u \in Token, Present(q, u)
      PROVE  u = t /\ presented'[t] = presented[t] + 1
  <2>1. req'[q] = [req[q] EXCEPT !.pc = "read", !.token = u]
    BY <1>0, <1>2 DEF Present
  <2>2. req'[q].token = u
    BY <1>0, <2>1 DEF ReqRecord
  <2> QED
    BY <1>0, <1>2, <2>2 DEF Present
<1>3. ASSUME NEW p \in Req, NEW u \in Token, StartLogout(p, u) PROVE Presenting(q, t)
  <2>1. req'[p] = [req[p] EXCEPT !.pc = "logout", !.token = u]
    BY <1>0, <1>3 DEF StartLogout
  <2>2. req'[p].pc = "logout"
    BY <1>0, <2>1 DEF ReqRecord
  <2>3. q # p => req'[q] = req[q]
    BY <1>0, <1>3 DEF StartLogout
  <2> QED
    BY <2>2, <2>3
<1>4. ASSUME NEW p \in Req, Claim(p) PROVE Presenting(q, t)
  <2>1. req'[p].token = req[p].token /\ (q # p => req'[q] = req[q]) /\ req[p].pc = "claim"
    BY <1>0, <1>4 DEF Claim, Goto, ReqRecord
  <2> QED
    BY <2>1
<1>5. ASSUME NEW p \in Req,
             ReadSession(p) \/ CommitRotation(p) \/ Respond(p) \/ RevokeSnapshot(p)
             \/ RevokeRow(p) \/ RevokeApply(p) \/ Logout(p) \/ RequestDies(p)
      PROVE  Presenting(q, t)
  BY <1>0, <1>5 DEF ReadSession, CommitRotation, Respond, RevokeSnapshot, RevokeRow, RevokeApply,
     Logout, RequestDies, Goto, Done, IdleReq, ReqRecord
<1>6. ASSUME UNCHANGED req PROVE Presenting(q, t)
  BY <1>6
<1> QED
  <2>1. CASE \E u \in Token : Present(q, u)
    BY <1>2, <2>1
  <2>2. CASE ~\E u \in Token : Present(q, u)
    BY <1>1, <1>3, <1>4, <1>5, <1>6, <2>2
       DEF Next, ReqStep, vars, IssueSession, Expire
  <2> QED
    BY <2>1, <2>2

\* No step takes back a presentation, a logout or a revocation.
LEMMA HistoryStep ==
  ASSUME IInv, [Next]_vars
  PROVE  /\ \A t \in Token : presented'[t] >= presented[t]
         /\ loggedOut \subseteq loggedOut' /\ condemned \subseteq condemned'
<1>1. \A t \in Token : presented[t] \in Nat
  BY BoundAssumption DEF IInv, TypeOK
<1>2. ASSUME NEW p \in Req, NEW u \in Token, Present(p, u)
      PROVE  \A t \in Token : presented'[t] >= presented[t]
  BY <1>1, <1>2 DEF Present, IInv, TypeOK
<1>3. (\E p \in Req, u \in Token : Present(p, u)) \/ presented' = presented
  BY DEF Next, ReqStep, vars, IssueSession, StartLogout, ReadSession, Claim,
         CommitRotation, Respond, RevokeSnapshot, RevokeRow, RevokeApply, Logout, RequestDies,
         Expire
<1>4. loggedOut \subseteq loggedOut' /\ condemned \subseteq condemned'
  BY DEF Next, ReqStep, vars, IssueSession, Present, StartLogout, ReadSession, Claim,
         CommitRotation, Respond, RevokeSnapshot, RevokeRow, RevokeApply, Logout, RequestDies,
         Expire
<1> QED
  BY <1>1, <1>2, <1>3, <1>4

\* Each unanswered presentation keeps being counted apart from the others.
LEMMA CountStep == IInv /\ [Next]_vars => PresentationsCount'
<1> SUFFICES ASSUME IInv, [Next]_vars, NEW t \in Rows'
             PROVE  /\ session'[t].next # NoToken => presented'[t] >= 1
                    /\ \A p \in Req : Presenting(p, t)' =>
                         /\ presented'[t] >= 1
                         /\ session'[t].next # NoToken => presented'[t] >= 2
                         /\ \A q \in Req : q # p /\ Presenting(q, t)' => presented'[t] >= 2
  BY DEF PresentationsCount
<1>0. /\ t \in Token /\ presented[t] \in Nat /\ presented'[t] \in Nat
      /\ presented'[t] >= presented[t]
  BY HistoryStep, TypeStep, BoundAssumption DEF IInv, TypeOK, Rows
<1>1. t \in Rows =>
        /\ session[t].next # NoToken => presented[t] >= 1
        /\ \A p \in Req : Presenting(p, t) =>
             /\ presented[t] >= 1
             /\ session[t].next # NoToken => presented[t] >= 2
             /\ \A q \in Req : q # p /\ Presenting(q, t) => presented[t] >= 2
  BY DEF IInv, PresentationsCount
<1>2. ASSUME NEW p \in Req, Presenting(p, t)' PROVE t \in Rows
  <2>1. CASE Presenting(p, t)
    BY <2>1 DEF Presenting, IInv, RequestsHaveRows
  <2>2. CASE Present(p, t)
    BY <2>2 DEF Present, IInv, RequestsHaveRows
  <2> QED
    BY <1>0, <1>2, <2>1, <2>2, PresentingStep
<1>3. ASSUME NEW p \in Req, CommitRotation(p)
      PROVE  /\ Presenting(p, req[p].token)
             /\ ~Presenting(p, t)'
             /\ session'[t].next # NoToken /\ t # req[p].token =>
                  t \in Rows /\ session[t].next # NoToken
  <2>1. req[p].pc = "commit" /\ req'[p].pc = "respond"
    BY <1>3 DEF CommitRotation, Goto, IInv, TypeOK, ReqRecord
  <2>2. session'[req[p].next].next = NoToken
    <3>1. session'[req[p].next] = NewRow(session[req[p].token].family)
      BY <1>3, CommitEffect
    <3> QED
      BY <3>1 DEF NewRow
  <2>3. t \notin {req[p].token, req[p].next} => session'[t] = session[t]
    BY <1>0, <1>3, CommitEffect
  <2> QED
    BY <1>0, <2>1, <2>2, <2>3 DEF Presenting, Rows
<1>4. session'[t].next # NoToken =>
        \/ t \in Rows /\ session[t].next # NoToken
        \/ \E p \in Req : CommitRotation(p) /\ t = req[p].token
  <2>1. ASSUME NEW f \in Family, NEW u \in Token, IssueSession(f, u)
        PROVE  session'[t].next # NoToken => t \in Rows /\ session[t].next # NoToken
    BY <1>0, <2>1 DEF IssueSession, NewRow, Rows, IInv, TypeOK
  <2> QED
    BY <1>3, <2>1, RotatableStep
<1>5. session'[t].next # NoToken => presented[t] >= 1
  <2>1. ASSUME NEW p \in Req, CommitRotation(p), t = req[p].token PROVE presented[t] >= 1
    BY <1>1, <1>3, <2>1, CommitEffect
  <2> QED
    BY <1>1, <1>4, <2>1
<1>6. ASSUME NEW p \in Req, Presenting(p, t)'
      PROVE  /\ presented'[t] >= 1
             /\ session'[t].next # NoToken => presented'[t] >= 2
             /\ \A q \in Req : q # p /\ Presenting(q, t)' => presented'[t] >= 2
  <2>1. CASE Present(p, t) /\ presented'[t] = presented[t] + 1
    <3>1. ASSUME NEW q \in Req, q # p, Presenting(q, t)' PROVE Presenting(q, t)
      <4>1. req'[q] = req[q]
        BY <2>1, <3>1 DEF Present, IInv, TypeOK
      <4> QED
        BY <3>1, <4>1 DEF Presenting
    <3> QED
      BY <1>0, <1>1, <1>2, <1>5, <1>6, <2>1, <3>1
  <2>2. CASE Presenting(p, t) /\ ~\E u \in Token : Present(p, u)
    <3>1. presented[t] >= 1
      BY <1>1, <1>2, <1>6, <2>2
    <3>2. session'[t].next # NoToken => presented'[t] >= 2
      <4>1. ASSUME NEW r \in Req, CommitRotation(r), t = req[r].token
            PROVE  presented[t] >= 2
        BY <1>1, <1>2, <1>3, <1>6, <2>2, <4>1
      <4> QED
        BY <1>0, <1>1, <1>4, <2>2, <4>1
    <3>3. ASSUME NEW q \in Req, q # p, Presenting(q, t)' PROVE presented'[t] >= 2
      <4>1. CASE Presenting(q, t)
        BY <1>0, <1>1, <1>2, <1>6, <2>2, <3>3, <4>1
      <4>2. CASE presented'[t] = presented[t] + 1
        BY <1>0, <3>1, <4>2
      <4> QED
        BY <1>0, <3>3, <4>1, <4>2, PresentingStep
    <3> QED
      BY <1>0, <3>1, <3>2, <3>3
  <2> QED
    BY <1>0, <1>6, <2>1, <2>2, PresentingStep
<1> QED
  BY <1>0, <1>5, <1>6

\* A row that is revoked now was revoked for a reason that is still there.
LEMMA ReasonStep == IInv /\ [Next]_vars => RevokedForAReason'
<1> SUFFICES ASSUME IInv, [Next]_vars, NEW t \in Rows', session'[t].revoked
             PROVE  \/ session'[t].next # NoToken
                    \/ t \in loggedOut'
                    \/ session'[t].family \in condemned'
  BY DEF RevokedForAReason
<1>0. t \in Token /\ session \in [Token -> Row \cup {NoRow}]
  BY DEF IInv, TypeOK, Rows
<1>1. ASSUME t \in Rows, session[t].revoked
      PROVE  \/ session'[t].next # NoToken
             \/ t \in loggedOut'
             \/ session'[t].family \in condemned'
  BY <1>1, RowStep, HistoryStep DEF IInv, RevokedForAReason
<1>2. ASSUME NEW f \in Family, NEW u \in Token, IssueSession(f, u)
      PROVE  t \in Rows /\ session[t].revoked
  BY <1>0, <1>2 DEF IssueSession, NewRow, Rows
<1>3. ASSUME NEW p \in Req, CommitRotation(p)
      PROVE  (t \in Rows /\ session[t].revoked) \/ session'[t].next # NoToken
  <2>1. CASE t = req[p].token
    <3>0. /\ t \in Rows /\ req[p].next \in Token
          /\ session'[t] = [session[t] EXCEPT !.next = req[p].next, !.revoked = TRUE]
      BY <1>3, <2>1, CommitEffect
    <3>1. session[t] \in Row
      BY <3>0 DEF IInv, TypeOK, Rows
    <3>2. session'[t].next = req[p].next
      <4>1. [session[t] EXCEPT !.next = req[p].next, !.revoked = TRUE].next = req[p].next
        BY <3>0, <3>1, RotatedRow
      <4> QED
        BY <3>0, <4>1
    <3> QED
      BY <3>0, <3>2, NullAssumption
  <2>2. CASE t = req[p].next
    <3>1. session'[t] = NewRow(session[req[p].token].family)
      BY <1>3, <2>2, CommitEffect
    <3> QED
      BY <3>1 DEF NewRow
  <2>3. CASE t \notin {req[p].token, req[p].next}
    <3>1. session'[t] = session[t]
      BY <1>0, <1>3, <2>3, CommitEffect, ZenonT(30)
    <3> QED
      BY <1>0, <3>1 DEF Rows
  <2> QED
    BY <2>1, <2>2, <2>3
<1>4. ASSUME NEW p \in Req, RevokeApply(p)
      PROVE  (t \in Rows /\ session[t].revoked) \/ session'[t].family \in condemned'
  <2>1. CASE t \in req[p].snapshot
    <3>1. t \in Rows /\ session[t].family = session[req[p].token].family
      BY <1>4, <2>1 DEF RevokeApply, IInv, RequestsHaveRows, FamilyRows
    <3>2. session'[t].family = session[t].family
      BY <3>1, RowStep
    <3> QED
      BY <1>4, <3>1, <3>2 DEF RevokeApply
  <2>2. CASE t \notin req[p].snapshot
    BY <1>0, <1>4, <2>2 DEF RevokeApply, Rows
  <2> QED
    BY <2>1, <2>2
<1>5. ASSUME NEW p \in Req, Logout(p)
      PROVE  (t \in Rows /\ session[t].revoked) \/ t \in loggedOut'
  BY <1>0, <1>5 DEF Logout, Rows
<1>6. ASSUME NEW u \in Token, Expire(u) PROVE t \in Rows /\ session[t].revoked
  BY <1>0, <1>6 DEF Expire, Rows, Row
<1>7. ASSUME session' = session PROVE t \in Rows /\ session[t].revoked
  BY <1>7 DEF Rows
<1> QED
  BY <1>1, <1>2, <1>3, <1>4, <1>5, <1>6, <1>7
     DEF Next, ReqStep, vars, Present, StartLogout, ReadSession, Claim, Respond,
         RevokeSnapshot, RevokeRow, RequestDies

\* A request turns to the reuse path only by finding its row rotated or
\* revoked, which counting and reasons explain.
LEMMA AlarmStep == IInv /\ [Next]_vars => NoFalseAlarm'
<1> SUFFICES ASSUME IInv, [Next]_vars, NEW p \in Req, req'[p].pc \in {"revoke", "apply"}
             PROVE  \/ presented'[req'[p].token] > 1
                    \/ req'[p].token \in loggedOut'
                    \/ session'[req'[p].token].family \in condemned'
  BY DEF NoFalseAlarm
<1>0. /\ req \in [Req -> ReqRecord] /\ session \in [Token -> Row \cup {NoRow}]
      /\ req[p].pc # "idle" => req[p].token \in Rows /\ req[p].token \in Token
      /\ \A t \in Token : presented[t] \in Nat /\ presented'[t] \in Nat
  BY TypeStep, BoundAssumption DEF IInv, TypeOK, RequestsHaveRows, Rows
<1>1. ASSUME req'[p].token = req[p].token, req[p].token \in Rows, req[p].token \in Token,
             \/ presented[req[p].token] > 1
             \/ req[p].token \in loggedOut
             \/ session[req[p].token].family \in condemned
      PROVE  \/ presented'[req'[p].token] > 1
             \/ req'[p].token \in loggedOut'
             \/ session'[req'[p].token].family \in condemned'
  BY <1>0, <1>1, RowStep, HistoryStep
<1>2. CASE req'[p] = req[p]
  BY <1>0, <1>1, <1>2 DEF IInv, NoFalseAlarm
<1>3. ASSUME req[p].pc \in {"read", "claim"}, ~Rotatable(req[p].token)
      PROVE  \/ presented[req[p].token] > 1
             \/ req[p].token \in loggedOut
             \/ session[req[p].token].family \in condemned
  <2>1. Presenting(p, req[p].token) /\ req[p].token \in Rows /\ req[p].token \in Token
    BY <1>0, <1>3 DEF Presenting
  <2>2. CASE session[req[p].token].next # NoToken
    BY <1>0, <2>1, <2>2 DEF IInv, PresentationsCount
  <2>3. CASE session[req[p].token].revoked /\ session[req[p].token].next = NoToken
    BY <2>1, <2>3 DEF IInv, RevokedForAReason
  <2> QED
    BY <1>3, <2>2, <2>3 DEF Rotatable
<1>4. ASSUME NEW q \in Req, q # p,
             ReadSession(q) \/ Claim(q) \/ CommitRotation(q) \/ Respond(q) \/ RevokeSnapshot(q)
             \/ RevokeRow(q) \/ RevokeApply(q) \/ Logout(q) \/ RequestDies(q)
      PROVE  req'[p] = req[p]
  BY <1>0, <1>4 DEF ReadSession, Claim, CommitRotation, Respond, RevokeSnapshot, RevokeRow,
     RevokeApply, Logout, RequestDies, Goto, Done
<1>5. ASSUME NEW q \in Req, NEW t \in Token, Present(q, t) \/ StartLogout(q, t)
      PROVE  req'[p] = req[p]
  <2> PICK pc \in {"read", "logout"} : req' = [req EXCEPT ![q].pc = pc, ![q].token = t]
    BY <1>5 DEF Present, StartLogout
  <2>1. req'[q] = [req[q] EXCEPT !.pc = pc, !.token = t]
    BY <1>0
  <2>2. req'[q].pc = pc
    BY <1>0, <2>1 DEF ReqRecord
  <2> QED
    BY <1>0, <2>2
<1>6. CASE ReadSession(p) \/ Claim(p)
  <2>1. /\ req[p].pc \in {"read", "claim"} /\ ~Rotatable(req[p].token)
        /\ req' = [req EXCEPT ![p].pc = "revoke"]
    <3>1. CASE ReadSession(p)
      BY <1>0, <3>1 DEF ReadSession, Goto, Done, IdleReq, ReqRecord
    <3>2. CASE Claim(p)
      <4>1. CASE ~Rotatable(req[p].token)
        BY <3>2, <4>1 DEF Claim, Goto
      <4>2. CASE Rotatable(req[p].token)
        <5>1. PICK n \in Token : req' = [req EXCEPT ![p].pc = "commit", ![p].next = n]
          BY <3>2, <4>2 DEF Claim
        <5>2. req'[p] = [req[p] EXCEPT !.pc = "commit", !.next = n]
          BY <1>0, <5>1
        <5>3. req'[p].pc = "commit"
          BY <1>0, <5>2 DEF ReqRecord
        <5> QED
          BY <5>3
      <4> QED
        BY <4>1, <4>2
    <3> QED
      BY <1>6, <3>1, <3>2
  <2>2. req'[p].token = req[p].token /\ req[p].pc # "idle"
    BY <1>0, <2>1 DEF ReqRecord
  <2> QED
    BY <1>0, <1>1, <1>3, <2>1, <2>2
<1>7. CASE RevokeSnapshot(p)
  <2>1. req'[p] = [req[p] EXCEPT !.pc = "apply",
                     !.snapshot = FamilyRows(session[req[p].token].family)]
    BY <1>0, <1>7 DEF RevokeSnapshot
  <2>2. req'[p].token = req[p].token
    BY <1>0, <2>1 DEF ReqRecord
  <2>3. req[p].pc = "revoke"
    BY <1>7 DEF RevokeSnapshot
  <2> QED
    BY <1>0, <1>1, <2>2, <2>3 DEF IInv, NoFalseAlarm
<1>8. ASSUME CommitRotation(p) \/ Respond(p) \/ RevokeApply(p) \/ Logout(p) \/ RequestDies(p)
      PROVE  FALSE
  BY <1>0, <1>8 DEF CommitRotation, Respond, RevokeApply, Logout, RequestDies, Goto, Done,
     IdleReq, ReqRecord
<1>9. ASSUME UNCHANGED req PROVE req'[p] = req[p]
  BY <1>9
<1>10. ASSUME NEW q \in Req, RevokeRow(q) PROVE UNCHANGED req
  BY <1>10 DEF RevokeRow
<1> QED
  BY <1>2, <1>4, <1>5, <1>6, <1>7, <1>8, <1>9, <1>10
     DEF Next, ReqStep, vars, IssueSession, Expire

\* A step keeps the locks with the rotations that are about to commit and the
\* revocations that have changed the row.
LEMMA LockStep == IInv /\ [Next]_vars => LocksAreHeld'
<1> DEFINE Mine(r, t) == \/ r.pc = "commit" /\ r.token = t
                         \/ r.pc = "apply" /\ t \in r.snapshot
<1> SUFFICES ASSUME IInv, [Next]_vars, NEW t \in Token, lock'[t] # NoReq
             PROVE  Mine(req'[lock'[t]], t)
  BY DEF LocksAreHeld
<1>0. /\ lock \in [Token -> Req \cup {NoReq}] /\ req \in [Req -> ReqRecord]
      /\ \A p \in Req : req[p] \in ReqRecord
      /\ NoReq \notin Req
      /\ lock[t] # NoReq => lock[t] \in Req /\ Mine(req[lock[t]], t)
      /\ \A p \in Req : req[p].pc # "idle" => req[p].token \in Token
  BY NullAssumption DEF IInv, TypeOK, LocksAreHeld, RequestsHaveRows, Rows
<1> HIDE DEF Mine
<1>1. ASSUME lock'[t] = lock[t], req'[lock[t]] = req[lock[t]]
      PROVE  Mine(req'[lock'[t]], t)
  BY <1>0, <1>1 DEF Mine
<1>2. ASSUME NEW p \in Req, req[p].pc \notin {"commit", "apply"}, lock' = lock,
             \A q \in Req \ {p} : req'[q] = req[q]
      PROVE  Mine(req'[lock'[t]], t)
  <2>1. lock[t] # p
    BY <1>0, <1>2 DEF Mine
  <2> QED
    BY <1>0, <1>1, <1>2, <2>1
<1>3. ASSUME NEW p \in Req, Claim(p) PROVE Mine(req'[lock'[t]], t)
  <2>1. CASE ~Rotatable(req[p].token)
    BY <1>0, <1>2, <1>3, <2>1 DEF Claim, Goto
  <2>2. CASE Rotatable(req[p].token)
    <3>1. PICK n \in Token : /\ req' = [req EXCEPT ![p].pc = "commit", ![p].next = n]
                             /\ lock' = [lock EXCEPT ![req[p].token] = p]
      BY <1>3, <2>2 DEF Claim
    <3>2. req'[p].pc = "commit" /\ req'[p].token = req[p].token
      BY <1>0, <3>1 DEF ReqRecord
    <3>3. CASE t = req[p].token
      <4>1. lock'[t] = p
        BY <1>0, <3>1, <3>3
      <4> QED
        BY <3>2, <3>3, <4>1 DEF Mine
    <3>4. CASE t # req[p].token
      <4>1. lock'[t] = lock[t]
        BY <1>0, <3>1, <3>4
      <4>2. lock[t] # p
        BY <1>0, <1>3, <4>1 DEF Claim, Mine
      <4> QED
        BY <1>0, <1>1, <3>1, <4>1, <4>2
    <3> QED
      BY <3>3, <3>4
  <2> QED
    BY <2>1, <2>2
<1>4. ASSUME NEW p \in Req, CommitRotation(p) \/ RevokeApply(p) \/ RequestDies(p)
      PROVE  Mine(req'[lock'[t]], t)
  <2>1. \A q \in Req \ {p} : req'[q] = req[q]
    BY <1>0, <1>4 DEF CommitRotation, RevokeApply, RequestDies, Goto, Done
  <2>2. lock'[t] = lock[t] /\ lock[t] # p
    <3>1. CASE CommitRotation(p)
      BY <1>0, <3>1 DEF CommitRotation, Mine
    <3>2. CASE RevokeApply(p)
      BY <1>0, <3>2 DEF RevokeApply, Mine
    <3>3. CASE RequestDies(p)
      BY <1>0, <3>3 DEF RequestDies
    <3> QED
      BY <1>4, <3>1, <3>2, <3>3
  <2> QED
    BY <1>0, <1>1, <2>1, <2>2
<1>5. ASSUME NEW p \in Req, \/ ReadSession(p) \/ Respond(p) \/ RevokeSnapshot(p) \/ Logout(p)
                            \/ \E u \in Token : Present(p, u) \/ StartLogout(p, u)
      PROVE  Mine(req'[lock'[t]], t)
  <2>1. req[p].pc \notin {"commit", "apply"} /\ lock' = lock
    BY <1>5 DEF ReadSession, Respond, RevokeSnapshot, Logout, Present, StartLogout
  <2>2. \A q \in Req \ {p} : req'[q] = req[q]
    BY <1>0, <1>5 DEF ReadSession, Respond, RevokeSnapshot, Logout, Present, StartLogout,
                      Goto, Done
  <2> QED
    BY <1>2, <2>1, <2>2
<1>6. ASSUME NEW p \in Req, RevokeRow(p) PROVE Mine(req'[lock'[t]], t)
  <2>1. PICK u \in req[p].snapshot : lock' = [lock EXCEPT ![u] = p]
    BY <1>6 DEF RevokeRow
  <2>2. req' = req /\ req[p].pc = "apply"
    BY <1>6 DEF RevokeRow
  <2>3. CASE t = u
    <3>1. lock'[t] = p
      BY <1>0, <2>1, <2>3
    <3> QED
      BY <2>1, <2>2, <2>3, <3>1 DEF Mine
  <2>4. CASE t # u
    BY <1>0, <1>1, <2>1, <2>2, <2>4
  <2> QED
    BY <2>3, <2>4
<1>7. CASE \/ \E f \in Family, u \in Token : IssueSession(f, u)
           \/ \E u \in Token : Expire(u)
           \/ UNCHANGED vars
  BY <1>1, <1>7 DEF IssueSession, Expire, vars
<1> QED
  BY <1>3, <1>4, <1>5, <1>6, <1>7 DEF Next, ReqStep

\* IInv is an invariant of SessionFamily.
THEOREM Inductive == Spec => []IInv
<1>1. Init => IInv
  BY InitIInv
<1>2. IInv /\ [Next]_vars => IInv'
  BY TypeStep, HaveRowsStep, RotationsStep, OneRotatableStep, CountStep, ReasonStep,
     AlarmStep, LockStep
     DEF IInv
<1> QED
  BY <1>1, <1>2, PTL DEF Spec

\* The variables keep their types (SessionFamily's type invariant).
THEOREM TypeCorrect == Spec => []TypeOK
BY Inductive, PTL DEF IInv

\* Rotation never forks a family: refresh() by any number of concurrent
\* requests, reuse detection, logout and crashes leave at most one row of it
\* that can be rotated.
THEOREM FamilyIsLinear == Spec => []AtMostOneRotatable
BY Inductive, PTL DEF IInv

\* refresh() answers "reuse" only for a token presented before, or one whose
\* session or family had been ended.
THEOREM AlarmsAreJustified == Spec => []NoFalseAlarm
BY Inductive, PTL DEF IInv

\* No statement of refresh(), revokeFamily() or logout() gives a row a second
\* successor or un-revokes it.
THEOREM RotationHappensOnce == Spec => RotationIsFinal
<1> DEFINE Final == \A t \in Rows :
              /\ session[t].next # NoToken => session'[t].next = session[t].next
              /\ session[t].revoked => session'[t].revoked
<1>1. IInv /\ [Next]_vars => [Final]_vars
  BY RowStep
<1> QED
  BY <1>1, Inductive, PTL DEF Spec, RotationIsFinal

\* Who waits in a circle holds a row and wants another, which only revokeFamily
\* does; the row it wants is one of the family of whoever has it.
THEOREM OnlyRevocationsWaitInCircles == Spec => []OnlyRevocationsDeadlock
<1>1. IInv => OnlyRevocationsDeadlock
  <2> SUFFICES ASSUME IInv, NEW D \in SUBSET Req, Deadlocked(D), NEW p \in D
               PROVE  /\ req[p].pc = "apply"
                      /\ \A q \in D : WaitsFor(p, q) =>
                           session[req[p].token].family = session[req[q].token].family
    BY DEF OnlyRevocationsDeadlock
  <2>1. ASSUME NEW q \in D, NEW r \in D, WaitsFor(q, r)
        PROVE  /\ req[q].pc # "commit" /\ req[r].pc \in {"commit", "apply"}
               /\ req[q].pc = "apply" /\ req[r].pc = "apply" =>
                    session[req[q].token].family = session[req[r].token].family
    <3>1. PICK t \in Wanted(q) : lock[t] = r
      BY <2>1 DEF WaitsFor
    <3>2. /\ req[q].pc \in {"claim", "logout", "apply"}
          /\ req[q].pc = "apply" => t \in req[q].snapshot
      BY <3>1 DEF Wanted
    <3>3. t \in Token /\ lock[t] # NoReq
      <4>1. t \in Token
        BY <3>1 DEF Wanted, IInv, TypeOK, RequestsHaveRows, FamilyRows, Rows
      <4> QED
        BY <2>1, <3>1, <4>1, NullAssumption
    <3>4. \/ req[r].pc = "commit" /\ req[r].token = t
          \/ req[r].pc = "apply" /\ t \in req[r].snapshot
      BY <3>1, <3>3 DEF IInv, LocksAreHeld
    <3>5. ASSUME req[q].pc = "apply", req[r].pc = "apply"
          PROVE  session[req[q].token].family = session[req[r].token].family
      <4>1. t \in FamilyRows(session[req[q].token].family)
        BY <2>1, <3>2, <3>5 DEF IInv, RequestsHaveRows
      <4>2. t \in FamilyRows(session[req[r].token].family)
        BY <2>1, <3>4, <3>5 DEF IInv, RequestsHaveRows
      <4> QED
        BY <4>1, <4>2 DEF FamilyRows
    <3> QED
      BY <3>2, <3>4, <3>5
  <2>2. PICK q \in D, r \in D : WaitsFor(p, q) /\ WaitsFor(r, p)
    BY DEF Deadlocked
  <2>3. \A u \in D : WaitsFor(p, u) => req[u].pc = "apply"
    <3> SUFFICES ASSUME NEW u \in D, WaitsFor(p, u) PROVE req[u].pc = "apply"
      OBVIOUS
    <3>1. PICK w \in D : WaitsFor(u, w)
      BY DEF Deadlocked
    <3> QED
      BY <2>1, <3>1
  <2> QED
    BY <2>1, <2>2, <2>3
<1> QED
  BY <1>1, Inductive, PTL

-----------------------------------------------------------------------------
(* The web app's side of a session *)

\* A request in progress is one that a state of progress is given to.
LEMMA IdleIsNotHandling == Idle \notin Handling /\ \A h \in Handling : h.pc # "idle" /\ h # Idle
<1>1. \A h \in Handling : h.pc # "idle"
  BY DEF Handling
<1>2. Idle.pc = "idle"
  BY DEF Idle
<1> QED
  BY <1>1, <1>2

LEMMA InProgressIsBusy ==
  ASSUME WebTypeOK, NEW r \in Request
  PROVE  /\ request[r].pc # "idle" => r \in Busy
         /\ r \in Busy => request[r] \in Handling
<1>1. Idle.pc = "idle"
  BY DEF Idle
<1>2. request[r] \in Handling \cup {Idle}
  BY DEF WebTypeOK
<1>3. request[r].pc # "idle" => request[r] # Idle
  BY <1>1
<1> QED
  BY <1>2, <1>3 DEF Busy

LEMMA ProgressChanges ==
  ASSUME WebTypeOK, NEW r \in Request, NEW h \in Handling,
         request' = [request EXCEPT ![r] = h]
  PROVE  /\ Busy' = Busy \cup {r} /\ request'[r] = h
         /\ \A q \in Request \ {r} : request'[q] = request[q]
         /\ request' \in [Request -> Handling \cup {Idle}]
         /\ \A l \in Login : Of(l)' = (Of(l) \ {r}) \cup (IF h.login = l THEN {r} ELSE {})
<1>1. /\ request'[r] = h
      /\ \A q \in Request \ {r} : request'[q] = request[q]
      /\ request' \in [Request -> Handling \cup {Idle}]
  BY DEF WebTypeOK
<1>2. Busy' = Busy \cup {r}
  BY <1>1, IdleIsNotHandling DEF Busy
<1>3. ASSUME NEW l \in Login
      PROVE  Of(l)' = (Of(l) \ {r}) \cup (IF h.login = l THEN {r} ELSE {})
  <2>1. \A q \in Busy : q \in Request
    BY DEF Busy
  <2> QED
    BY <1>1, <1>2, <2>1 DEF Of
<1> QED
  BY <1>1, <1>2, <1>3

LEMMA ProgressEnds ==
  ASSUME WebTypeOK, NEW r \in Request, request' = [request EXCEPT ![r] = Idle]
  PROVE  /\ Busy' = Busy \ {r}
         /\ \A q \in Request \ {r} : request'[q] = request[q]
         /\ request' \in [Request -> Handling \cup {Idle}]
         /\ \A l \in Login : Of(l)' = Of(l) \ {r}
<1>1. /\ request'[r] = Idle
      /\ \A q \in Request \ {r} : request'[q] = request[q]
      /\ request' \in [Request -> Handling \cup {Idle}]
  BY DEF WebTypeOK
<1>2. Busy' = Busy \ {r}
  BY <1>1 DEF Busy
<1>3. ASSUME NEW l \in Login PROVE Of(l)' = Of(l) \ {r}
  <2>1. \A q \in Busy : q \in Request
    BY DEF Busy
  <2> QED
    BY <1>1, <1>2, <2>1 DEF Of
<1> QED
  BY <1>1, <1>2, <1>3

\* The initial state.
LEMMA WebInitHolds == WebInit => WebIInv
<1> SUFFICES ASSUME WebInit PROVE WebIInv
  OBVIOUS
<1>1. Busy = {}
  BY DEF WebInit, Busy
<1>2. WebTypeOK
  BY WebAssumption DEF WebInit, WebTypeOK
<1> QED
  BY <1>1, <1>2
     DEF WebInit, WebIInv, SessionsWereOpened, UndisturbedIsAlone, CookiesFollowRequests,
         LatestTokenIsKept

\* A request begins with what the cookies are, and excuses what it overlaps.
LEMMA BeginHolds ==
  ASSUME WebIInv, NEW r \in Request, NEW pc \in {"renew", "renewOut", "logout", "clear"},
         cookies # NoCookies, Begin(r, pc, cookies.login, cookies.token),
         excused \cup Overlapping(cookies.login) \subseteq excused', excused' \subseteq Login,
         pc = "clear" => cookies.login \in excused',
         UNCHANGED <<cookies, server, live, over>>
  PROVE  WebIInv'
<1>1. PICK h \in Handling : h = [pc |-> pc, login |-> cookies.login, token |-> cookies.token]
  BY DEF WebIInv, WebTypeOK, Cookies, Handling
<1>2. h.login = cookies.login /\ h.token = cookies.token /\ h.pc = pc /\ cookies.login \in Login
  BY <1>1 DEF WebIInv, WebTypeOK, Cookies
<1>3. /\ Busy' = Busy \cup {r} /\ request'[r] = h /\ r \notin Busy
      /\ \A q \in Request \ {r} : request'[q] = request[q]
      /\ request' \in [Request -> Handling \cup {Idle}]
      /\ \A l \in Login : Of(l)' = (Of(l) \ {r}) \cup (IF h.login = l THEN {r} ELSE {})
  BY <1>1, ProgressChanges DEF WebIInv, Begin, Busy
<1>4. Busy \subseteq Request \ {r} /\ \A q \in Busy : request'[q] = request[q]
  BY <1>3 DEF Busy
<1>5. WebTypeOK'
  BY <1>3 DEF WebIInv, WebTypeOK, Cookies
<1>6. SessionsWereOpened'
  BY <1>2, <1>3, <1>4 DEF WebIInv, SessionsWereOpened
<1>7. Busy # {} => cookies.login \in excused' /\ \A q \in Busy : request[q].login \in excused'
  BY DEF Overlapping
<1>8. UndisturbedIsAlone'
  BY <1>2, <1>3, <1>4, <1>7 DEF UndisturbedIsAlone
<1>9. CookiesFollowRequests'
  BY <1>2, <1>3, <1>4 DEF WebIInv, CookiesFollowRequests
<1>10. LatestTokenIsKept'
  <2> SUFFICES ASSUME NEW l \in live \ excused'
               PROVE  /\ \A q \in Of(l)' : request'[q].pc # "clear" /\ request'[q].token = server[l]
                      /\ Of(l)' = {} => cookies # NoCookies /\ cookies.login = l /\ cookies.token = server[l]
    BY DEF LatestTokenIsKept
  <2>1. l \in live \ excused /\ l \in Login
    BY DEF WebIInv, WebTypeOK
  <2>2. Of(l) = {} \/ Busy # {}
    BY DEF Of
  <2>3. Of(l) = {}
    BY <1>7 DEF Of
  <2>4. cookies.login = l /\ cookies.token = server[l]
    BY <2>1, <2>3 DEF WebIInv, LatestTokenIsKept
  <2> QED
    BY <1>2, <1>3, <2>3, <2>4
<1> QED
  BY <1>5, <1>6, <1>8, <1>9, <1>10 DEF WebIInv

\* A login opens a session, whatever the cookies are of.
LEMMA OpenSessionHolds ==
  ASSUME WebIInv, NEW r \in Request, NEW l \in Login, OpenSession(r, l)
  PROVE  WebIInv'
<1>1. PICK h \in Handling : h = [pc |-> "set", login |-> l, token |-> 1]
  <2>1. 1 \in 1..MaxTokens
    BY WebAssumption
  <2> QED
    BY <2>1 DEF Handling
<1>2. h.login = l /\ h.token = 1 /\ h.pc = "set"
  BY <1>1
<1>3. /\ Busy' = Busy \cup {r} /\ request'[r] = h /\ r \notin Busy
      /\ \A q \in Request \ {r} : request'[q] = request[q]
      /\ request' \in [Request -> Handling \cup {Idle}]
      /\ \A k \in Login : Of(k)' = (Of(k) \ {r}) \cup (IF h.login = k THEN {r} ELSE {})
  BY <1>1, ProgressChanges DEF WebIInv, OpenSession, Begin, Busy
<1>4. Busy \subseteq Request \ {r} /\ \A q \in Busy : request'[q] = request[q]
  BY <1>3 DEF Busy
<1>5. \A q \in Busy : request[q] \in Handling /\ request[q].login \in Login /\ request[q].login # l
  BY InProgressIsBusy DEF WebIInv, SessionsWereOpened, OpenSession, Busy, Handling
<1>6. WebTypeOK'
  <2>1. 1 \in 0..MaxTokens
    BY WebAssumption
  <2>2. Overlapping(l) \subseteq Login
    BY <1>5 DEF Overlapping
  <2> QED
    BY <1>3, <2>1, <2>2 DEF WebIInv, WebTypeOK, OpenSession, Cookies
<1>7. /\ server' = [server EXCEPT ![l] = 1] /\ server'[l] = 1 /\ server[l] = 0
      /\ \A k \in Login \ {l} : server'[k] = server[k]
  BY DEF OpenSession, WebIInv, WebTypeOK
<1>8. /\ live' = live \cup {l} /\ excused' = excused \cup Overlapping(l)
      /\ UNCHANGED <<cookies, over>>
  BY DEF OpenSession
<1>9. SessionsWereOpened'
  <2>1. cookies # NoCookies => cookies.login \in Login
    BY DEF WebIInv, WebTypeOK, Cookies
  <2> QED
    BY <1>2, <1>3, <1>4, <1>5, <1>7, <1>8, <2>1 DEF WebIInv, WebTypeOK, SessionsWereOpened
<1>10. Busy # {} => l \in excused' /\ \A q \in Busy : request[q].login \in excused'
  BY <1>8 DEF Overlapping
<1>11. UndisturbedIsAlone'
  BY <1>2, <1>3, <1>4, <1>10 DEF UndisturbedIsAlone
<1>12. CookiesFollowRequests'
  BY <1>2, <1>3, <1>4, <1>8 DEF WebIInv, CookiesFollowRequests
<1>13. LatestTokenIsKept'
  <2> SUFFICES ASSUME NEW k \in live' \ excused'
               PROVE  /\ \A q \in Of(k)' : request'[q].pc # "clear" /\ request'[q].token = server'[k]
                      /\ Of(k)' = {} => cookies # NoCookies /\ cookies.login = k /\ cookies.token = server'[k]
    BY <1>8 DEF LatestTokenIsKept
  <2>1. Of(k) = {} /\ k \in Login
    BY <1>8, <1>10 DEF Of, WebIInv, WebTypeOK
  <2>2. CASE k = l
    BY <1>2, <1>3, <1>7, <2>1, <2>2
  <2>3. CASE k # l
    <3>1. k \in live \ excused
      BY <1>8, <2>3
    <3>2. cookies # NoCookies /\ cookies.login = k /\ cookies.token = server[k]
      BY <2>1, <3>1 DEF WebIInv, LatestTokenIsKept
    <3> QED
      BY <1>2, <1>3, <1>7, <2>1, <2>3, <3>2
  <2> QED
    BY <2>2, <2>3
<1> QED
  BY <1>6, <1>9, <1>11, <1>12, <1>13 DEF WebIInv

\* A request goes on: at most its own session is changed, and if that one is
\* still undisturbed, the request has its latest token.
LEMMA TurnHolds ==
  ASSUME WebIInv, NEW r \in Busy, NEW h \in Handling, NEW l \in Login,
         l = request[r].login, h.login = l,
         request' = [request EXCEPT ![r] = h], UNCHANGED cookies,
         ~(request[r].pc = "set" /\ request[r].token = 1),
         server' \in [Login -> 0..MaxTokens], server'[l] > 0,
         \A k \in Login \ {l} : server'[k] = server[k],
         live' \subseteq live, live \ {l} \subseteq live', l \notin live' => l \in over' \cup excused',
         over \subseteq over', over' \subseteq Login,
         excused \subseteq excused', excused' \subseteq Login,
         l \in live' \ excused' => h.pc # "clear" /\ h.token = server'[l]
  PROVE  WebIInv'
<1>1. r \in Request
  BY DEF Busy
<1>2. /\ Busy' = Busy /\ request'[r] = h
      /\ \A q \in Request \ {r} : request'[q] = request[q]
      /\ request' \in [Request -> Handling \cup {Idle}]
      /\ \A k \in Login : Of(k)' = (Of(k) \ {r}) \cup (IF h.login = k THEN {r} ELSE {})
  <2>1. WebTypeOK
    BY DEF WebIInv
  <2>2. Busy' = Busy \cup {r} /\ request'[r] = h
    BY <1>1, <2>1, ProgressChanges
  <2>3. /\ \A q \in Request \ {r} : request'[q] = request[q]
        /\ request' \in [Request -> Handling \cup {Idle}]
        /\ \A k \in Login : Of(k)' = (Of(k) \ {r}) \cup (IF h.login = k THEN {r} ELSE {})
    BY <1>1, <2>1, ProgressChanges
  <2> QED
    BY <2>2, <2>3
<1>3. Busy \subseteq Request /\ \A q \in Busy : request'[q].login = request[q].login
  BY <1>1, <1>2 DEF Busy
<1>4. \A q \in Busy : request[q].login \in Login
  BY <1>3, InProgressIsBusy DEF WebIInv, Handling
<1>5. WebTypeOK'
  BY <1>2 DEF WebIInv, WebTypeOK, Cookies
<1>6. SessionsWereOpened'
  <2>1. cookies # NoCookies => cookies.login \in Login
    BY DEF WebIInv, WebTypeOK, Cookies
  <2>2. \A k \in Login : server[k] > 0 => server'[k] > 0
    OBVIOUS
  <2>3. /\ cookies' # NoCookies => server'[cookies'.login] > 0
        /\ \A q \in Busy' : server'[request'[q].login] > 0
        /\ \A k \in live' : server'[k] > 0
    BY <1>2, <1>3, <1>4, <2>1, <2>2 DEF WebIInv, WebTypeOK, SessionsWereOpened
  <2>4. ASSUME NEW k \in Login, server'[k] > 0, k \notin live' PROVE k \in over' \cup excused'
    BY <2>4 DEF WebIInv, SessionsWereOpened
  <2> QED
    BY <2>3, <2>4 DEF SessionsWereOpened
<1>7. UndisturbedIsAlone'
  BY <1>2, <1>3 DEF WebIInv, UndisturbedIsAlone
<1>8. CookiesFollowRequests'
  BY <1>1, <1>2, <1>3 DEF WebIInv, CookiesFollowRequests
<1>9. LatestTokenIsKept'
  <2> SUFFICES ASSUME NEW k \in live' \ excused'
               PROVE  /\ \A q \in Of(k)' : request'[q].pc # "clear" /\ request'[q].token = server'[k]
                      /\ Of(k)' = {} => cookies # NoCookies /\ cookies.login = k /\ cookies.token = server'[k]
    BY DEF LatestTokenIsKept
  <2>1. k \in live \ excused /\ k \in Login
    BY DEF WebIInv, WebTypeOK
  <2>2. CASE k = l
    <3>1. Busy = {r} /\ Of(k)' = {r}
      BY <1>2, <2>1, <2>2 DEF WebIInv, UndisturbedIsAlone, Of
    <3> QED
      BY <1>2, <2>2, <3>1
  <2>3. CASE k # l
    <3>1. Of(k)' = Of(k) /\ r \notin Of(k) /\ Of(k) \subseteq Request
      BY <1>2, <1>3, <2>1, <2>3 DEF Of
    <3> QED
      BY <1>2, <2>1, <2>3, <3>1 DEF WebIInv, LatestTokenIsKept
  <2> QED
    BY <2>2, <2>3
<1> QED
  BY <1>5, <1>6, <1>7, <1>8, <1>9 DEF WebIInv

\* What a request is of, and what it has if nothing interfered.
LEMMA RequestFacts ==
  ASSUME WebIInv, NEW r \in Request, request[r].pc # "idle"
  PROVE  /\ r \in Busy /\ request[r] \in Handling /\ request[r].login \in Login
         /\ server[request[r].login] > 0
         /\ request[r].login \in live \ excused =>
              request[r].pc # "clear" /\ request[r].token = server[request[r].login]
         /\ request[r].login \notin live => request[r].login \in over \cup excused
<1>1. r \in Busy /\ request[r] \in Handling
  BY InProgressIsBusy DEF WebIInv
<1>2. request[r].login \in Login
  BY <1>1 DEF Handling
<1>3. server[request[r].login] > 0
      /\ (request[r].login \notin live => request[r].login \in over \cup excused)
  BY <1>1, <1>2 DEF WebIInv, SessionsWereOpened
<1>4. r \in Of(request[r].login)
  BY <1>1 DEF Of
<1>5. request[r].login \in live \ excused =>
        request[r].pc # "clear" /\ request[r].token = server[request[r].login]
  BY <1>4 DEF WebIInv, LatestTokenIsKept
<1> QED
  BY <1>1, <1>2, <1>3, <1>5

LEMMA RotateHolds == ASSUME WebIInv, NEW r \in Request, Rotate(r) PROVE WebIInv'
<1>1. PICK l \in Login : l = request[r].login
  BY RequestFacts DEF Rotate
<1>2. /\ r \in Busy /\ request[r] \in Handling /\ request[r].pc \in {"renew", "renewOut"}
      /\ l \in live /\ request[r].token = server[l] /\ server[l] < MaxTokens /\ server[l] \in 1..MaxTokens
  BY <1>1, RequestFacts DEF Rotate, Handling
<1>3. PICK h \in Handling :
        h = [request[r] EXCEPT !.token = @ + 1, !.pc = IF @ = "renew" THEN "set" ELSE "logout"]
  <2>1. server[l] + 1 \in 1..MaxTokens
    BY <1>2, WebAssumption
  <2> QED
    BY <1>2, <2>1 DEF Handling
<1>4. /\ h.pc # "clear" /\ h.login = l /\ h.token = server[l] + 1
      /\ request' = [request EXCEPT ![r] = h]
  BY <1>1, <1>2, <1>3 DEF Rotate, Handling, WebIInv, WebTypeOK
<1>5. /\ server' \in [Login -> 0..MaxTokens] /\ server'[l] = server[l] + 1 /\ server'[l] > 0
      /\ \A k \in Login \ {l} : server'[k] = server[k]
  <2>1. server[l] + 1 \in 0..MaxTokens /\ server[l] + 1 > 0
    BY <1>2, WebAssumption
  <2> QED
    BY <1>1, <2>1 DEF Rotate, WebIInv, WebTypeOK
<1>6. UNCHANGED <<cookies, live, over, excused>>
  BY DEF Rotate
<1> QED
  BY <1>1, <1>2, <1>4, <1>5, <1>6, TurnHolds DEF WebIInv, WebTypeOK

\* A request that will have the cookies deleted.
LEMMA ToClear ==
  ASSUME WebIInv, NEW r \in Request, request[r].pc # "idle", Turn(r, "clear")
  PROVE  \E h \in Handling : /\ h.pc = "clear" /\ h.login = request[r].login
                             /\ request' = [request EXCEPT ![r] = h]
<1>1. PICK h \in Handling : h = [request[r] EXCEPT !.pc = "clear"]
  BY RequestFacts DEF Handling
<1>2. request[r] \in Handling
  BY RequestFacts
<1> QED
  BY <1>1, <1>2 DEF Handling, Turn, WebIInv, WebTypeOK

LEMMA ClearHolds ==
  ASSUME WebIInv, NEW r \in Request, request[r].pc # "idle", Turn(r, "clear"),
         ~(request[r].pc = "set" /\ request[r].token = 1),
         UNCHANGED <<cookies, server>>, live \ {request[r].login} \subseteq live', live' \subseteq live,
         over \subseteq over', over' \subseteq over \cup {request[r].login},
         excused \subseteq excused', excused' \subseteq excused \cup {request[r].login},
         request[r].login \notin live' \ excused',
         request[r].login \in live \ live' => request[r].login \in over' \cup excused'
  PROVE  WebIInv'
<1>1. PICK l \in Login : l = request[r].login
  BY RequestFacts
<1>2. PICK h \in Handling : h.pc = "clear" /\ h.login = l /\ request' = [request EXCEPT ![r] = h]
  BY <1>1, ToClear
<1>3. r \in Busy /\ server'[l] > 0 /\ l \notin live' => l \in over' \cup excused'
  BY <1>1, RequestFacts
<1>4. server' \in [Login -> 0..MaxTokens] /\ over' \subseteq Login /\ excused' \subseteq Login
      /\ \A k \in Login \ {l} : server'[k] = server[k]
  BY <1>1 DEF WebIInv, WebTypeOK
<1>5. r \in Busy /\ server'[l] > 0
  BY <1>1, RequestFacts
<1> QED
  BY <1>1, <1>2, <1>3, <1>4, <1>5, TurnHolds

LEMMA RefuseHolds == ASSUME WebIInv, NEW r \in Request, Refuse(r) PROVE WebIInv'
<1>1. PICK l \in Login : l = request[r].login
  BY RequestFacts DEF Refuse
<1>2. l \notin live \ excused
  BY <1>1, RequestFacts DEF Refuse
<1>3. /\ live' \subseteq live /\ live \ {l} \subseteq live' /\ UNCHANGED <<cookies, server, over, excused>>
      /\ request[r].pc # "idle" /\ request[r].pc # "set" /\ Turn(r, "clear")
  BY <1>1 DEF Refuse
<1> QED
  BY <1>1, <1>2, <1>3, ClearHolds

LEMMA ApiFailsHolds == ASSUME WebIInv, NEW r \in Request, ApiFails(r) PROVE WebIInv'
<1>1. /\ request[r].pc # "idle" /\ Turn(r, "clear") /\ excused' = excused \cup {request[r].login}
      /\ UNCHANGED <<cookies, server, live, over>>
  BY DEF ApiFails, Excuse
<1>2. request[r] \in Handling /\ ~(request[r].pc = "set" /\ request[r].token = 1)
  BY <1>1, RequestFacts DEF ApiFails
<1> QED
  BY <1>1, <1>2, ClearHolds

LEMMA EndSessionHolds == ASSUME WebIInv, NEW r \in Request, EndSession(r) PROVE WebIInv'
<1>1. PICK l \in Login : l = request[r].login
  BY RequestFacts DEF EndSession
<1>2. /\ request[r].pc = "logout" /\ Turn(r, "clear") /\ UNCHANGED <<cookies, server, excused>>
      /\ IF l \in live /\ request[r].token = server[l]
           THEN live' = live \ {l} /\ over' = over \cup {l}
           ELSE UNCHANGED <<live, over>>
  BY <1>1 DEF EndSession
<1>3. l \notin live' \ excused'
  BY <1>1, <1>2, RequestFacts
<1> QED
  BY <1>1, <1>2, <1>3, ClearHolds

\* A reply that leaves the cookies as they are, or one that is lost.
LEMMA LoseReplyHolds == ASSUME WebIInv, NEW r \in Request, LoseReply(r) PROVE WebIInv'
<1>1. PICK l \in Login : l = request[r].login
  BY RequestFacts, InProgressIsBusy, IdleIsNotHandling DEF LoseReply, Busy, WebIInv
<1>2. /\ Busy' = Busy \ {r} /\ \A q \in Request \ {r} : request'[q] = request[q]
      /\ request' \in [Request -> Handling \cup {Idle}]
      /\ \A k \in Login : Of(k)' = Of(k) \ {r}
  BY ProgressEnds DEF LoseReply, WebIInv
<1>3. UNCHANGED <<cookies, server, live, over>> /\ excused' = excused \cup {l}
  BY <1>1 DEF LoseReply, Excuse
<1>4. Busy' \subseteq Busy /\ \A q \in Busy' : q \in Request /\ request'[q] = request[q]
  BY <1>2 DEF Busy
<1>5. WebTypeOK'
  BY <1>1, <1>2, <1>3 DEF WebIInv, WebTypeOK, Cookies
<1>6. SessionsWereOpened'
  BY <1>3, <1>4 DEF WebIInv, SessionsWereOpened
<1>7. UndisturbedIsAlone'
  BY <1>2, <1>3, <1>4 DEF WebIInv, UndisturbedIsAlone
<1>8. CookiesFollowRequests'
  BY <1>3, <1>4 DEF WebIInv, CookiesFollowRequests
<1>9. LatestTokenIsKept'
  <2> SUFFICES ASSUME NEW k \in live' \ excused'
               PROVE  /\ \A q \in Of(k)' : request'[q].pc # "clear" /\ request'[q].token = server'[k]
                      /\ Of(k)' = {} => cookies' # NoCookies /\ cookies'.login = k /\ cookies'.token = server'[k]
    BY DEF LatestTokenIsKept
  <2>1. k \in live \ excused /\ k \in Login /\ k # l
    BY <1>3 DEF WebIInv, WebTypeOK
  <2>2. Of(k)' = Of(k) /\ Of(k) \subseteq Busy'
    BY <1>1, <1>2, <2>1 DEF Of
  <2> QED
    BY <1>3, <1>4, <2>1, <2>2 DEF WebIInv, LatestTokenIsKept
<1> QED
  BY <1>5, <1>6, <1>7, <1>8, <1>9 DEF WebIInv

\* The cookies get the token of the reply; the session that was there before
\* is left as it is.
LEMMA SetCookiesHolds == ASSUME WebIInv, NEW r \in Request, SetCookies(r) PROVE WebIInv'
<1>1. PICK l \in Login : l = request[r].login
  BY RequestFacts DEF SetCookies
<1>2. PICK c \in Cookies : c = [login |-> l, token |-> request[r].token, access |-> "fresh"]
  <2>1. request[r].token \in 1..MaxTokens
    BY RequestFacts DEF SetCookies, Handling
  <2> QED
    BY <2>1 DEF Cookies
<1>3. c # NoCookies /\ c.login = l /\ c.token = request[r].token
  BY <1>2, WebAssumption DEF Cookies
<1>4. /\ r \in Busy /\ server[l] > 0 /\ l \notin live => l \in over \cup excused
      /\ l \in live \ excused => request[r].token = server[l]
  BY <1>1, RequestFacts DEF SetCookies
<1>5. /\ Busy' = Busy \ {r} /\ \A q \in Request \ {r} : request'[q] = request[q]
      /\ request' \in [Request -> Handling \cup {Idle}]
      /\ \A k \in Login : Of(k)' = Of(k) \ {r}
  BY ProgressEnds DEF SetCookies, WebIInv
<1>6. Busy' \subseteq Busy /\ \A q \in Busy' : q \in Request /\ request'[q] = request[q]
  BY <1>5 DEF Busy
<1>7. UNCHANGED <<server, live, over>> /\ cookies' = c
  BY <1>1, <1>2 DEF SetCookies
<1>8. excused' = (IF Busy = {r} /\ l \in live /\ request[r].token = server[l] THEN excused \ {l} ELSE excused)
                 \cup (IF cookies = NoCookies THEN {} ELSE {cookies.login} \ {l})
  BY <1>1 DEF SetCookies
<1>9. excused \ {l} \subseteq excused' /\ excused' \subseteq Login
  BY <1>8 DEF WebIInv, WebTypeOK, Cookies
<1>10. r \in Busy /\ server[l] > 0
  BY <1>1, RequestFacts DEF SetCookies
<1>11. Busy' # {} => l \in excused'
  BY <1>1, <1>5, <1>8, <1>10 DEF WebIInv, UndisturbedIsAlone
<1>12. WebTypeOK'
  BY <1>5, <1>7, <1>9 DEF WebIInv, WebTypeOK
<1>13. SessionsWereOpened'
  <2>1. ASSUME NEW k \in Login, server[k] > 0, k \notin live PROVE k \in over \cup excused'
    <3>1. k \in over \cup excused
      BY <2>1 DEF WebIInv, SessionsWereOpened
    <3> QED
      BY <1>8, <2>1, <3>1
  <2> QED
    BY <1>3, <1>6, <1>7, <1>10, <2>1 DEF WebIInv, SessionsWereOpened
<1>14. UndisturbedIsAlone'
  <2> SUFFICES ASSUME NEW q \in Busy', request'[q].login \notin excused' PROVE Busy' = {q}
    BY DEF UndisturbedIsAlone
  <2>1. request[q].login # l
    BY <1>6, <1>11
  <2>2. request[q].login \notin excused
    BY <1>6, <1>9, <2>1
  <2>3. Busy = {q}
    BY <1>6, <2>2 DEF WebIInv, UndisturbedIsAlone
  <2> QED
    BY <1>5, <2>3
<1>15. CookiesFollowRequests'
  BY <1>3, <1>7, <1>11 DEF CookiesFollowRequests
<1>16. LatestTokenIsKept'
  <2> SUFFICES ASSUME NEW k \in live' \ excused'
               PROVE  /\ \A q \in Of(k)' : request'[q].pc # "clear" /\ request'[q].token = server'[k]
                      /\ Of(k)' = {} => cookies' # NoCookies /\ cookies'.login = k /\ cookies'.token = server'[k]
    BY DEF LatestTokenIsKept
  <2>1. k \in live /\ k \in Login
    BY <1>7 DEF WebIInv, WebTypeOK
  <2>2. CASE k = l
    <3>1. Busy' = {} /\ Of(k)' = {}
      BY <1>11, <2>2 DEF Of
    <3>2. request[r].token = server[l]
      BY <1>4, <1>8, <2>1, <2>2
    <3> QED
      BY <1>3, <1>7, <2>2, <3>1, <3>2
  <2>3. CASE k # l
    <3>1. k \in live \ excused /\ (cookies # NoCookies => cookies.login # k)
      BY <1>8, <1>9, <2>1, <2>3
    <3>2. Of(k) # {}
      BY <3>1 DEF WebIInv, LatestTokenIsKept
    <3>3. PICK q \in Busy : request[q].login = k
      BY <3>2 DEF Of
    <3>4. Busy = {q}
      BY <3>1, <3>3 DEF WebIInv, UndisturbedIsAlone
    <3> QED
      BY <1>1, <1>10, <2>3, <3>3, <3>4
  <2> QED
    BY <2>2, <2>3
<1> QED
  BY <1>12, <1>13, <1>14, <1>15, <1>16 DEF WebIInv

\* The cookies are deleted by a request of a session that has ended, or that
\* something interfered with.
LEMMA ClearedIsExcused ==
  ASSUME WebIInv, NEW r \in Request, request[r].pc = "clear", cookies # NoCookies
  PROVE  cookies.login \in over \cup excused
<1>1. r \in Busy /\ request[r].login \in Login
      /\ (request[r].login \notin live => request[r].login \in over \cup excused)
      /\ request[r].login \notin live \ excused
  BY RequestFacts
<1>2. cookies.login \in {request[r].login} \cup excused
  BY <1>1 DEF WebIInv, CookiesFollowRequests
<1> QED
  BY <1>1, <1>2

LEMMA ClearCookiesHolds == ASSUME WebIInv, NEW r \in Request, ClearCookies(r) PROVE WebIInv'
<1>1. PICK l \in Login : l = request[r].login
  BY RequestFacts DEF ClearCookies
<1>2. r \in Busy /\ l \notin live \ excused
  BY <1>1, RequestFacts DEF ClearCookies
<1>3. /\ Busy' = Busy \ {r} /\ \A q \in Request \ {r} : request'[q] = request[q]
      /\ request' \in [Request -> Handling \cup {Idle}]
      /\ \A k \in Login : Of(k)' = Of(k) \ {r}
  BY ProgressEnds DEF ClearCookies, WebIInv
<1>4. Busy' \subseteq Busy /\ \A q \in Busy' : q \in Request /\ request'[q] = request[q]
  BY <1>3 DEF Busy
<1>5. UNCHANGED <<server, live, over, excused>> /\ cookies' = NoCookies
  BY DEF ClearCookies
<1>6. WebTypeOK' /\ SessionsWereOpened' /\ UndisturbedIsAlone' /\ CookiesFollowRequests'
  <2>1. WebTypeOK'
    BY <1>3, <1>5 DEF WebIInv, WebTypeOK
  <2>2. SessionsWereOpened'
    BY <1>4, <1>5 DEF WebIInv, SessionsWereOpened
  <2>3. UndisturbedIsAlone'
    BY <1>3, <1>4, <1>5 DEF WebIInv, UndisturbedIsAlone
  <2>4. CookiesFollowRequests'
    BY <1>5 DEF CookiesFollowRequests
  <2> QED
    BY <2>1, <2>2, <2>3, <2>4
<1>7. LatestTokenIsKept'
  <2> SUFFICES ASSUME NEW k \in live \ excused
               PROVE  /\ \A q \in Of(k)' : request'[q].pc # "clear" /\ request'[q].token = server[k]
                      /\ Of(k)' # {}
    BY <1>5 DEF LatestTokenIsKept
  <2>1. k \in Login /\ k # l
    BY <1>2 DEF WebIInv, WebTypeOK
  <2>2. Of(k)' = Of(k) /\ Of(k) \subseteq Busy'
    BY <1>1, <1>3, <2>1 DEF Of
  <2>3. Of(k) # {}
    <3>1. SUFFICES ASSUME Of(k) = {} PROVE FALSE
      OBVIOUS
    <3>2. cookies # NoCookies /\ cookies.login = k
      BY <3>1 DEF WebIInv, LatestTokenIsKept
    <3>3. k \in {l} \cup excused
      BY <1>1, <1>2, <3>2 DEF WebIInv, CookiesFollowRequests, ClearCookies
    <3> QED
      BY <2>1, <3>3
  <2> QED
    BY <1>4, <2>2, <2>3 DEF WebIInv, LatestTokenIsKept
<1> QED
  BY <1>6, <1>7 DEF WebIInv

\* Time passes for the access token and for a session.
LEMMA AccessAgesHolds == ASSUME WebIInv, AccessAges PROVE WebIInv'
<1>1. PICK a \in {"stale", "none"} : cookies' = [cookies EXCEPT !.access = a]
  BY DEF AccessAges
<1>2. cookies \in Cookies /\ cookies # NoCookies
  BY DEF AccessAges, WebIInv, WebTypeOK
<1>3. PICK c \in Cookies : c = [cookies EXCEPT !.access = a]
  BY <1>2 DEF Cookies
<1>4. cookies' = c /\ c # NoCookies /\ c.login = cookies.login /\ c.token = cookies.token
  BY <1>1, <1>2, <1>3, WebAssumption DEF Cookies
<1>5. UNCHANGED <<server, live, request, over, excused>>
  BY DEF AccessAges
<1>6. UNCHANGED Busy /\ \A l : UNCHANGED Of(l)
  BY <1>5 DEF Busy, Of
<1>7. WebTypeOK'
  BY <1>4, <1>5 DEF WebIInv, WebTypeOK
<1>8. SessionsWereOpened' /\ UndisturbedIsAlone'
  BY <1>2, <1>4, <1>5, <1>6 DEF WebIInv, SessionsWereOpened, UndisturbedIsAlone
<1>9. CookiesFollowRequests'
  BY <1>2, <1>4, <1>5, <1>6 DEF WebIInv, CookiesFollowRequests
<1>10. LatestTokenIsKept'
  BY <1>2, <1>4, <1>5, <1>6 DEF WebIInv, LatestTokenIsKept
<1> QED
  BY <1>7, <1>8, <1>9, <1>10 DEF WebIInv

LEMMA SessionExpiresHolds == ASSUME WebIInv, NEW l \in Login, SessionExpires(l) PROVE WebIInv'
<1>1. /\ live' = live \ {l} /\ over' = over \cup {l} /\ UNCHANGED <<cookies, server, request, excused>>
  BY DEF SessionExpires
<1>2. UNCHANGED Busy /\ \A k : UNCHANGED Of(k)
  BY <1>1 DEF Busy, Of
<1>3. WebTypeOK'
  BY <1>1 DEF WebIInv, WebTypeOK
<1>4. SessionsWereOpened' /\ UndisturbedIsAlone' /\ CookiesFollowRequests'
  BY <1>1, <1>2 DEF WebIInv, SessionsWereOpened, UndisturbedIsAlone, CookiesFollowRequests
<1>5. LatestTokenIsKept'
  BY <1>1, <1>2 DEF WebIInv, LatestTokenIsKept
<1> QED
  BY <1>3, <1>4, <1>5 DEF WebIInv

\* Every request of the web app begins in one of these ways.
LEMMA BeginningsHold ==
  ASSUME WebIInv, NEW r \in Request, OpenPage(r) \/ LogOutRenewed(r) \/ LogOut(r)
  PROVE  WebIInv'
<1>1. \A l \in Login : Overlapping(l) \subseteq Login
  <2>1. \A q \in Busy : request[q].login \in Login
    BY InProgressIsBusy DEF WebIInv, Busy, Handling
  <2> QED
    BY <2>1 DEF Overlapping
<1>2. cookies # NoCookies /\ cookies.login \in Login
  BY DEF OpenPage, LogOutRenewed, LogOut, Renewal, WebIInv, WebTypeOK, Cookies
<1>3. UNCHANGED <<cookies, server, live, over>>
  BY DEF OpenPage, LogOutRenewed, LogOut, Renewal
<1>4. PICK pc \in {"renew", "renewOut", "logout", "clear"} :
        /\ Begin(r, pc, cookies.login, cookies.token)
        /\ excused' \in {excused \cup Overlapping(cookies.login),
                         excused \cup Overlapping(cookies.login) \cup {cookies.login}}
        /\ pc = "clear" => cookies.login \in excused'
  <2>1. CASE OpenPage(r)
    BY <2>1 DEF OpenPage, Renewal
  <2>2. CASE LogOutRenewed(r)
    BY <2>2 DEF LogOutRenewed, Renewal
  <2>3. CASE LogOut(r)
    BY <2>3 DEF LogOut
  <2> QED
    BY <2>1, <2>2, <2>3
<1>5. excused \cup Overlapping(cookies.login) \subseteq excused' /\ excused' \subseteq Login
  BY <1>1, <1>2, <1>4 DEF WebIInv, WebTypeOK
<1> QED
  BY <1>2, <1>3, <1>4, <1>5, BeginHolds

LEMMA WebStepHolds == WebIInv /\ [WebNext]_webVars => WebIInv'
<1> SUFFICES ASSUME WebIInv, [WebNext]_webVars PROVE WebIInv'
  OBVIOUS
<1>1. CASE UNCHANGED webVars
  BY <1>1 DEF webVars, WebIInv, WebTypeOK, SessionsWereOpened, UndisturbedIsAlone,
              CookiesFollowRequests, LatestTokenIsKept, Busy, Of
<1>2. ASSUME NEW r \in Request, NEW l \in Login, Authenticate(r, l) \/ ExchangeTicket(r, l)
      PROVE  WebIInv'
  BY <1>2, OpenSessionHolds DEF Authenticate, ExchangeTicket
<1>3. ASSUME NEW r \in Request,
             \/ OpenPage(r) \/ LogOutRenewed(r) \/ LogOut(r)
             \/ Rotate(r) \/ Refuse(r) \/ ApiFails(r) \/ EndSession(r)
             \/ SetCookies(r) \/ ClearCookies(r) \/ LoseReply(r)
      PROVE  WebIInv'
  BY <1>3, BeginningsHold, RotateHolds, RefuseHolds, ApiFailsHolds, EndSessionHolds,
     SetCookiesHolds, ClearCookiesHolds, LoseReplyHolds
<1> QED
  BY <1>1, <1>2, <1>3, AccessAgesHolds, SessionExpiresHolds DEF WebNext

\* The inductive invariant holds in every reachable state.
THEOREM WebInductive == WebSpec => []WebIInv
BY WebInitHolds, WebStepHolds, PTL DEF WebSpec

\* A session that neither the cookies nor a reply belong to can be renewed only
\* when requests overlapped, failed or were lost, or the API was not told.
THEOREM NoSessionLeft == WebSpec => []NoSessionIsLeft
<1>1. WebIInv => NoSessionIsLeft
  BY DEF WebIInv, LatestTokenIsKept, NoSessionIsLeft
<1> QED
  BY <1>1, WebInductive, PTL

\* The cookies are deleted and a session stops being renewable only after a
\* logout or its age, or when requests overlapped, failed or were lost.
THEOREM LoggedInStays == WebSpec => StaysLoggedIn
<1>1. WebIInv /\ [WebNext]_webVars =>
        [/\ cookies # NoCookies /\ cookies' = NoCookies => cookies.login \in over \cup excused
         /\ live \ live' \subseteq over' \cup excused]_webVars
  <2> SUFFICES ASSUME WebIInv, WebNext
               PROVE  /\ cookies # NoCookies /\ cookies' = NoCookies => cookies.login \in over \cup excused
                      /\ live \ live' \subseteq over' \cup excused
    OBVIOUS
  <2>1. ASSUME cookies # NoCookies, cookies' = NoCookies PROVE cookies.login \in over \cup excused
    <3>1. ASSUME NEW r \in Request, SetCookies(r) PROVE FALSE
      <4>1. request[r] \in Handling
        BY <3>1, RequestFacts DEF SetCookies
      <4>2. cookies' \in Cookies
        BY <3>1, <4>1 DEF SetCookies, Cookies, Handling
      <4> QED
        BY <2>1, <4>2, WebAssumption DEF Cookies
    <3>2. ASSUME AccessAges PROVE FALSE
      <4>1. cookies' \in Cookies
        BY <3>2 DEF AccessAges, WebIInv, WebTypeOK, Cookies
      <4> QED
        BY <2>1, <4>1, WebAssumption DEF Cookies
    <3>3. ASSUME NEW r \in Request, ClearCookies(r) PROVE cookies.login \in over \cup excused
      BY <2>1, <3>3, ClearedIsExcused DEF ClearCookies
    <3> QED
      BY <2>1, <3>1, <3>2, <3>3
         DEF WebNext, Authenticate, ExchangeTicket, OpenSession, OpenPage, LogOutRenewed, Renewal,
             LogOut, Rotate, Refuse, ApiFails, EndSession, LoseReply, SessionExpires
  <2>2. live \ live' \subseteq over' \cup excused
    <3>1. ASSUME NEW r \in Request, Refuse(r) PROVE live \ live' \subseteq over' \cup excused
      BY <3>1, RequestFacts DEF Refuse
    <3>2. ASSUME NEW r \in Request, EndSession(r) PROVE live \ live' \subseteq over' \cup excused
      BY <3>2 DEF EndSession
    <3>3. ASSUME NEW l \in Login, SessionExpires(l) PROVE live \ live' \subseteq over' \cup excused
      BY <3>3 DEF SessionExpires
    <3> QED
      BY <3>1, <3>2, <3>3
         DEF WebNext, Authenticate, ExchangeTicket, OpenSession, OpenPage, LogOutRenewed, Renewal,
             LogOut, Rotate, ApiFails, SetCookies, ClearCookies, LoseReply, AccessAges
  <2> QED
    BY <2>1, <2>2
<1> QED
  BY <1>1, WebInductive, PTL DEF WebSpec, StaysLoggedIn
=============================================================================
