-------------------------- MODULE InvitationsProofs --------------------------
(***************************************************************************)
(* Invitations and the emails they queue, for any number of users,         *)
(* invitations, requests and workers.                                      *)
(***************************************************************************)
EXTENDS Invitations, EmailOutbox, FiniteSetTheorems, TLAPS

\* The invariant holds before anyone registered.
LEMMA InitIInv == Init => IInv
<1> SUFFICES ASSUME Init PROVE IInv
  OBVIOUS
<1> USE InvitationAssumption DEF Init
<1>1. TypeOK /\ RowsAreNamed
  BY DEF TypeOK, RowsAreNamed, CallRecord, IdleCall, InvRecord, NoInv, CodeRecord, NoCode,
         Invitable, Role
<1>2. EmailHasOneAccount /\ ClaimsAreExclusive /\ AcceptedMeansJoined
  BY DEF EmailHasOneAccount, ClaimsAreExclusive, AcceptedMeansJoined, Holds, IdleCall, NoInv
<1>3. MembersHaveAccounts /\ RolesFollowAcceptance
  BY DEF MembersHaveAccounts, RolesFollowAcceptance, Led, IdleCall
<1> QED
  BY <1>1, <1>2, <1>3 DEF IInv

\* An invitation changes its state alone.
LEMMA StateUpdate ==
  ASSUME inv \in [Inv -> InvRecord], NEW i \in Inv,
         NEW state \in {"none", "open", "accepted", "expired"},
         inv' = [inv EXCEPT ![i].state = state]
  PROVE  /\ inv' \in [Inv -> InvRecord]
         /\ inv'[i].state = state /\ inv'[i].ws = inv[i].ws
         /\ inv'[i].email = inv[i].email /\ inv'[i].role = inv[i].role
         /\ \A j \in Inv \ {i} : inv'[j] = inv[j]
<1>1. /\ [inv[i] EXCEPT !.state = state] \in InvRecord
      /\ [inv[i] EXCEPT !.state = state].state = state
      /\ [inv[i] EXCEPT !.state = state].ws = inv[i].ws
      /\ [inv[i] EXCEPT !.state = state].email = inv[i].email
      /\ [inv[i] EXCEPT !.state = state].role = inv[i].role
  BY DEF InvRecord
<1>2. inv'[i] = [inv[i] EXCEPT !.state = state]
  OBVIOUS
<1>3. inv' = [inv EXCEPT ![i] = [inv[i] EXCEPT !.state = state]]
  OBVIOUS
<1> QED
  BY <1>1, <1>2, <1>3

\* A pairing code changes its state alone.
LEMMA CodeUpdate ==
  ASSUME code \in [Code -> CodeRecord], NEW c \in Code,
         NEW state \in {"used", "expired"}, code' = [code EXCEPT ![c].state = state]
  PROVE  /\ code' \in [Code -> CodeRecord] /\ code'[c].state = state
         /\ code'[c].ws = code[c].ws /\ \A b \in Code \ {c} : code'[b] = code[b]
<1> DEFINE new == [code[c] EXCEPT !.state = state]
<1>1. new \in CodeRecord /\ new.state = state /\ new.ws = code[c].ws
  BY DEF CodeRecord
<1>2. code' = [code EXCEPT ![c] = new]
  OBVIOUS
<1> HIDE DEF new
<1> QED
  BY <1>1, <1>2

\* A claim leaves its request with the invitation.
LEMMA ClaimedCall ==
  ASSUME TypeOK, NEW q \in Call, NEW i \in Inv, NEW u \in User, NEW pc \in {"undo", "join"},
         Claimed(q, i, u, pc)
  PROVE  /\ call' \in [Call -> CallRecord]
         /\ call'[q].pc = pc /\ call'[q].user = u /\ call'[q].inv = i
         /\ \A p \in Call \ {q} : call'[p] = call[p]
<1> DEFINE rec == [IdleCall EXCEPT !.pc = pc, !.user = u, !.inv = i]
<1>1. rec \in CallRecord /\ rec.pc = pc /\ rec.user = u /\ rec.inv = i
  BY InvitationAssumption DEF IdleCall, CallRecord, Role
<1>2. call' = [call EXCEPT ![q] = rec]
  BY DEF Claimed
<1> HIDE DEF rec
<1> QED
  BY <1>1, <1>2 DEF TypeOK

\* A new member changes one row of each table.
LEMMA NewMemberHas ==
  ASSUME TypeOK, NEW u \in User, NEW w \in User, NEW r \in Role, NewMember(u, w, r)
  PROVE  /\ account' \in [User -> Nat]
         /\ role' \in [User -> [User -> Role \cup {"none"}]]
         /\ given' \in [User -> [User -> Role \cup {"none"}]]
         /\ account'[u] = account[u] + 1 /\ \A v \in User \ {u} : account'[v] = account[v]
         /\ role'[w][u] = r /\ given'[w][u] = r
         /\ \A x, v \in User : x # w \/ v # u =>
              role'[x][v] = role[x][v] /\ given'[x][v] = given[x][v]
<1>1. /\ account' = [account EXCEPT ![u] = @ + 1]
      /\ role' = [role EXCEPT ![w][u] = r] /\ given' = [given EXCEPT ![w][u] = r]
  BY DEF NewMember
<1>2. /\ account \in [User -> Nat]
      /\ role \in [User -> [User -> Role \cup {"none"}]]
      /\ given \in [User -> [User -> Role \cup {"none"}]]
  BY DEF TypeOK
<1>3. account' \in [User -> Nat] /\ account'[u] = account[u] + 1
      /\ \A v \in User \ {u} : account'[v] = account[v]
  BY <1>1, <1>2
<1>4. /\ role' \in [User -> [User -> Role \cup {"none"}]] /\ role'[w][u] = r
      /\ \A x, v \in User : x # w \/ v # u => role'[x][v] = role[x][v]
  BY <1>1, <1>2
<1>5. /\ given' \in [User -> [User -> Role \cup {"none"}]] /\ given'[w][u] = r
      /\ \A x, v \in User : x # w \/ v # u => given'[x][v] = given[x][v]
  BY <1>1, <1>2
<1> QED
  BY <1>3, <1>4, <1>5

\* Registration, pairing and the bootstrap add a member who had no account.
LEMMA NewMembers ==
  ASSUME TypeOK, RowsAreNamed, NEW q \in Call,
         FinishRegister(q) \/ FinishPair(q) \/ FinishBootstrap(q)
  PROVE  /\ UNCHANGED <<inv, mailed, joins, burnt, preceded>>
         /\ call' \in [Call -> CallRecord] /\ call'[q] = IdleCall
         /\ \A p \in Call \ {q} : call'[p] = call[p]
         /\ \A p \in Call, i \in Inv : Holds(p, i)' <=> Holds(p, i)
         /\ \A c \in Code : /\ code'[c].ws = code[c].ws
                            /\ code'[c].state # "none" <=> code[c].state # "none"
         /\ code' \in [Code -> CodeRecord]
         /\ \/ UNCHANGED <<account, role, given>>
            \/ \E u, w \in User, r \in Role : account[u] = 0 /\ NewMember(u, w, r)
<1>1. /\ UNCHANGED <<inv, mailed, joins, burnt, preceded>>
      /\ call' \in [Call -> CallRecord] /\ call'[q] = IdleCall
      /\ \A p \in Call \ {q} : call'[p] = call[p]
      /\ \A p \in Call, i \in Inv : Holds(p, i)' <=> Holds(p, i)
  <2>1. /\ UNCHANGED <<inv, mailed, joins, burnt, preceded>>
        /\ call' = [call EXCEPT ![q] = IdleCall] /\ call[q].pc \notin {"undo", "join"}
    BY DEF FinishRegister, FinishPair, FinishBootstrap, Idle
  <2>2. IdleCall \in CallRecord /\ IdleCall.pc = "idle"
    BY DEF IdleCall, CallRecord, Role
  <2>3. call \in [Call -> CallRecord]
    BY DEF TypeOK
  <2>4. /\ call' \in [Call -> CallRecord] /\ call'[q] = IdleCall
        /\ \A p \in Call \ {q} : call'[p] = call[p]
    BY <2>1, <2>2, <2>3
  <2> QED
    BY <2>1, <2>2, <2>4 DEF Holds
<1>2. code \in [Code -> CodeRecord]
  BY DEF TypeOK
<1>3. CASE FinishRegister(q)
  <2>1. call[q].user \in User /\ "OWNER" \in Role /\ UNCHANGED code
    BY <1>3 DEF FinishRegister, RowsAreNamed, Role
  <2> QED
    BY <1>1, <1>2, <1>3, <2>1 DEF FinishRegister
<1>4. CASE FinishPair(q)
  <2>1. PICK c \in Code : c = call[q].code /\ code[c].state # "none" /\ code[c].ws \in User
    BY <1>4 DEF FinishPair, RowsAreNamed
  <2>2. CASE UNCHANGED <<account, role, given, code>>
    BY <1>1, <1>2, <2>2
  <2>3. CASE /\ code' = [code EXCEPT ![c].state = "used"]
             /\ \E d \in Paired : account[d] = 0 /\ NewMember(d, code[c].ws, code[c].role)
    <3>2. /\ code' \in [Code -> CodeRecord] /\ code'[c].state = "used"
          /\ code'[c].ws = code[c].ws /\ \A b \in Code \ {c} : code'[b] = code[b]
      BY <1>2, <2>3, CodeUpdate
    <3>3. code[c].role \in Role /\ Paired \subseteq User
      BY <1>2, InvitationAssumption DEF CodeRecord
    <3> QED
      BY <1>1, <2>1, <2>3, <3>2, <3>3
  <2> QED
    BY <1>4, <2>1, <2>2, <2>3 DEF FinishPair
<1>5. CASE FinishBootstrap(q)
  <2>1. Paired \subseteq User /\ "OWNER" \in Role /\ UNCHANGED code
    BY <1>5, InvitationAssumption DEF FinishBootstrap, Role
  <2> QED
    BY <1>1, <1>2, <1>5, <2>1 DEF FinishBootstrap
<1> QED
  BY <1>3, <1>4, <1>5

\* Every step preserves the types.
LEMMA TypeStep == IInv /\ [Next]_vars => TypeOK'
<1> SUFFICES ASSUME TypeOK, RowsAreNamed, [Next]_vars PROVE TypeOK'
  BY DEF IInv
<1>0. ASSUME NEW q \in Call, FinishRegister(q) \/ FinishPair(q) \/ FinishBootstrap(q)
      PROVE  TypeOK'
  <2>1. /\ UNCHANGED <<inv, mailed, joins, burnt, preceded>>
        /\ call' \in [Call -> CallRecord] /\ code' \in [Code -> CodeRecord]
    BY <1>0, NewMembers
  <2>2. CASE UNCHANGED <<account, role, given>>
    BY <2>1, <2>2 DEF TypeOK
  <2>3. ASSUME NEW u \in User, NEW w \in User, NEW r \in Role, NewMember(u, w, r)
        PROVE  TypeOK'
    <3>1. /\ account' \in [User -> Nat]
          /\ role' \in [User -> [User -> Role \cup {"none"}]]
          /\ given' \in [User -> [User -> Role \cup {"none"}]]
      BY <2>3, NewMemberHas
    <3> QED
      BY <2>1, <3>1 DEF TypeOK
  <2> QED
    BY <1>0, <2>2, <2>3, NewMembers
<1> USE InvitationAssumption DEF TypeOK, RowsAreNamed, CallRecord, IdleCall, InvRecord, NoInv,
        CodeRecord, Invitable, Role, rows, history
<1>1. ASSUME NEW q \in Call, NEW u \in User, BeginRegister(q, u) PROVE TypeOK'
  BY <1>1 DEF BeginRegister
<1>2. ASSUME NEW q \in Call, NEW u \in User, NEW w \in User, BeginInvite(q, u, w) PROVE TypeOK'
  BY <1>2 DEF BeginInvite
<1>3. ASSUME NEW q \in Call, NEW u \in User, NEW i \in Inv, Claim(q, i, u) PROVE TypeOK'
  <2>1. PICK pc \in {"undo", "join"} : Claimed(q, i, u, pc)
    BY <1>3 DEF Claim
  <2>2. inv' \in [Inv -> InvRecord]
    BY <2>1, StateUpdate DEF Claimed
  <2>3. call' \in [Call -> CallRecord]
    BY <2>1, ClaimedCall
  <2>4. preceded' \in [Inv -> SUBSET Inv]
    BY <2>1 DEF Claimed, Led
  <2> QED
    BY <2>1, <2>2, <2>3, <2>4 DEF Claimed
<1>4. ASSUME NEW q \in Call, NEW u \in User, NEW i \in Inv, NEW r \in Asked \cap Invitable,
             FinishInvite(q, i, u, r) PROVE TypeOK'
  BY <1>4 DEF FinishInvite, Idle
<1>5. ASSUME NEW q \in Call, FinishRegister(q) PROVE TypeOK'
  BY <1>5, <1>0
<1>6. ASSUME NEW q \in Call, Undo(q) PROVE TypeOK'
  <2>1. PICK state \in {"open", "expired"} : inv' = [inv EXCEPT ![call[q].inv].state = state]
    BY <1>6 DEF Undo
  <2>2. call[q].inv \in Inv
    BY <1>6 DEF Undo
  <2>3. inv' \in [Inv -> InvRecord]
    BY <2>1, <2>2, StateUpdate
  <2> QED
    BY <1>6, <2>3 DEF Undo, Idle
<1>7. ASSUME NEW q \in Call, Join(q) PROVE TypeOK'
  <2>1. /\ call[q].inv \in Inv /\ call[q].user \in User
        /\ inv[call[q].inv].role \in Role
    BY <1>7 DEF Join, JoinAs
  <2>2. role' \in [User -> [User -> Role \cup {"none"}]]
    BY <1>7, <2>1 DEF Join, JoinAs
  <2>3. joins' \in [Inv -> Nat]
    BY <1>7, <2>1 DEF Join, JoinAs
  <2> QED
    BY <1>7, <2>2, <2>3 DEF Join, JoinAs, Idle
<1>8. ASSUME NEW q \in Call, CallDies(q) PROVE TypeOK'
  BY <1>8 DEF CallDies, Idle
<1>9. ASSUME NEW i \in Inv, InvitationExpires(i) PROVE TypeOK'
  <2>1. inv' \in [Inv -> InvRecord]
    BY <1>9, StateUpdate DEF InvitationExpires
  <2> QED
    BY <1>9, <2>1 DEF InvitationExpires
<1>10. ASSUME UNCHANGED vars PROVE TypeOK'
  BY <1>10 DEF vars
<1>11. ASSUME NEW q \in Call, NEW u \in User, NEW w \in User, NEW r \in Asked,
              BeginCode(q, u, w, r) PROVE TypeOK'
  BY <1>11, RoleAssumption DEF BeginCode
<1>12. ASSUME NEW q \in Call, NEW c \in Code, FinishCode(q, c) PROVE TypeOK'
  BY <1>12 DEF FinishCode, Idle
<1>13. ASSUME NEW q \in Call, NEW c \in Code, BeginPair(q, c) PROVE TypeOK'
  BY <1>13 DEF BeginPair
<1>14. ASSUME NEW q \in Call, FinishPair(q) PROVE TypeOK'
  BY <1>14, <1>0
<1>15. ASSUME NEW q \in Call, BeginBootstrap(q) PROVE TypeOK'
  BY <1>15 DEF BeginBootstrap
<1>16. ASSUME NEW q \in Call, FinishBootstrap(q) PROVE TypeOK'
  BY <1>16, <1>0
<1>17. ASSUME NEW c \in Code, CodeExpires(c) PROVE TypeOK'
  <2>1. code' \in [Code -> CodeRecord]
    BY <1>17, CodeUpdate DEF CodeExpires
  <2> QED
    BY <1>17, <2>1 DEF CodeExpires
<1> QED
  BY <1>1, <1>2, <1>3, <1>4, <1>5, <1>6, <1>7, <1>8, <1>9, <1>10, <1>11, <1>12, <1>13,
     <1>14, <1>15, <1>16, <1>17 DEF Next

\* An email is registered only while it is free, in one transaction.
LEMMA AccountStep == IInv /\ [Next]_vars => EmailHasOneAccount'
<1> SUFFICES ASSUME TypeOK, RowsAreNamed, EmailHasOneAccount, [Next]_vars
             PROVE  EmailHasOneAccount'
  BY DEF IInv
<1> USE DEF EmailHasOneAccount, rows, history
<1>0. ASSUME NEW q \in Call, FinishRegister(q) \/ FinishPair(q) \/ FinishBootstrap(q)
      PROVE  EmailHasOneAccount'
  <2>1. CASE UNCHANGED account
    BY <2>1
  <2>2. ASSUME NEW u \in User, NEW w \in User, NEW r \in Role, account[u] = 0, NewMember(u, w, r)
        PROVE  EmailHasOneAccount'
    <3>1. account'[u] = 1 /\ \A v \in User \ {u} : account'[v] = account[v]
      BY <2>2, NewMemberHas
    <3> QED
      BY <3>1
  <2> QED
    BY <1>0, <2>1, <2>2, NewMembers
<1>1. ASSUME NEW q \in Call, NEW u \in User, BeginRegister(q, u) PROVE EmailHasOneAccount'
  BY <1>1 DEF BeginRegister
<1>2. ASSUME NEW q \in Call, NEW u \in User, NEW w \in User, BeginInvite(q, u, w)
      PROVE EmailHasOneAccount'
  BY <1>2 DEF BeginInvite
<1>3. ASSUME NEW q \in Call, NEW u \in User, NEW i \in Inv, Claim(q, i, u) PROVE EmailHasOneAccount'
  BY <1>3 DEF Claim, Claimed
<1>4. ASSUME NEW q \in Call, NEW u \in User, NEW i \in Inv, NEW r \in Asked \cap Invitable,
             FinishInvite(q, i, u, r) PROVE EmailHasOneAccount'
  BY <1>4 DEF FinishInvite, Idle
<1>5. ASSUME NEW q \in Call, FinishRegister(q) PROVE EmailHasOneAccount'
  BY <1>5, <1>0
<1>6. ASSUME NEW q \in Call, Undo(q) PROVE EmailHasOneAccount'
  BY <1>6 DEF Undo, Idle
<1>7. ASSUME NEW q \in Call, Join(q) PROVE EmailHasOneAccount'
  BY <1>7 DEF Join, JoinAs, Idle
<1>8. ASSUME NEW q \in Call, CallDies(q) PROVE EmailHasOneAccount'
  BY <1>8 DEF CallDies, Idle
<1>9. ASSUME NEW i \in Inv, InvitationExpires(i) PROVE EmailHasOneAccount'
  BY <1>9 DEF InvitationExpires
<1>10. ASSUME UNCHANGED vars PROVE EmailHasOneAccount'
  BY <1>10 DEF vars
<1>11. ASSUME NEW q \in Call, NEW u \in User, NEW w \in User, NEW r \in Asked,
              BeginCode(q, u, w, r) PROVE EmailHasOneAccount'
  BY <1>11, RoleAssumption DEF BeginCode
<1>12. ASSUME NEW q \in Call, NEW c \in Code, FinishCode(q, c) PROVE EmailHasOneAccount'
  BY <1>12 DEF FinishCode, Idle
<1>13. ASSUME NEW q \in Call, NEW c \in Code, BeginPair(q, c) PROVE EmailHasOneAccount'
  BY <1>13 DEF BeginPair
<1>14. ASSUME NEW q \in Call, FinishPair(q) PROVE EmailHasOneAccount'
  BY <1>14, <1>0
<1>15. ASSUME NEW q \in Call, BeginBootstrap(q) PROVE EmailHasOneAccount'
  BY <1>15 DEF BeginBootstrap
<1>16. ASSUME NEW q \in Call, FinishBootstrap(q) PROVE EmailHasOneAccount'
  BY <1>16, <1>0
<1>17. ASSUME NEW c \in Code, CodeExpires(c) PROVE EmailHasOneAccount'
  BY <1>17 DEF CodeExpires
<1> QED
  BY <1>1, <1>2, <1>3, <1>4, <1>5, <1>6, <1>7, <1>8, <1>9, <1>10, <1>11, <1>12, <1>13,
     <1>14, <1>15, <1>16, <1>17 DEF Next

\* Requests keep naming rows, and rows theirs.
LEMMA NameStep == IInv /\ [Next]_vars => RowsAreNamed'
<1> SUFFICES ASSUME TypeOK, RowsAreNamed, ClaimsAreExclusive, [Next]_vars PROVE RowsAreNamed'
  BY DEF IInv
<1>a. ASSUME NEW q \in Call, FinishRegister(q) \/ FinishPair(q) \/ FinishBootstrap(q)
      PROVE  RowsAreNamed'
  <2>1. \A p \in Call : call'[p] = IdleCall \/ call'[p] = call[p]
    BY <1>a, NewMembers
  <2>2. /\ UNCHANGED <<inv, mailed>>
        /\ \A c \in Code : /\ code'[c].ws = code[c].ws
                           /\ code'[c].state # "none" <=> code[c].state # "none"
    BY <1>a, NewMembers
  <2> QED
    BY <2>1, <2>2 DEF RowsAreNamed, IdleCall
<1> USE InvitationAssumption DEF TypeOK, RowsAreNamed, CallRecord, IdleCall, InvRecord, NoInv, CodeRecord,
        rows, history
<1>1. ASSUME NEW q \in Call, NEW u \in User, BeginRegister(q, u) PROVE RowsAreNamed'
  BY <1>1 DEF BeginRegister
<1>2. ASSUME NEW q \in Call, NEW u \in User, NEW w \in User, BeginInvite(q, u, w)
      PROVE RowsAreNamed'
  BY <1>2 DEF BeginInvite
<1>3. ASSUME NEW q \in Call, NEW u \in User, NEW i \in Inv, Claim(q, i, u) PROVE RowsAreNamed'
  BY <1>3 DEF Claim, Claimed
<1>4. ASSUME NEW q \in Call, NEW u \in User, NEW i \in Inv, NEW r \in Asked \cap Invitable,
             FinishInvite(q, i, u, r) PROVE RowsAreNamed'
  BY <1>4 DEF FinishInvite, Idle
<1>5. ASSUME NEW q \in Call, FinishRegister(q) PROVE RowsAreNamed'
  BY <1>5, <1>a
<1>6. ASSUME NEW q \in Call, Undo(q) PROVE RowsAreNamed'
  <2>1. PICK state \in {"open", "expired"} : inv' = [inv EXCEPT ![call[q].inv].state = state]
    BY <1>6 DEF Undo
  <2>2. call[q].inv \in Inv /\ inv[call[q].inv].state = "accepted"
    BY <1>6 DEF Undo, ClaimsAreExclusive, Holds
  <2> HIDE DEF InvRecord
  <2>3. \A j \in Inv : /\ inv'[j].state # "none" <=> inv[j].state # "none"
                       /\ inv'[j].ws = inv[j].ws /\ inv'[j].email = inv[j].email
    BY <2>1, <2>2, StateUpdate
  <2> QED
    BY <1>6, <2>3 DEF Undo, Idle
<1>7. ASSUME NEW q \in Call, Join(q) PROVE RowsAreNamed'
  BY <1>7 DEF Join, JoinAs, Idle
<1>8. ASSUME NEW q \in Call, CallDies(q) PROVE RowsAreNamed'
  BY <1>8 DEF CallDies, Idle
<1>9. ASSUME NEW i \in Inv, InvitationExpires(i) PROVE RowsAreNamed'
  BY <1>9 DEF InvitationExpires
<1>10. ASSUME UNCHANGED vars PROVE RowsAreNamed'
  BY <1>10 DEF vars
<1>11. ASSUME NEW q \in Call, NEW u \in User, NEW w \in User, NEW r \in Asked,
              BeginCode(q, u, w, r) PROVE RowsAreNamed'
  BY <1>11, RoleAssumption DEF BeginCode
<1>12. ASSUME NEW q \in Call, NEW c \in Code, FinishCode(q, c) PROVE RowsAreNamed'
  BY <1>12 DEF FinishCode, Idle
<1>13. ASSUME NEW q \in Call, NEW c \in Code, BeginPair(q, c) PROVE RowsAreNamed'
  BY <1>13 DEF BeginPair
<1>14. ASSUME NEW q \in Call, FinishPair(q) PROVE RowsAreNamed'
  BY <1>14, <1>a
<1>15. ASSUME NEW q \in Call, BeginBootstrap(q) PROVE RowsAreNamed'
  BY <1>15 DEF BeginBootstrap
<1>16. ASSUME NEW q \in Call, FinishBootstrap(q) PROVE RowsAreNamed'
  BY <1>16, <1>a
<1>17. ASSUME NEW c \in Code, CodeExpires(c) PROVE RowsAreNamed'
  BY <1>17 DEF CodeExpires
<1> QED
  BY <1>1, <1>2, <1>3, <1>4, <1>5, <1>6, <1>7, <1>8, <1>9, <1>10, <1>11, <1>12, <1>13,
     <1>14, <1>15, <1>16, <1>17 DEF Next

\* A claim is exclusive: it takes an open invitation, which nobody holds.
LEMMA ClaimStep == IInv /\ [Next]_vars => ClaimsAreExclusive'
<1> SUFFICES ASSUME TypeOK, RowsAreNamed, ClaimsAreExclusive, [Next]_vars
             PROVE  ClaimsAreExclusive'
  BY DEF IInv
<1>a. ASSUME NEW q \in Call, FinishRegister(q) \/ FinishPair(q) \/ FinishBootstrap(q)
      PROVE  ClaimsAreExclusive'
  <2>1. \A p \in Call : call'[p] = IdleCall \/ call'[p] = call[p]
    BY <1>a, NewMembers
  <2>2. UNCHANGED <<inv, joins>> /\ \A p \in Call, i \in Inv : Holds(p, i)' <=> Holds(p, i)
    BY <1>a, NewMembers
  <2> QED
    BY <2>1, <2>2 DEF ClaimsAreExclusive, IdleCall
<1> USE InvitationAssumption DEF TypeOK, RowsAreNamed, ClaimsAreExclusive, Holds, CallRecord,
        IdleCall, InvRecord, rows, history
<1>1. ASSUME NEW q \in Call, NEW u \in User, BeginRegister(q, u) PROVE ClaimsAreExclusive'
  BY <1>1 DEF BeginRegister
<1>2. ASSUME NEW q \in Call, NEW u \in User, NEW w \in User, BeginInvite(q, u, w)
      PROVE ClaimsAreExclusive'
  BY <1>2 DEF BeginInvite
<1>3. ASSUME NEW q \in Call, NEW u \in User, NEW i \in Inv, Claim(q, i, u) PROVE ClaimsAreExclusive'
  BY <1>3 DEF Claim, Claimed
<1>4. ASSUME NEW q \in Call, NEW u \in User, NEW i \in Inv, NEW r \in Asked \cap Invitable,
             FinishInvite(q, i, u, r) PROVE ClaimsAreExclusive'
  BY <1>4 DEF FinishInvite, Idle
<1>5. ASSUME NEW q \in Call, FinishRegister(q) PROVE ClaimsAreExclusive'
  BY <1>5, <1>a
<1>6. ASSUME NEW q \in Call, Undo(q) PROVE ClaimsAreExclusive'
  BY <1>6 DEF Undo, Idle
<1>7. ASSUME NEW q \in Call, Join(q) PROVE ClaimsAreExclusive'
  BY <1>7 DEF Join, JoinAs, Idle
<1>8. ASSUME NEW q \in Call, CallDies(q) PROVE ClaimsAreExclusive'
  BY <1>8 DEF CallDies, Idle
<1>9. ASSUME NEW i \in Inv, InvitationExpires(i) PROVE ClaimsAreExclusive'
  BY <1>9 DEF InvitationExpires
<1>10. ASSUME UNCHANGED vars PROVE ClaimsAreExclusive'
  BY <1>10 DEF vars
<1>11. ASSUME NEW q \in Call, NEW u \in User, NEW w \in User, NEW r \in Asked,
              BeginCode(q, u, w, r) PROVE ClaimsAreExclusive'
  BY <1>11, RoleAssumption DEF BeginCode
<1>12. ASSUME NEW q \in Call, NEW c \in Code, FinishCode(q, c) PROVE ClaimsAreExclusive'
  BY <1>12 DEF FinishCode, Idle
<1>13. ASSUME NEW q \in Call, NEW c \in Code, BeginPair(q, c) PROVE ClaimsAreExclusive'
  BY <1>13 DEF BeginPair
<1>14. ASSUME NEW q \in Call, FinishPair(q) PROVE ClaimsAreExclusive'
  BY <1>14, <1>a
<1>15. ASSUME NEW q \in Call, BeginBootstrap(q) PROVE ClaimsAreExclusive'
  BY <1>15 DEF BeginBootstrap
<1>16. ASSUME NEW q \in Call, FinishBootstrap(q) PROVE ClaimsAreExclusive'
  BY <1>16, <1>a
<1>17. ASSUME NEW c \in Code, CodeExpires(c) PROVE ClaimsAreExclusive'
  BY <1>17 DEF CodeExpires
<1> QED
  BY <1>1, <1>2, <1>3, <1>4, <1>5, <1>6, <1>7, <1>8, <1>9, <1>10, <1>11, <1>12, <1>13,
     <1>14, <1>15, <1>16, <1>17 DEF Next

\* An accepted invitation stays accounted for.
LEMMA JoinedStep == IInv /\ [Next]_vars => AcceptedMeansJoined'
<1> SUFFICES ASSUME TypeOK, RowsAreNamed, ClaimsAreExclusive, AcceptedMeansJoined, [Next]_vars
             PROVE  AcceptedMeansJoined'
  BY DEF IInv
<1>a. ASSUME NEW q \in Call, FinishRegister(q) \/ FinishPair(q) \/ FinishBootstrap(q)
      PROVE  AcceptedMeansJoined'
  <2>1. /\ UNCHANGED <<inv, joins, burnt>>
        /\ \A p \in Call, i \in Inv : Holds(p, i)' <=> Holds(p, i)
    BY <1>a, NewMembers
  <2> QED
    BY <2>1 DEF AcceptedMeansJoined
<1> USE InvitationAssumption DEF TypeOK, RowsAreNamed, ClaimsAreExclusive, AcceptedMeansJoined,
        Holds, CallRecord, IdleCall, InvRecord, rows, history
<1>1. ASSUME NEW q \in Call, NEW u \in User, BeginRegister(q, u) PROVE AcceptedMeansJoined'
  BY <1>1 DEF BeginRegister
<1>2. ASSUME NEW q \in Call, NEW u \in User, NEW w \in User, BeginInvite(q, u, w)
      PROVE AcceptedMeansJoined'
  BY <1>2 DEF BeginInvite
<1>3. ASSUME NEW q \in Call, NEW u \in User, NEW i \in Inv, Claim(q, i, u)
      PROVE AcceptedMeansJoined'
  <2>1. Holds(q, i)'
    BY <1>3 DEF Claim, Claimed
  <2>2. ASSUME NEW p \in Call, NEW j \in Inv, Holds(p, j) PROVE Holds(p, j)'
    <3>1. p # q
      BY <1>3, <2>2 DEF Claim
    <3>2. call'[p] = call[p]
      BY <1>3, <3>1 DEF Claim, Claimed
    <3> QED
      BY <2>2, <3>2
  <2>3. UNCHANGED <<joins, burnt>> /\ \A j \in Inv \ {i} : inv'[j] = inv[j]
    BY <1>3 DEF Claim, Claimed
  <2> HIDE DEF Holds, TypeOK, RowsAreNamed, ClaimsAreExclusive
  <2> QED
    BY <2>1, <2>2, <2>3
<1>4. ASSUME NEW q \in Call, NEW u \in User, NEW i \in Inv, NEW r \in Asked \cap Invitable,
             FinishInvite(q, i, u, r) PROVE AcceptedMeansJoined'
  BY <1>4 DEF FinishInvite, Idle
<1>5. ASSUME NEW q \in Call, FinishRegister(q) PROVE AcceptedMeansJoined'
  BY <1>5, <1>a
<1>6. ASSUME NEW q \in Call, Undo(q) PROVE AcceptedMeansJoined'
  BY <1>6 DEF Undo, Idle
<1>7. ASSUME NEW q \in Call, Join(q) PROVE AcceptedMeansJoined'
  BY <1>7 DEF Join, JoinAs, Idle
<1>8. ASSUME NEW q \in Call, CallDies(q) PROVE AcceptedMeansJoined'
  BY <1>8 DEF CallDies, Idle
<1>9. ASSUME NEW i \in Inv, InvitationExpires(i) PROVE AcceptedMeansJoined'
  BY <1>9 DEF InvitationExpires
<1>10. ASSUME UNCHANGED vars PROVE AcceptedMeansJoined'
  BY <1>10 DEF vars
<1>11. ASSUME NEW q \in Call, NEW u \in User, NEW w \in User, NEW r \in Asked,
              BeginCode(q, u, w, r) PROVE AcceptedMeansJoined'
  BY <1>11, RoleAssumption DEF BeginCode
<1>12. ASSUME NEW q \in Call, NEW c \in Code, FinishCode(q, c) PROVE AcceptedMeansJoined'
  BY <1>12 DEF FinishCode, Idle
<1>13. ASSUME NEW q \in Call, NEW c \in Code, BeginPair(q, c) PROVE AcceptedMeansJoined'
  BY <1>13 DEF BeginPair
<1>14. ASSUME NEW q \in Call, FinishPair(q) PROVE AcceptedMeansJoined'
  BY <1>14, <1>a
<1>15. ASSUME NEW q \in Call, BeginBootstrap(q) PROVE AcceptedMeansJoined'
  BY <1>15 DEF BeginBootstrap
<1>16. ASSUME NEW q \in Call, FinishBootstrap(q) PROVE AcceptedMeansJoined'
  BY <1>16, <1>a
<1>17. ASSUME NEW c \in Code, CodeExpires(c) PROVE AcceptedMeansJoined'
  BY <1>17 DEF CodeExpires
<1> QED
  BY <1>1, <1>2, <1>3, <1>4, <1>5, <1>6, <1>7, <1>8, <1>9, <1>10, <1>11, <1>12, <1>13,
     <1>14, <1>15, <1>16, <1>17 DEF Next

\* Accounts stay, and what a claim came after.
LEMMA MemberStep == IInv /\ [Next]_vars => MembersHaveAccounts'
<1> SUFFICES ASSUME TypeOK, RowsAreNamed, ClaimsAreExclusive, MembersHaveAccounts, [Next]_vars
             PROVE  MembersHaveAccounts'
  BY DEF IInv
<1>0. ASSUME NEW q \in Call, FinishRegister(q) \/ FinishPair(q) \/ FinishBootstrap(q)
      PROVE  MembersHaveAccounts'
  <2>1. \A v \in User : account[v] > 0 => account'[v] > 0
    <3>1. CASE UNCHANGED account
      BY <3>1
    <3>2. ASSUME NEW u \in User, NEW w \in User, NEW r \in Role, NewMember(u, w, r)
          PROVE  \A v \in User : account[v] > 0 => account'[v] > 0
      <4>1. account'[u] = account[u] + 1 /\ \A v \in User \ {u} : account'[v] = account[v]
        BY <3>2, NewMemberHas
      <4>2. account[u] \in Nat
        BY DEF TypeOK
      <4> QED
        BY <4>1, <4>2
    <3> QED
      BY <1>0, <3>1, <3>2, NewMembers
  <2>2. \A i \in Inv : joins[i] > 0 => inv[i].email \in User
    BY DEF ClaimsAreExclusive, RowsAreNamed
  <2>3. \A p \in Call : call'[p] = IdleCall \/ call'[p] = call[p]
    BY <1>0, NewMembers
  <2>4. UNCHANGED <<inv, joins, preceded>>
    BY <1>0, NewMembers
  <2>5. \A p \in Call : call[p].pc = "join" => call[p].user \in User
    BY DEF RowsAreNamed
  <2> QED
    BY <2>1, <2>2, <2>3, <2>4, <2>5 DEF MembersHaveAccounts, IdleCall
<1> USE InvitationAssumption DEF TypeOK, RowsAreNamed, MembersHaveAccounts, CallRecord, IdleCall,
        InvRecord, rows, history
<1>1. ASSUME NEW q \in Call, NEW u \in User, BeginRegister(q, u) PROVE MembersHaveAccounts'
  BY <1>1 DEF BeginRegister
<1>2. ASSUME NEW q \in Call, NEW u \in User, NEW w \in User, BeginInvite(q, u, w)
      PROVE MembersHaveAccounts'
  BY <1>2 DEF BeginInvite
<1>3. ASSUME NEW q \in Call, NEW u \in User, NEW i \in Inv, Claim(q, i, u)
      PROVE MembersHaveAccounts'
  <2>1. PICK pc \in {"undo", "join"} : Claimed(q, i, u, pc)
    BY <1>3 DEF Claim
  <2>2. \A j \in Inv : inv'[j].email = inv[j].email
    BY <2>1, StateUpdate DEF Claimed
  <2>3. call'[q].user = u /\ \A p \in Call \ {q} : call'[p] = call[p]
    BY <2>1, ClaimedCall
  <2>4. account[u] > 0 /\ UNCHANGED <<account, joins>>
    BY <1>3, <2>1 DEF Claim, Claimed
  <2>5. \A j \in Inv : \A k \in preceded'[j] : joins[k] > 0
    BY <2>1 DEF Claimed, Led
  <2> QED
    BY <2>2, <2>3, <2>4, <2>5
<1>4. ASSUME NEW q \in Call, NEW u \in User, NEW i \in Inv, NEW r \in Asked \cap Invitable,
             FinishInvite(q, i, u, r) PROVE MembersHaveAccounts'
  BY <1>4 DEF FinishInvite, Idle, ClaimsAreExclusive
<1>5. ASSUME NEW q \in Call, FinishRegister(q) PROVE MembersHaveAccounts'
  BY <1>5, <1>0
<1>6. ASSUME NEW q \in Call, Undo(q) PROVE MembersHaveAccounts'
  BY <1>6 DEF Undo, Idle
<1>7. ASSUME NEW q \in Call, Join(q) PROVE MembersHaveAccounts'
  <2>1. /\ call[q].inv \in Inv /\ account[call[q].user] > 0
        /\ inv[call[q].inv].email = call[q].user
    BY <1>7 DEF Join, JoinAs, ClaimsAreExclusive, Holds
  <2>2. \A j \in Inv : /\ joins[j] > 0 => joins'[j] > 0
                       /\ joins'[j] > 0 => joins[j] > 0 \/ j = call[q].inv
    BY <1>7, <2>1 DEF Join, JoinAs
  <2> QED
    BY <1>7, <2>1, <2>2 DEF Join, JoinAs, Idle
<1>8. ASSUME NEW q \in Call, CallDies(q) PROVE MembersHaveAccounts'
  BY <1>8 DEF CallDies, Idle
<1>9. ASSUME NEW i \in Inv, InvitationExpires(i) PROVE MembersHaveAccounts'
  BY <1>9 DEF InvitationExpires
<1>10. ASSUME UNCHANGED vars PROVE MembersHaveAccounts'
  BY <1>10 DEF vars
<1>11. ASSUME NEW q \in Call, NEW u \in User, NEW w \in User, NEW r \in Asked,
              BeginCode(q, u, w, r) PROVE MembersHaveAccounts'
  BY <1>11, RoleAssumption DEF BeginCode
<1>12. ASSUME NEW q \in Call, NEW c \in Code, FinishCode(q, c) PROVE MembersHaveAccounts'
  BY <1>12 DEF FinishCode, Idle
<1>13. ASSUME NEW q \in Call, NEW c \in Code, BeginPair(q, c) PROVE MembersHaveAccounts'
  BY <1>13 DEF BeginPair
<1>14. ASSUME NEW q \in Call, FinishPair(q) PROVE MembersHaveAccounts'
  BY <1>14, <1>0
<1>15. ASSUME NEW q \in Call, BeginBootstrap(q) PROVE MembersHaveAccounts'
  BY <1>15 DEF BeginBootstrap
<1>16. ASSUME NEW q \in Call, FinishBootstrap(q) PROVE MembersHaveAccounts'
  BY <1>16, <1>0
<1>17. ASSUME NEW c \in Code, CodeExpires(c) PROVE MembersHaveAccounts'
  BY <1>17 DEF CodeExpires
<1> QED
  BY <1>1, <1>2, <1>3, <1>4, <1>5, <1>6, <1>7, <1>8, <1>9, <1>10, <1>11, <1>12, <1>13,
     <1>14, <1>15, <1>16, <1>17 DEF Next

\* Nothing that leaves the memberships and the invitations that led to them alone
\* changes whose role is whose.
LEMMA RolesAreKept ==
  ASSUME RolesFollowAcceptance, UNCHANGED <<role, given, joins>>,
         \A i \in mailed' : joins[i] > 0 => i \in mailed, mailed \subseteq mailed',
         \A i \in mailed : /\ inv'[i].ws = inv[i].ws /\ inv'[i].email = inv[i].email
                           /\ inv'[i].role = inv[i].role
                           /\ joins[i] > 0 => preceded'[i] = preceded[i]
  PROVE  RolesFollowAcceptance'
<1> SUFFICES ASSUME NEW w \in User, NEW u \in User
             PROVE  /\ Led(w, u)' = {} => role'[w][u] = given'[w][u]
                    /\ Led(w, u)' # {} =>
                         \E i \in Led(w, u)' : /\ inv'[i].role = role'[w][u]
                                               /\ \A j \in Led(w, u)' : i \notin preceded'[j]
  BY DEF RolesFollowAcceptance
<1>1. Led(w, u)' = Led(w, u)
  BY DEF Led
<1>2. \A i \in Led(w, u) : inv'[i].role = inv[i].role /\ preceded'[i] = preceded[i]
  BY DEF Led
<1> QED
  BY <1>1, <1>2 DEF RolesFollowAcceptance

\* Roles change only with a new account and by joining.
LEMMA RoleStep == IInv /\ [Next]_vars => RolesFollowAcceptance'
<1> SUFFICES ASSUME TypeOK, RowsAreNamed, ClaimsAreExclusive, MembersHaveAccounts,
                    RolesFollowAcceptance, [Next]_vars
             PROVE  RolesFollowAcceptance'
  BY DEF IInv
<1>a. \A i \in Inv : /\ joins[i] \in Nat
                     /\ i \in mailed <=> inv[i].state # "none"
                     /\ joins[i] > 0 => inv[i].state = "accepted"
  BY DEF TypeOK, RowsAreNamed, ClaimsAreExclusive
<1>b. mailed \subseteq Inv
  BY DEF TypeOK
<1>1. ASSUME NEW q \in Call, FinishRegister(q) \/ FinishPair(q) \/ FinishBootstrap(q)
      PROVE  RolesFollowAcceptance'
  <2>1. UNCHANGED <<inv, mailed, joins, preceded>>
    BY <1>1, NewMembers
  <2>2. CASE UNCHANGED <<account, role, given>>
    BY <2>1, <2>2, RolesAreKept
  <2>3. ASSUME NEW u \in User, NEW w \in User, NEW r \in Role, account[u] = 0, NewMember(u, w, r)
        PROVE  RolesFollowAcceptance'
    <3> SUFFICES ASSUME NEW x \in User, NEW v \in User
                 PROVE  /\ Led(x, v) = {} => role'[x][v] = given'[x][v]
                        /\ Led(x, v) # {} =>
                             \E i \in Led(x, v) : /\ inv[i].role = role'[x][v]
                                                  /\ \A j \in Led(x, v) : i \notin preceded[j]
      BY <2>1 DEF RolesFollowAcceptance, Led
    <3>1. CASE x = w /\ v = u
      <4>1. Led(x, v) = {}
        BY <1>b, <2>3, <3>1 DEF Led, MembersHaveAccounts
      <4> QED
        BY <2>3, <3>1, <4>1, NewMemberHas
    <3>2. CASE x # w \/ v # u
      <4>1. role'[x][v] = role[x][v] /\ given'[x][v] = given[x][v]
        BY <2>3, <3>2, NewMemberHas
      <4> QED
        BY <4>1 DEF RolesFollowAcceptance
    <3> QED
      BY <3>1, <3>2
  <2> QED
    BY <1>1, <2>2, <2>3, NewMembers
<1>2. ASSUME NEW q \in Call, NEW u \in User, NEW i \in Inv, NEW r \in Asked \cap Invitable,
             FinishInvite(q, i, u, r) PROVE RolesFollowAcceptance'
  <2>1. /\ inv[i].state = "none" /\ mailed' = mailed \cup {i}
        /\ UNCHANGED <<role, given, joins, preceded>> /\ \A j \in Inv \ {i} : inv'[j] = inv[j]
    BY <1>2 DEF FinishInvite, history, TypeOK
  <2> QED
    BY <1>a, <1>b, <2>1, RolesAreKept
<1>3. ASSUME NEW q \in Call, NEW u \in User, NEW i \in Inv, Claim(q, i, u)
      PROVE RolesFollowAcceptance'
  <2>1. PICK pc \in {"undo", "join"} : Claimed(q, i, u, pc)
    BY <1>3 DEF Claim
  <2>2. inv \in [Inv -> InvRecord] /\ inv' = [inv EXCEPT ![i].state = "accepted"]
    BY <2>1 DEF Claimed, TypeOK
  <2>3. \A j \in Inv : /\ inv'[j].ws = inv[j].ws /\ inv'[j].email = inv[j].email
                       /\ inv'[j].role = inv[j].role
    BY <2>2, StateUpdate
  <2>4. /\ UNCHANGED <<role, given, joins, mailed>> /\ joins[i] = 0
        /\ \A j \in Inv \ {i} : preceded'[j] = preceded[j]
    BY <1>3, <1>a, <2>1 DEF Claim, Claimed, TypeOK
  <2> QED
    BY <1>a, <1>b, <2>3, <2>4, RolesAreKept
<1>4. ASSUME NEW q \in Call, Undo(q) PROVE RolesFollowAcceptance'
  <2>1. PICK state \in {"open", "expired"} : inv' = [inv EXCEPT ![call[q].inv].state = state]
    BY <1>4 DEF Undo
  <2>2. call[q].inv \in Inv /\ inv \in [Inv -> InvRecord]
    BY <1>4 DEF Undo, RowsAreNamed, TypeOK
  <2>3. \A j \in Inv : /\ inv'[j].ws = inv[j].ws /\ inv'[j].email = inv[j].email
                       /\ inv'[j].role = inv[j].role
    BY <2>1, <2>2, StateUpdate
  <2>4. UNCHANGED <<role, given, joins, mailed, preceded>>
    BY <1>4 DEF Undo, history
  <2> QED
    BY <1>b, <2>3, <2>4, RolesAreKept
<1>5. ASSUME NEW i \in Inv, InvitationExpires(i) PROVE RolesFollowAcceptance'
  <2>1. inv \in [Inv -> InvRecord] /\ inv' = [inv EXCEPT ![i].state = "expired"]
    BY <1>5 DEF InvitationExpires, TypeOK
  <2>2. \A j \in Inv : /\ inv'[j].ws = inv[j].ws /\ inv'[j].email = inv[j].email
                       /\ inv'[j].role = inv[j].role
    BY <2>1, StateUpdate
  <2>3. UNCHANGED <<role, given, joins, mailed, preceded>>
    BY <1>5 DEF InvitationExpires, history
  <2> QED
    BY <1>b, <2>2, <2>3, RolesAreKept
<1>6. ASSUME NEW q \in Call, Join(q) PROVE RolesFollowAcceptance'
  <2>1. PICK i \in Inv : i = call[q].inv
    BY <1>6 DEF Join, JoinAs, RowsAreNamed
  <2>2. PICK u \in User : u = call[q].user
    BY <1>6 DEF Join, JoinAs, RowsAreNamed
  <2>3. inv[i].state = "accepted" /\ joins[i] = 0 /\ inv[i].email = u
    BY <1>6, <2>1, <2>2 DEF Join, JoinAs, ClaimsAreExclusive, Holds
  <2>4. i \in mailed
    BY <1>a, <2>3
  <2>5. PICK w \in User : w = inv[i].ws
    BY <2>4 DEF RowsAreNamed
  <2>6. UNCHANGED <<inv, mailed, given, preceded>>
    BY <1>6 DEF Join, JoinAs
  <2>7. /\ role'[w][u] = inv[i].role
        /\ \A x, v \in User : x # w \/ v # u => role'[x][v] = role[x][v]
    BY <1>6, <2>1, <2>2, <2>5 DEF Join, JoinAs, TypeOK
  <2>8. joins'[i] > 0 /\ \A j \in Inv \ {i} : joins'[j] = joins[j]
    BY <1>6, <1>a, <2>1, <2>3 DEF Join, JoinAs, TypeOK
  <2> SUFFICES ASSUME NEW x \in User, NEW v \in User
               PROVE  /\ Led(x, v)' = {} => role'[x][v] = given[x][v]
                      /\ Led(x, v)' # {} =>
                           \E k \in Led(x, v)' : /\ inv[k].role = role'[x][v]
                                                 /\ \A j \in Led(x, v)' : k \notin preceded[j]
    BY <2>6 DEF RolesFollowAcceptance
  \* Nobody could have come after the invitation that joins now.
  <2>9. CASE x = w /\ v = u
    <3>1. i \in Led(x, v)'
      BY <2>3, <2>4, <2>5, <2>6, <2>8, <2>9 DEF Led
    <3>2. \A j \in Inv : i \notin preceded[j]
      BY <2>3 DEF MembersHaveAccounts
    <3>3. Led(x, v)' \subseteq Inv
      BY <1>b, <2>6 DEF Led
    <3> QED
      BY <2>7, <2>9, <3>1, <3>2, <3>3
  <2>10. CASE x # w \/ v # u
    <3>1. Led(x, v)' = Led(x, v)
      BY <1>b, <2>3, <2>5, <2>6, <2>8, <2>10 DEF Led
    <3>2. role'[x][v] = role[x][v]
      BY <2>7, <2>10
    <3> QED
      BY <3>1, <3>2 DEF RolesFollowAcceptance
  <2> QED
    BY <2>9, <2>10
<1>7. CASE UNCHANGED <<role, given, joins, inv, mailed, preceded>>
  BY <1>7, RolesAreKept
<1>8. ASSUME NEW q \in Call, CallDies(q) \/ BeginBootstrap(q) \/ \E u \in User : BeginRegister(q, u)
      PROVE  RolesFollowAcceptance'
  BY <1>7, <1>8 DEF CallDies, BeginBootstrap, BeginRegister, rows, history
<1>9. ASSUME NEW q \in Call, NEW u \in User, NEW w \in User,
             BeginInvite(q, u, w) \/ \E r \in Asked : BeginCode(q, u, w, r)
      PROVE  RolesFollowAcceptance'
  BY <1>7, <1>9 DEF BeginInvite, BeginCode, rows, history
<1>10. ASSUME NEW q \in Call, NEW c \in Code, FinishCode(q, c) \/ BeginPair(q, c)
       PROVE  RolesFollowAcceptance'
  BY <1>7, <1>10 DEF FinishCode, BeginPair, rows, history
<1>11. ASSUME NEW c \in Code, CodeExpires(c) PROVE RolesFollowAcceptance'
  BY <1>7, <1>11 DEF CodeExpires, history
<1>12. CASE UNCHANGED vars
  BY <1>7, <1>12 DEF vars, rows, history
<1> QED
  BY <1>1, <1>2, <1>3, <1>4, <1>5, <1>6, <1>8, <1>9, <1>10, <1>11, <1>12 DEF Next

\* The invariant is one of every behaviour.
LEMMA Invariance == Spec => []IInv
<1>1. IInv /\ [Next]_vars => IInv'
  BY TypeStep, AccountStep, NameStep, ClaimStep, JoinedStep, MemberStep,
     RoleStep DEF IInv
<1> QED
  BY InitIInv, <1>1, PTL DEF Spec

\* The variables always have their types.
THEOREM TypeCorrect == Spec => []TypeOK
BY Invariance, PTL DEF IInv

\* Registrations at once never give an email two accounts (register()).
THEOREM EmailsAreUnique == Spec => []EmailHasOneAccount
BY Invariance, PTL DEF IInv

\* However often and by whomever an invitation is tried, it makes one
\* membership at most, and is lost only with a request (acceptInvitation).
THEOREM AcceptanceJoins == Spec => []AcceptedMeansJoined
BY Invariance, PTL DEF IInv

\* A role comes with the account, or from an invitation accepted by its holder
\* that no other one, accepted later, replaced (acceptInvitation, pair, register).
THEOREM RolesAreGiven == Spec => []RolesFollowAcceptance
BY Invariance, PTL DEF IInv

-----------------------------------------------------------------------------
(* The outbox *)

\* What a worker's local state is, spelled out.
LEMMA LocalTypes ==
  ASSUME OutboxTypeOK, ClaimsAreCounted, NEW w \in Worker
  PROVE  /\ todo[w] \subseteq Claims /\ NoClaim \notin Claims
         /\ cur[w].pc \in {"idle", "deliver", "sent", "failed"}
         /\ cur[w].pc \in {"sent", "failed"} => cur[w].claim \in Claims
         /\ cur[w] = [pc |-> cur[w].pc, claim |-> cur[w].claim]
         /\ OpenClaims(w) = IF cur[w].pc \in {"idle", "deliver"} THEN todo[w]
                                                ELSE todo[w] \cup {cur[w].claim}
<1>1. todo[w] \subseteq Claims
  BY DEF OutboxTypeOK
<1>2. NoClaim \notin Claims
  BY LimitAssumption DEF NoClaim, Claims, Email
<1>3. cur[w] \in [pc : {"idle", "deliver", "sent", "failed"}, claim : Claims \cup {NoClaim}]
  BY DEF OutboxTypeOK
<1>4. /\ cur[w].pc \in {"idle", "deliver", "sent", "failed"}
      /\ cur[w].claim \in Claims \cup {NoClaim}
      /\ cur[w] = [pc |-> cur[w].pc, claim |-> cur[w].claim]
  BY <1>3
<1>5. cur[w].pc \in {"idle", "deliver"} <=> cur[w].claim = NoClaim
  BY DEF ClaimsAreCounted
<1> QED
  BY <1>1, <1>2, <1>4, <1>5 DEF OpenClaims

\* A batch gives an idle worker the next attempt at each of its rows.
LEMMA BatchClaims ==
  ASSUME OutboxTypeOK, ClaimsAreCounted, NEW w \in Worker, ClaimBatch(w)
  PROVE  /\ OpenClaims(w) = {}
         /\ OpenClaims(w)' = {[id |-> e, try |-> attempts[e] + 1] : e \in Batch}
         /\ todo'[w] = OpenClaims(w)'
         /\ cur'[w].pc = "deliver" /\ cur'[w].claim = NoClaim
         /\ \A v \in Worker \ {w} :
              todo'[v] = todo[v] /\ cur'[v] = cur[v] /\ OpenClaims(v)' = OpenClaims(v)
<1> DEFINE new == {[id |-> e, try |-> attempts[e] + 1] : e \in Batch}
<1>1. OpenClaims(w) = {} /\ cur[w].claim = NoClaim
  BY LocalTypes DEF ClaimBatch, ClaimsAreCounted
<1>2. new \subseteq Claims
  <2>1. ASSUME NEW e \in Batch PROVE [id |-> e, try |-> attempts[e] + 1] \in Claims
    <3>1. e \in Email /\ attempts[e] + 1 \in Nat
      BY DEF Batch, OutboxTypeOK
    <3> QED
      BY <3>1 DEF Claims
  <2> QED
    BY <2>1
<1>3. todo'[w] = new /\ \A v \in Worker \ {w} : todo'[v] = todo[v]
  BY DEF ClaimBatch, OutboxTypeOK
<1>4. cur'[w].pc = "deliver" /\ cur'[w].claim = NoClaim /\ \A v \in Worker \ {w} : cur'[v] = cur[v]
  BY <1>1 DEF ClaimBatch, OutboxTypeOK
<1>5. NoClaim \notin new
  BY <1>2, LocalTypes
<1>6. OpenClaims(w)' = new
  <2> HIDE DEF new
  <2> QED
    BY <1>3, <1>4, <1>5 DEF OpenClaims
<1> QED
  BY <1>1, <1>3, <1>4, <1>6 DEF OpenClaims

\* A delivery moves a claim, nothing else does anything but drop claims.
Kept(w) ==
  \A v \in Worker \ {w} : todo'[v] = todo[v] /\ cur'[v] = cur[v] /\ OpenClaims(v)' = OpenClaims(v)

LEMMA DeliverClaims ==
  ASSUME OutboxTypeOK, ClaimsAreCounted, NEW w \in Worker, Deliver(w)
  PROVE  /\ cur[w].pc = "deliver" /\ Kept(w)
         /\ \E c \in todo[w], accepted, answered \in BOOLEAN :
              /\ accepted \/ answered
              /\ todo'[w] = todo[w] \ {c}
              /\ cur'[w] = [pc |-> IF accepted /\ answered THEN "sent" ELSE "failed", claim |-> c]
              /\ delivered' = [delivered EXCEPT ![c.id] = IF accepted THEN @ + 1 ELSE @]
              /\ mishaps' = IF answered THEN mishaps ELSE mishaps \cup {c.id}
              /\ OpenClaims(w)' = OpenClaims(w)
<1>1. cur[w].pc = "deliver" /\ cur[w].claim = NoClaim /\ OpenClaims(w) = todo[w]
  BY LocalTypes DEF Deliver, ClaimsAreCounted
<1>2. PICK c \in todo[w], accepted \in BOOLEAN, answered \in BOOLEAN :
        /\ accepted \/ answered
        /\ todo' = [todo EXCEPT ![w] = @ \ {c}]
        /\ cur' = [cur EXCEPT ![w] = [pc |-> IF accepted /\ answered THEN "sent" ELSE "failed",
                                      claim |-> c]]
        /\ delivered' = [delivered EXCEPT ![c.id] = IF accepted THEN @ + 1 ELSE @]
        /\ mishaps' = IF answered THEN mishaps ELSE mishaps \cup {c.id}
  BY DEF Deliver
<1>3. todo'[w] = todo[w] \ {c} /\ \A v \in Worker \ {w} : todo'[v] = todo[v]
  BY <1>2 DEF OutboxTypeOK
<1>4. /\ cur'[w] = [pc |-> IF accepted /\ answered THEN "sent" ELSE "failed", claim |-> c]
      /\ \A v \in Worker \ {w} : cur'[v] = cur[v]
  BY <1>2 DEF OutboxTypeOK
<1>5. OpenClaims(w)' = OpenClaims(w)
  BY <1>1, <1>3, <1>4, LocalTypes DEF OpenClaims
<1>6. Kept(w)
  BY <1>3, <1>4 DEF Kept, OpenClaims
<1> QED
  BY <1>1, <1>2, <1>3, <1>4, <1>5, <1>6

\* Marking ends a worker's claim, and its batch with the last one.
LEMMA MarkClaims ==
  ASSUME OutboxTypeOK, ClaimsAreCounted, NEW w \in Worker, NextClaim(w), UNCHANGED todo,
         cur[w].pc \in {"sent", "failed"}
  PROVE  /\ Kept(w) /\ todo'[w] = todo[w] /\ OpenClaims(w)' = todo[w]
         /\ cur[w].claim \in Claims \cap OpenClaims(w) /\ cur[w].claim \notin todo[w]
         /\ cur'[w] = [pc |-> IF todo[w] = {} THEN "idle" ELSE "deliver", claim |-> NoClaim]
<1>1. /\ cur'[w] = [pc |-> IF todo[w] = {} THEN "idle" ELSE "deliver", claim |-> NoClaim]
      /\ \A v \in Worker \ {w} : cur'[v] = cur[v]
  BY DEF NextClaim, OutboxTypeOK
<1>2. OpenClaims(w)' = todo[w]
  <2>1. cur'[w].claim = NoClaim
    BY <1>1
  <2>2. NoClaim \notin todo[w]
    BY LocalTypes
  <2> QED
    BY <2>1, <2>2 DEF OpenClaims
<1>3. cur[w].claim \in Claims \cap OpenClaims(w)
  <2>1. cur[w].claim \in Claims /\ NoClaim \notin Claims
    BY LocalTypes
  <2> QED
    BY <2>1 DEF OpenClaims
<1>4. cur[w].claim \notin todo[w]
  BY DEF ClaimsAreCounted
<1> QED
  BY <1>1, <1>2, <1>3, <1>4 DEF Kept, OpenClaims

\* A record that fails keeps the claim.
LEMMA FailClaims ==
  ASSUME OutboxTypeOK, ClaimsAreCounted, NEW w \in Worker, MarkSentFails(w)
  PROVE  /\ Kept(w) /\ todo'[w] = todo[w] /\ OpenClaims(w)' = OpenClaims(w)
         /\ cur[w].pc = "sent" /\ cur[w].claim \in Claims \cap OpenClaims(w)
         /\ cur'[w] = [pc |-> "failed", claim |-> cur[w].claim]
<1>1. /\ cur'[w] = [cur[w] EXCEPT !.pc = "failed"] /\ UNCHANGED todo
      /\ \A v \in Worker \ {w} : cur'[v] = cur[v]
  BY DEF MarkSentFails, OutboxTypeOK
<1>2. cur'[w] = [pc |-> "failed", claim |-> cur[w].claim]
  BY <1>1, LocalTypes
<1>3. cur[w].pc = "sent"
  BY DEF MarkSentFails
<1> QED
  BY <1>1, <1>2, <1>3, LocalTypes DEF Kept, OpenClaims

\* What is abandoned leaves no claim.
LEMMA AbandonClaims ==
  ASSUME OutboxTypeOK, NEW w \in Worker, Abandon(w)
  PROVE  Kept(w) /\ todo'[w] = {} /\ OpenClaims(w)' = {} /\ cur'[w] = NoBatch
<1>1. cur'[w] = NoBatch /\ todo'[w] = {}
  BY DEF Abandon, OutboxTypeOK
<1>2. \A v \in Worker \ {w} : cur'[v] = cur[v] /\ todo'[v] = todo[v]
  BY DEF Abandon, OutboxTypeOK
<1> QED
  BY <1>1, <1>2 DEF Kept, OpenClaims, NoBatch

\* emailRetryDelaySeconds never exceeds an hour.
LEMMA RetryDelayInRange ==
  ASSUME NEW n \in 1..MaxAttempts
  PROVE  RetryDelay(n) \in 0..MaxWait
<1>1. n - 1 \in 0..MaxAttempts
  BY LimitAssumption
<1>2. 2^(n - 1) \in Nat
  BY <1>1, PowerAssumption
<1> DEFINE p == 2^(n - 1)
<1>3. p \in Nat
  BY <1>2
<1> HIDE DEF p
<1>4. Smaller(MaxWait, p) \in 0..MaxWait
  BY <1>3, LimitAssumption DEF Smaller
<1> QED
  BY <1>4 DEF RetryDelay, p

LEMMA AbandonTypes ==
  ASSUME OutboxTypeOK, NEW w \in Worker, Abandon(w)
  PROVE  OutboxTypeOK'
BY DEF OutboxTypeOK, Abandon, NoBatch, rowVars, historyVars

\* Every step keeps the types.
LEMMA OutboxTypeStep ==
  ASSUME OutboxTypeOK, ClaimsAreCounted, DeliveriesAreAccounted, [OutboxNext]_outboxVars
  PROVE  OutboxTypeOK'
<1> USE DEF OutboxTypeOK
<1>1. CASE Enqueue
  BY <1>1, LimitAssumption DEF Enqueue, rowVars, historyVars
<1>2. CASE Tick
  <2>1. \A n \in 0..MaxWait : n # 0 => n - 1 \in 0..MaxWait
    BY LimitAssumption
  <2>2. wait' \in [Email -> 0..MaxWait]
    BY <1>2, <2>1, LimitAssumption DEF Tick
  <2>3. \A n \in 0..LockLife + 1 : Longer(n) \in 0..LockLife + 1
    BY LimitAssumption DEF Longer, Smaller
  <2>4. lockAge' \in [Email -> 0..LockLife + 1] /\ batchAge' \in [Worker -> 0..LockLife + 1]
    BY <1>2, <2>3 DEF Tick
  <2> QED
    BY <1>2, <2>2, <2>4 DEF Tick
<1>3. ASSUME NEW w \in Worker, ClaimBatch(w) PROVE OutboxTypeOK'
  <2>1. attempts' \in [Email -> Nat] /\ lockedBy' \in [Email -> Worker \cup {None}]
    BY <1>3 DEF ClaimBatch
  <2>2. lockAge' \in [Email -> 0..LockLife + 1] /\ batchAge' \in [Worker -> 0..LockLife + 1]
    BY <1>3, LimitAssumption DEF ClaimBatch
  <2>3. todo' \in [Worker -> SUBSET Claims]
    <3>1. ASSUME NEW e \in Batch PROVE [id |-> e, try |-> attempts[e] + 1] \in Claims
      <4>1. e \in Email /\ attempts[e] + 1 \in Nat
        BY DEF Batch
      <4> QED
        BY <4>1 DEF Claims
    <3> QED
      BY <1>3, <3>1 DEF ClaimBatch
  <2>4. cur' \in [Worker -> [pc : {"idle", "deliver", "sent", "failed"}, claim : Claims \cup {NoClaim}]]
    BY <1>3 DEF ClaimBatch
  <2>5. mishaps' \subseteq Email
    BY <1>3 DEF ClaimBatch, Batch
  <2> QED
    BY <1>3, <2>1, <2>2, <2>3, <2>4, <2>5 DEF ClaimBatch
<1>4. ASSUME NEW w \in Worker, Deliver(w) PROVE OutboxTypeOK'
  <2>1. PICK c \in todo[w], accepted \in BOOLEAN, answered \in BOOLEAN :
          /\ accepted \/ answered
          /\ todo' = [todo EXCEPT ![w] = @ \ {c}]
          /\ cur' = [cur EXCEPT ![w] = [pc |-> IF accepted /\ answered THEN "sent" ELSE "failed",
                                        claim |-> c]]
          /\ delivered' = [delivered EXCEPT ![c.id] = IF accepted THEN @ + 1 ELSE @]
          /\ mishaps' = IF answered THEN mishaps ELSE mishaps \cup {c.id}
    BY <1>4 DEF Deliver
  <2>2. c \in Claims /\ c.id \in Email
    BY DEF Claims
  <2>3. todo' \in [Worker -> SUBSET Claims]
    BY <2>1
  <2>4. cur' \in [Worker -> [pc : {"idle", "deliver", "sent", "failed"}, claim : Claims \cup {NoClaim}]]
    BY <2>1, <2>2
  <2>5. delivered' \in [Email -> Nat] /\ mishaps' \subseteq Email
    BY <2>1, <2>2
  <2> QED
    BY <1>4, <2>3, <2>4, <2>5 DEF Deliver, rowVars
<1>5. ASSUME NEW w \in Worker, MarkSent(w) PROVE OutboxTypeOK'
  <2>1. cur' \in [Worker -> [pc : {"idle", "deliver", "sent", "failed"}, claim : Claims \cup {NoClaim}]]
    BY <1>5 DEF MarkSent, NextClaim
  <2>2. cur[w].claim \in Claims
    BY <1>5, LocalTypes DEF MarkSent
  <2>3. cur[w].claim.id \in Email
    BY <2>2 DEF Claims
  <2>4. sent' \subseteq Email /\ lockedBy' \in [Email -> Worker \cup {None}]
    BY <1>5, <2>3 DEF MarkSent
  <2> QED
    BY <1>5, <2>1, <2>4 DEF MarkSent, historyVars
<1>6. ASSUME NEW w \in Worker, MarkSentFails(w) PROVE OutboxTypeOK'
  <2>1. cur[w].claim \in Claims
    BY <1>6, LocalTypes DEF MarkSentFails
  <2>2. mishaps' \subseteq Email
    BY <1>6, <2>1 DEF MarkSentFails, Claims
  <2>3. cur' \in [Worker -> [pc : {"idle", "deliver", "sent", "failed"}, claim : Claims \cup {NoClaim}]]
    BY <1>6 DEF MarkSentFails
  <2> QED
    BY <1>6, <2>2, <2>3 DEF MarkSentFails, rowVars
<1>7. ASSUME NEW w \in Worker, MarkFailed(w) PROVE OutboxTypeOK'
  <2>1. cur' \in [Worker -> [pc : {"idle", "deliver", "sent", "failed"}, claim : Claims \cup {NoClaim}]]
    BY <1>7 DEF MarkFailed, NextClaim
  <2>2. cur[w].claim \in Claims /\ cur[w].claim \in OpenClaims(w)
    BY <1>7, LocalTypes DEF MarkFailed
  <2>3. cur[w].claim.id \in Email /\ cur[w].claim.try \in 1..MaxAttempts
    <3>1. cur[w].claim.id \in Email /\ cur[w].claim.try \in 1..attempts[cur[w].claim.id]
      BY <2>2 DEF Claims, ClaimsAreCounted
    <3>2. attempts[cur[w].claim.id] <= MaxAttempts /\ attempts[cur[w].claim.id] \in Nat
      BY <3>1 DEF DeliveriesAreAccounted
    <3> QED
      BY <3>1, <3>2, LimitAssumption
  <2>4. RetryDelay(cur[w].claim.try) \in 0..MaxWait
    BY <2>3, RetryDelayInRange
  <2>5. wait' \in [Email -> 0..MaxWait] /\ lockedBy' \in [Email -> Worker \cup {None}]
    BY <1>7, <2>3, <2>4 DEF MarkFailed
  <2> QED
    BY <1>7, <2>1, <2>5 DEF MarkFailed, historyVars
<1>8. ASSUME NEW w \in Worker, MarkFailedFails(w) PROVE OutboxTypeOK'
  BY <1>8, AbandonTypes DEF MarkFailedFails
<1>9. ASSUME NEW w \in Worker, WorkerDies(w) PROVE OutboxTypeOK'
  BY <1>9, AbandonTypes DEF WorkerDies
<1>10. CASE UNCHANGED outboxVars
  BY <1>10 DEF outboxVars, rowVars, historyVars
<1> QED
  BY <1>1, <1>2, <1>3, <1>4, <1>5, <1>6, <1>7, <1>8, <1>9, <1>10
     DEF OutboxNext, WorkerStep

\* What ClaimsAreCounted says of one worker.
Counted(w) ==
  /\ \A c \in OpenClaims(w) : c \in Claims /\ c.try \in 1..attempts[c.id]
  /\ \A c, d \in OpenClaims(w) : c.id = d.id => c = d
  /\ cur[w].claim \notin todo[w]
  /\ cur[w].pc \in {"idle", "deliver"} <=> cur[w].claim = NoClaim
  /\ cur[w].pc = "idle" => todo[w] = {}

\* It goes on to hold of a worker that does nothing.
LEMMA KeptCounted ==
  ASSUME OutboxTypeOK, NEW w \in Worker, Counted(w), todo'[w] = todo[w], cur'[w] = cur[w],
         attempts' = attempts \/ \A e \in Email : attempts'[e] \in Nat /\ attempts'[e] >= attempts[e]
  PROVE  Counted(w)'
<1>1. OpenClaims(w)' = OpenClaims(w)
  BY DEF OpenClaims
<1>2. ASSUME NEW c \in OpenClaims(w) PROVE c.try \in 1..attempts'[c.id]
  <2>1. c.id \in Email /\ c.try \in 1..attempts[c.id] /\ attempts[c.id] \in Nat
    BY DEF Counted, Claims, OutboxTypeOK
  <2> QED
    BY <2>1
<1> QED
  BY <1>1, <1>2 DEF Counted

\* Every step keeps a worker's claims in order.
LEMMA CountedStep ==
  ASSUME OutboxTypeOK, ClaimsAreCounted, [OutboxNext]_outboxVars
  PROVE  ClaimsAreCounted'
<1>0. \A v \in Worker : Counted(v)
  BY DEF ClaimsAreCounted, Counted
<1> DEFINE Goal == \A v \in Worker : Counted(v)'
<1> SUFFICES Goal
  BY DEF ClaimsAreCounted, Counted
<1> USE <1>0
<1>1. CASE Enqueue
  BY <1>1, KeptCounted DEF Enqueue
<1>2. CASE Tick
  BY <1>2, KeptCounted DEF Tick
<1>3. ASSUME NEW w \in Worker, ClaimBatch(w) PROVE Goal
  <2>1. \A e \in Email : attempts'[e] \in Nat /\ attempts'[e] >= attempts[e]
    BY <1>3 DEF ClaimBatch, OutboxTypeOK
  <2>2. Counted(w)'
    <3>1. /\ todo'[w] = {[id |-> e, try |-> attempts[e] + 1] : e \in Batch}
          /\ OpenClaims(w)' = {[id |-> e, try |-> attempts[e] + 1] : e \in Batch}
          /\ cur'[w].pc = "deliver" /\ cur'[w].claim = NoClaim
      BY <1>3, BatchClaims
    <3>2. ASSUME NEW e \in Batch, NEW c, c = [id |-> e, try |-> attempts[e] + 1]
          PROVE  c \in Claims /\ c.id = e /\ c.try \in 1..attempts'[c.id]
      <4>1. e \in Email /\ attempts[e] \in Nat
        BY DEF Batch, OutboxTypeOK
      <4>2. attempts'[e] = attempts[e] + 1
        BY <1>3, <4>1 DEF ClaimBatch
      <4> QED
        BY <3>2, <4>1, <4>2 DEF Claims
    <3>3. NoClaim \notin todo'[w]
      BY <3>1 DEF OpenClaims
    <3> QED
      BY <3>1, <3>2, <3>3 DEF Counted
  <2> QED
    BY <1>3, <2>1, <2>2, BatchClaims, KeptCounted
<1>4. ASSUME NEW w \in Worker, Deliver(w) PROVE Goal
  <2>0. Kept(w) /\ cur[w].pc = "deliver"
    BY <1>4, DeliverClaims
  <2>1. PICK c \in todo[w], accepted \in BOOLEAN, answered \in BOOLEAN :
          /\ OpenClaims(w)' = OpenClaims(w) /\ todo'[w] = todo[w] \ {c}
          /\ cur'[w] = [pc |-> IF accepted /\ answered THEN "sent" ELSE "failed", claim |-> c]
    BY <1>4, DeliverClaims
  <2>2. UNCHANGED attempts /\ c # NoClaim
    BY <1>4, LocalTypes DEF Deliver, rowVars
  <2> QED
    BY <2>0, <2>1, <2>2, KeptCounted DEF Kept, Counted
<1>5. ASSUME NEW w \in Worker, MarkSent(w) PROVE Goal
  <2>0. NextClaim(w) /\ UNCHANGED todo /\ cur[w].pc \in {"sent", "failed"}
    BY <1>5 DEF MarkSent
  <2>1. /\ Kept(w) /\ todo'[w] = todo[w] /\ OpenClaims(w)' = todo[w]
        /\ cur'[w] = [pc |-> IF todo[w] = {} THEN "idle" ELSE "deliver", claim |-> NoClaim]
    BY <2>0, MarkClaims
  <2>2. Counted(w)'
    <3>1. todo[w] \subseteq OpenClaims(w) /\ NoClaim \notin todo[w]
      BY LocalTypes
    <3> QED
      BY <1>5, <2>1, <3>1 DEF MarkSent, Counted
  <2> QED
    BY <1>5, <2>1, <2>2, KeptCounted DEF Kept, MarkSent
<1>6. ASSUME NEW w \in Worker, MarkSentFails(w) PROVE Goal
  <2>1. /\ Kept(w) /\ todo'[w] = todo[w] /\ OpenClaims(w)' = OpenClaims(w) /\ cur[w].pc = "sent"
        /\ cur'[w] = [pc |-> "failed", claim |-> cur[w].claim]
    BY <1>6, FailClaims
  <2>2. UNCHANGED attempts
    BY <1>6 DEF MarkSentFails, rowVars
  <2> QED
    BY <2>1, <2>2, KeptCounted DEF Kept, Counted
<1>7. ASSUME NEW w \in Worker, MarkFailed(w) PROVE Goal
  <2>0. NextClaim(w) /\ UNCHANGED todo /\ cur[w].pc \in {"sent", "failed"}
    BY <1>7 DEF MarkFailed
  <2>1. /\ Kept(w) /\ todo'[w] = todo[w] /\ OpenClaims(w)' = todo[w]
        /\ cur'[w] = [pc |-> IF todo[w] = {} THEN "idle" ELSE "deliver", claim |-> NoClaim]
    BY <2>0, MarkClaims
  <2>2. Counted(w)'
    <3>1. todo[w] \subseteq OpenClaims(w) /\ NoClaim \notin todo[w]
      BY LocalTypes
    <3> QED
      BY <1>7, <2>1, <3>1 DEF MarkFailed, Counted
  <2> QED
    BY <1>7, <2>1, <2>2, KeptCounted DEF Kept, MarkFailed
<1>8. ASSUME NEW w \in Worker, MarkFailedFails(w) PROVE Goal
  <2>1. Kept(w) /\ todo'[w] = {} /\ OpenClaims(w)' = {} /\ cur'[w].pc = "idle" /\ cur'[w].claim = NoClaim
    BY <1>8, AbandonClaims DEF MarkFailedFails, NoBatch
  <2>2. UNCHANGED attempts
    BY <1>8 DEF MarkFailedFails, Abandon, rowVars
  <2> QED
    BY <2>1, <2>2, KeptCounted DEF Kept, Counted
<1>9. ASSUME NEW w \in Worker, WorkerDies(w) PROVE Goal
  <2>1. Kept(w) /\ todo'[w] = {} /\ OpenClaims(w)' = {} /\ cur'[w].pc = "idle" /\ cur'[w].claim = NoClaim
    BY <1>9, AbandonClaims DEF WorkerDies, NoBatch
  <2>2. UNCHANGED attempts
    BY <1>9 DEF WorkerDies, Abandon, rowVars
  <2> QED
    BY <2>1, <2>2, KeptCounted DEF Kept, Counted
<1>10. CASE UNCHANGED outboxVars
  BY <1>10, KeptCounted DEF outboxVars, rowVars
<1> QED
  BY <1>1, <1>2, <1>3, <1>4, <1>5, <1>6, <1>7, <1>8, <1>9, <1>10
     DEF OutboxNext, WorkerStep

\* Only a batch gives claims, to one worker.
LEMMA ClaimsShrink ==
  ASSUME OutboxTypeOK, ClaimsAreCounted, [OutboxNext]_outboxVars
  PROVE  \/ \E w \in Worker : ClaimBatch(w)
         \/ /\ UNCHANGED attempts
            /\ \A v \in Worker : OpenClaims(v)' \subseteq OpenClaims(v) /\ todo'[v] \subseteq todo[v]
<1> DEFINE Goal == \/ \E w \in Worker : ClaimBatch(w)
                   \/ /\ UNCHANGED attempts
                      /\ \A v \in Worker : OpenClaims(v)' \subseteq OpenClaims(v) /\ todo'[v] \subseteq todo[v]
<1> SUFFICES Goal
  OBVIOUS
<1>1. CASE Enqueue
  BY <1>1 DEF Enqueue, OpenClaims
<1>2. CASE Tick
  BY <1>2 DEF Tick, OpenClaims
<1>3. ASSUME NEW w \in Worker, ClaimBatch(w) PROVE Goal
  BY <1>3
<1>4. ASSUME NEW w \in Worker, Deliver(w) PROVE Goal
  <2>1. Kept(w) /\ OpenClaims(w)' = OpenClaims(w) /\ todo'[w] \subseteq todo[w]
    BY <1>4, DeliverClaims
  <2> QED
    BY <1>4, <2>1 DEF Kept, Deliver, rowVars
<1>5. ASSUME NEW w \in Worker, MarkSent(w) PROVE Goal
  <2>1. NextClaim(w) /\ UNCHANGED <<todo, attempts>> /\ cur[w].pc \in {"sent", "failed"}
    BY <1>5 DEF MarkSent
  <2>2. /\ Kept(w) /\ todo'[w] = todo[w] /\ OpenClaims(w)' = todo[w]
    BY <2>1, MarkClaims
  <2> QED
    BY <2>1, <2>2, LocalTypes DEF Kept
<1>6. ASSUME NEW w \in Worker, MarkSentFails(w) PROVE Goal
  <2>1. Kept(w) /\ OpenClaims(w)' = OpenClaims(w) /\ todo'[w] = todo[w]
    BY <1>6, FailClaims
  <2> QED
    BY <1>6, <2>1 DEF Kept, MarkSentFails, rowVars
<1>7. ASSUME NEW w \in Worker, MarkFailed(w) PROVE Goal
  <2>1. NextClaim(w) /\ UNCHANGED <<todo, attempts>> /\ cur[w].pc \in {"sent", "failed"}
    BY <1>7 DEF MarkFailed
  <2>2. /\ Kept(w) /\ todo'[w] = todo[w] /\ OpenClaims(w)' = todo[w]
    BY <2>1, MarkClaims
  <2> QED
    BY <2>1, <2>2, LocalTypes DEF Kept
<1>8. ASSUME NEW w \in Worker, MarkFailedFails(w) PROVE Goal
  <2>1. Kept(w) /\ todo'[w] = {} /\ OpenClaims(w)' = {}
    BY <1>8, AbandonClaims DEF MarkFailedFails
  <2> QED
    BY <1>8, <2>1 DEF Kept, MarkFailedFails, Abandon, rowVars
<1>9. ASSUME NEW w \in Worker, WorkerDies(w) PROVE Goal
  <2>1. Kept(w) /\ todo'[w] = {} /\ OpenClaims(w)' = {}
    BY <1>9, AbandonClaims DEF WorkerDies
  <2> QED
    BY <1>9, <2>1 DEF Kept, WorkerDies, Abandon, rowVars
<1>10. CASE UNCHANGED outboxVars
  BY <1>10 DEF outboxVars, rowVars, OpenClaims
<1> QED
  BY <1>1, <1>2, <1>3, <1>4, <1>5, <1>6, <1>7, <1>8, <1>9, <1>10
     DEF OutboxNext, WorkerStep

\* An attempt is claimed once: a batch counts new ones.
LEMMA ExclusiveStep ==
  ASSUME OutboxTypeOK, ClaimsAreCounted, AttemptsAreExclusive, [OutboxNext]_outboxVars
  PROVE  AttemptsAreExclusive'
<1>1. ASSUME NEW w \in Worker, ClaimBatch(w) PROVE AttemptsAreExclusive'
  <2>1. /\ OpenClaims(w)' = {[id |-> e, try |-> attempts[e] + 1] : e \in Batch}
        /\ \A v \in Worker \ {w} : OpenClaims(v)' = OpenClaims(v)
    BY <1>1, BatchClaims
  <2>2. ASSUME NEW v \in Worker \ {w}, NEW c \in OpenClaims(v), c \in OpenClaims(w)' PROVE FALSE
    <3>1. PICK e \in Batch : c = [id |-> e, try |-> attempts[e] + 1]
      BY <2>1, <2>2
    <3>2. c.id = e /\ c.try = attempts[e] + 1 /\ attempts[e] \in Nat
      BY <3>1 DEF Batch, OutboxTypeOK
    <3>3. c.try \in 1..attempts[c.id]
      BY DEF ClaimsAreCounted
    <3> QED
      BY <3>2, <3>3
  <2> QED
    BY <2>1, <2>2 DEF AttemptsAreExclusive
<1>2. CASE \A v \in Worker : OpenClaims(v)' \subseteq OpenClaims(v)
  BY <1>2 DEF AttemptsAreExclusive
<1> QED
  BY <1>1, <1>2, ClaimsShrink

\* The attempts still to be made are finitely many, and no others become so.
LEMMA UntriedFinite ==
  ASSUME OutboxTypeOK, NEW e \in Email
  PROVE  IsFiniteSet(Untried(e)) /\ Cardinality(Untried(e)) \in Nat
<1>1. attempts[e] \in Nat /\ Untried(e) \subseteq 1..attempts[e]
  BY DEF OutboxTypeOK, Untried
<1>2. IsFiniteSet(1..attempts[e])
  BY <1>1, FS_Interval
<1>3. IsFiniteSet(Untried(e))
  BY <1>1, <1>2, FS_Subset
<1> QED
  BY <1>3, FS_CardinalityType

LEMMA UntriedShrinks ==
  ASSUME OutboxTypeOK, NEW e \in Email, UNCHANGED attempts,
         \A v \in Worker : todo'[v] \subseteq todo[v]
  PROVE  /\ Cardinality(Untried(e))' \in Nat
         /\ Cardinality(Untried(e))' <= Cardinality(Untried(e))
<1>1. Untried(e)' \subseteq Untried(e)
  BY DEF Untried
<1> QED
  BY <1>1, UntriedFinite, FS_Subset, FS_CardinalityType

\* A delivery uses an attempt up that was claimed; a batch counts each before.
LEMMA CoverStep ==
  ASSUME OutboxTypeOK, ClaimsAreCounted, AttemptsAreExclusive, AttemptsCoverDeliveries,
         [OutboxNext]_outboxVars
  PROVE  AttemptsCoverDeliveries'
<1>1. ASSUME NEW w \in Worker, ClaimBatch(w) PROVE AttemptsCoverDeliveries'
  <2> SUFFICES ASSUME NEW e \in Email
               PROVE  /\ delivered'[e] + Cardinality(Untried(e))' <= attempts'[e]
                      /\ attempts'[e] <= MaxAttempts
    BY DEF AttemptsCoverDeliveries
  <2>0. delivered' = delivered /\ delivered[e] \in Nat /\ attempts[e] \in Nat
    BY <1>1 DEF ClaimBatch, OutboxTypeOK
  <2>1. /\ OpenClaims(w) = {} /\ todo[w] = {}
        /\ todo'[w] = {[id |-> d, try |-> attempts[d] + 1] : d \in Batch}
        /\ \A v \in Worker \ {w} : todo'[v] = todo[v]
    BY <1>1, BatchClaims, LocalTypes
  <2>2. CASE e \in Batch
    <3>1. attempts'[e] = attempts[e] + 1 /\ attempts[e] < MaxAttempts
      BY <1>1, <2>2 DEF ClaimBatch, Batch, Due
    <3>2. Untried(e)' \subseteq Untried(e) \cup {attempts[e] + 1}
      <4> SUFFICES ASSUME NEW n \in 1..attempts'[e], NEW v \in Worker,
                          [id |-> e, try |-> n] \in todo'[v], n # attempts[e] + 1
                   PROVE  n \in Untried(e)
        BY DEF Untried
      <4>1. n \in 1..attempts[e]
        BY <2>0, <3>1
      <4>2. CASE v = w
        <5>1. PICK d \in Batch : [id |-> e, try |-> n] = [id |-> d, try |-> attempts[d] + 1]
          BY <2>1, <4>2
        <5>2. d = e /\ n = attempts[d] + 1
          BY <5>1
        <5> QED
          BY <5>2
      <4>3. CASE v # w
        BY <2>1, <4>1, <4>3 DEF Untried
      <4> QED
        BY <4>2, <4>3
    <3>3. attempts[e] + 1 \notin Untried(e)
      BY <2>0 DEF Untried
    <3>4. /\ IsFiniteSet(Untried(e) \cup {attempts[e] + 1})
          /\ Cardinality(Untried(e) \cup {attempts[e] + 1}) = Cardinality(Untried(e)) + 1
      BY <3>3, UntriedFinite, FS_AddElement
    <3>5. /\ Cardinality(Untried(e)') <= Cardinality(Untried(e)) + 1
          /\ Cardinality(Untried(e)') \in Nat
      BY <3>2, <3>4, FS_Subset, FS_CardinalityType
    <3>6. /\ delivered[e] + Cardinality(Untried(e)) <= attempts[e]
          /\ Cardinality(Untried(e)) \in Nat
      BY UntriedFinite DEF AttemptsCoverDeliveries
    <3> QED
      BY <2>0, <3>1, <3>5, <3>6, LimitAssumption
  <2>3. CASE e \notin Batch
    <3>1. attempts'[e] = attempts[e]
      BY <1>1, <2>3 DEF ClaimBatch
    <3>2. Untried(e)' \subseteq Untried(e)
      <4> SUFFICES ASSUME NEW n \in 1..attempts[e], NEW v \in Worker,
                          [id |-> e, try |-> n] \in todo'[v]
                   PROVE  n \in Untried(e)
        BY <3>1 DEF Untried
      <4>1. v # w
        <5> SUFFICES ASSUME v = w PROVE FALSE
          OBVIOUS
        <5>1. PICK d \in Batch : [id |-> e, try |-> n] = [id |-> d, try |-> attempts[d] + 1]
          BY <2>1
        <5>2. d = e
          BY <5>1
        <5> QED
          BY <2>3, <5>2
      <4> QED
        BY <2>1, <4>1 DEF Untried
    <3>3. /\ Cardinality(Untried(e)') <= Cardinality(Untried(e))
          /\ Cardinality(Untried(e)') \in Nat
      BY <3>2, UntriedFinite, FS_Subset, FS_CardinalityType
    <3>4. /\ delivered[e] + Cardinality(Untried(e)) <= attempts[e]
          /\ Cardinality(Untried(e)) \in Nat /\ attempts[e] <= MaxAttempts
      BY UntriedFinite DEF AttemptsCoverDeliveries
    <3> QED
      BY <2>0, <3>1, <3>3, <3>4
  <2> QED
    BY <2>2, <2>3
<1>2. ASSUME NEW w \in Worker, Deliver(w) PROVE AttemptsCoverDeliveries'
  <2>1. PICK c \in todo[w] :
          /\ todo'[w] = todo[w] \ {c}
          /\ \E accepted \in BOOLEAN :
               delivered' = [delivered EXCEPT ![c.id] = IF accepted THEN @ + 1 ELSE @]
    BY <1>2, DeliverClaims
  <2>2. /\ \A v \in Worker \ {w} : todo'[v] = todo[v]
        /\ UNCHANGED attempts
    BY <1>2, DeliverClaims DEF Kept, Deliver, rowVars
  <2>3. /\ c \in Claims /\ c.id \in Email /\ c.try \in 1..attempts[c.id] /\ c \in OpenClaims(w)
        /\ c = [id |-> c.id, try |-> c.try]
    <3>1. c \in Claims /\ c \in OpenClaims(w)
      BY LocalTypes
    <3> QED
      BY <3>1 DEF Claims, ClaimsAreCounted
  <2> SUFFICES ASSUME NEW e \in Email
               PROVE  /\ delivered'[e] + Cardinality(Untried(e))' <= attempts'[e]
                      /\ attempts'[e] <= MaxAttempts
    BY DEF AttemptsCoverDeliveries
  <2>4. /\ delivered[e] + Cardinality(Untried(e)) <= attempts[e] /\ attempts[e] <= MaxAttempts
        /\ Cardinality(Untried(e)) \in Nat /\ IsFiniteSet(Untried(e))
        /\ delivered[e] \in Nat /\ attempts[e] \in Nat
    BY UntriedFinite DEF AttemptsCoverDeliveries, OutboxTypeOK
  <2>5. CASE e # c.id
    <3>1. delivered'[e] = delivered[e]
      BY <2>1, <2>5 DEF OutboxTypeOK
    <3>2. Cardinality(Untried(e))' \in Nat /\ Cardinality(Untried(e))' <= Cardinality(Untried(e))
      BY <2>1, <2>2, UntriedShrinks
    <3> QED
      BY <2>2, <2>4, <3>1, <3>2
  <2>6. CASE e = c.id
    <3>1. delivered'[e] \in {delivered[e], delivered[e] + 1}
      BY <2>1, <2>6 DEF OutboxTypeOK
    <3>2. c.try \in Untried(e)
      BY <2>3, <2>6 DEF Untried
    <3>3. Untried(e)' \subseteq Untried(e) \ {c.try}
      <4>1. Untried(e)' \subseteq Untried(e)
        BY <2>1, <2>2 DEF Untried
      <4>2. ASSUME NEW v \in Worker, c \in todo'[v] PROVE FALSE
        <5>1. v # w /\ c \in todo[v]
          BY <2>1, <2>2, <4>2
        <5>2. c \in OpenClaims(v)
          BY <5>1, LocalTypes
        <5> QED
          BY <2>3, <5>1, <5>2 DEF AttemptsAreExclusive
      <4>3. c.try \notin Untried(e)'
        BY <2>3, <2>6, <4>2 DEF Untried
      <4> QED
        BY <4>1, <4>3
    <3>4. /\ IsFiniteSet(Untried(e) \ {c.try})
          /\ Cardinality(Untried(e) \ {c.try}) = Cardinality(Untried(e)) - 1
      BY <2>4, <3>2, FS_RemoveElement
    <3>5. Cardinality(Untried(e)') <= Cardinality(Untried(e)) - 1 /\ Cardinality(Untried(e)') \in Nat
      BY <3>3, <3>4, FS_Subset, FS_CardinalityType
    <3> QED
      BY <2>2, <2>4, <3>1, <3>5
  <2> QED
    BY <2>5, <2>6
<1>3. CASE /\ UNCHANGED <<attempts, delivered>>
           /\ \A v \in Worker : todo'[v] \subseteq todo[v]
  <2> SUFFICES ASSUME NEW e \in Email
               PROVE  delivered[e] + Cardinality(Untried(e))' <= attempts[e] /\ attempts[e] <= MaxAttempts
    BY <1>3 DEF AttemptsCoverDeliveries
  <2>1. Cardinality(Untried(e))' \in Nat /\ Cardinality(Untried(e))' <= Cardinality(Untried(e))
    BY <1>3, UntriedShrinks
  <2>2. /\ delivered[e] + Cardinality(Untried(e)) <= attempts[e] /\ attempts[e] <= MaxAttempts
        /\ Cardinality(Untried(e)) \in Nat /\ delivered[e] \in Nat /\ attempts[e] \in Nat
    BY UntriedFinite DEF AttemptsCoverDeliveries, OutboxTypeOK
  <2> QED
    BY <2>1, <2>2
<1>4. \/ \E w \in Worker : Deliver(w)
      \/ UNCHANGED delivered
  BY DEF OutboxNext, WorkerStep, outboxVars, historyVars, Enqueue, Tick, ClaimBatch, MarkSent,
     MarkSentFails, MarkFailed, MarkFailedFails, WorkerDies, Abandon
<1> QED
  BY <1>1, <1>2, <1>3, <1>4, ClaimsShrink

\* Who holds a row has its latest claim; nobody else takes it before the lock,
\* which is as old as the batch, is stale.
LEMMA LocksStep ==
  ASSUME OutboxTypeOK, ClaimsAreCounted, LocksFollowClaims, [OutboxNext]_outboxVars
  PROVE  LocksFollowClaims'
<1>1. CASE Enqueue
  BY <1>1 DEF Enqueue, OpenClaims, LocksFollowClaims, historyVars
<1>2. CASE Tick
  <2>1. ASSUME NEW v \in Worker, NEW c \in OpenClaims(v)
        PROVE  /\ lockedBy[c.id] = v => attempts[c.id] = c.try /\ lockAge'[c.id] <= batchAge'[v]
               /\ lockedBy[c.id] # v => batchAge'[v] > LockLife
    <3>1. /\ c.id \in Email
          /\ cur[v].pc # "idle"
      <4>1. c.id \in Email
        BY DEF ClaimsAreCounted, Claims
      <4>2. cur[v].pc = "idle" => OpenClaims(v) = {}
        BY LocalTypes DEF ClaimsAreCounted
      <4> QED
        BY <4>1, <4>2
    <3>2. batchAge'[v] = Longer(batchAge[v])
      BY <1>2, <3>1 DEF Tick
    <3>3. lockedBy[c.id] = v => lockAge'[c.id] = Longer(lockAge[c.id])
      BY <1>2, <3>1, WorkerAssumption DEF Tick
    <3>4. lockAge[c.id] \in 0..LockLife + 1 /\ batchAge[v] \in 0..LockLife + 1
      BY <3>1 DEF OutboxTypeOK
    <3>5. /\ lockedBy[c.id] = v => attempts[c.id] = c.try /\ lockAge[c.id] <= batchAge[v]
          /\ lockedBy[c.id] # v => batchAge[v] > LockLife
      BY DEF LocksFollowClaims
    <3> QED
      BY <3>2, <3>3, <3>4, <3>5, LimitAssumption DEF Longer, Smaller
  <2>2. UNCHANGED <<lockedBy, attempts, todo, cur>>
    BY <1>2 DEF Tick
  <2> QED
    BY <2>1, <2>2 DEF LocksFollowClaims, OpenClaims
<1>3. ASSUME NEW w \in Worker, ClaimBatch(w) PROVE LocksFollowClaims'
  <2>1. /\ OpenClaims(w)' = {[id |-> e, try |-> attempts[e] + 1] : e \in Batch}
        /\ \A v \in Worker \ {w} : OpenClaims(v)' = OpenClaims(v)
    BY <1>3, BatchClaims
  <2>2. \A e \in Email :
          /\ attempts'[e] = IF e \in Batch THEN attempts[e] + 1 ELSE attempts[e]
          /\ lockedBy'[e] = IF e \in Batch THEN w ELSE lockedBy[e]
          /\ lockAge'[e] = IF e \in Batch THEN 0 ELSE lockAge[e]
    BY <1>3 DEF ClaimBatch
  <2>3. batchAge'[w] = 0 /\ \A v \in Worker \ {w} : batchAge'[v] = batchAge[v]
    BY <1>3 DEF ClaimBatch, OutboxTypeOK
  <2>4. ASSUME NEW c \in OpenClaims(w)'
        PROVE  lockedBy'[c.id] = w /\ attempts'[c.id] = c.try /\ lockAge'[c.id] <= batchAge'[w]
    <3>1. PICK e \in Batch : c = [id |-> e, try |-> attempts[e] + 1]
      BY <2>1
    <3>2. e \in Email /\ c.id = e /\ c.try = attempts[e] + 1
      BY <3>1 DEF Batch
    <3> QED
      BY <2>2, <2>3, <3>2
  <2>5. ASSUME NEW v \in Worker \ {w}, NEW c \in OpenClaims(v)
        PROVE  /\ lockedBy'[c.id] = v => attempts'[c.id] = c.try /\ lockAge'[c.id] <= batchAge'[v]
               /\ lockedBy'[c.id] # v => batchAge'[v] > LockLife
    <3>1. c.id \in Email
      BY DEF ClaimsAreCounted, Claims
    <3>2. /\ lockedBy[c.id] = v => attempts[c.id] = c.try /\ lockAge[c.id] <= batchAge[v]
          /\ lockedBy[c.id] # v => batchAge[v] > LockLife
      BY DEF LocksFollowClaims
    <3>3. CASE c.id \in Batch
      <4>1. lockedBy[c.id] = None \/ lockAge[c.id] > LockLife
        BY <3>3 DEF Batch, Due, Stale
      <4>2. batchAge[v] > LockLife
        BY <3>1, <3>2, <4>1, WorkerAssumption, LimitAssumption DEF OutboxTypeOK
      <4> QED
        BY <2>2, <2>3, <3>1, <3>3, <4>2
    <3>4. CASE c.id \notin Batch
      BY <2>2, <2>3, <3>1, <3>2, <3>4
    <3> QED
      BY <3>3, <3>4
  <2>6. ASSUME NEW v \in Worker, NEW c \in OpenClaims(v)'
        PROVE  /\ lockedBy'[c.id] = v => attempts'[c.id] = c.try /\ lockAge'[c.id] <= batchAge'[v]
               /\ lockedBy'[c.id] # v => batchAge'[v] > LockLife
    <3>1. CASE v = w
      BY <2>4, <3>1
    <3>2. CASE v # w
      BY <2>1, <2>5, <3>2
    <3> QED
      BY <3>1, <3>2
  <2> QED
    BY <2>6 DEF LocksFollowClaims
<1>4. ASSUME NEW w \in Worker, Deliver(w) PROVE LocksFollowClaims'
  <2>1. UNCHANGED <<lockedBy, lockAge, attempts, batchAge>>
    BY <1>4 DEF Deliver, rowVars, historyVars, Abandon
  <2>2. \A v \in Worker : OpenClaims(v)' \subseteq OpenClaims(v)
    BY <1>4, DeliverClaims DEF Kept
  <2> QED
    BY <2>1, <2>2 DEF LocksFollowClaims
<1>5. ASSUME NEW w \in Worker, MarkSent(w) PROVE LocksFollowClaims'
  <2>1. NextClaim(w) /\ UNCHANGED <<todo, attempts, lockAge, batchAge>> /\ cur[w].pc \in {"sent", "failed"}
    BY <1>5 DEF MarkSent, historyVars
  <2>2. /\ Kept(w) /\ OpenClaims(w)' = todo[w]
        /\ cur[w].claim \in Claims \cap OpenClaims(w) /\ cur[w].claim \notin todo[w]
    BY <2>1, MarkClaims
  <2> DEFINE e == cur[w].claim.id
  <2>3. \/ UNCHANGED lockedBy
        \/ lockedBy[e] = w /\ lockedBy' = [lockedBy EXCEPT ![e] = None]
    BY <1>5 DEF MarkSent, HoldsRow
  <2>4. e \in Email
    BY <2>2 DEF Claims
  <2> HIDE DEF e
  <2>5. ASSUME NEW v \in Worker, NEW c \in OpenClaims(v)'
        PROVE  /\ c \in OpenClaims(v) /\ c.id \in Email
               /\ lockedBy'[c.id] = v <=> lockedBy[c.id] = v
    <3>1. c \in OpenClaims(v) /\ c.id \in Email
      <4>1. todo[w] \subseteq OpenClaims(w)
        BY LocalTypes
      <4>2. c \in OpenClaims(v)
        BY <2>2, <2>5, <4>1 DEF Kept
      <4> QED
        BY <4>2 DEF Claims, ClaimsAreCounted
    <3>2. CASE c.id # e \/ UNCHANGED lockedBy
      <4>1. lockedBy'[c.id] = lockedBy[c.id]
        BY <2>3, <3>1, <3>2 DEF OutboxTypeOK
      <4> QED
        BY <3>1, <4>1
    <3>3. CASE c.id = e /\ lockedBy[e] = w /\ lockedBy' = [lockedBy EXCEPT ![e] = None]
      <4>1. lockedBy'[e] = None
        BY <2>4, <3>3 DEF OutboxTypeOK
      <4>2. v # w
        <5> SUFFICES ASSUME v = w PROVE FALSE
          OBVIOUS
        <5>1. c \in todo[w] /\ c \in OpenClaims(w)
          BY <2>2, <3>1
        <5>2. c = cur[w].claim
          BY <2>2, <3>3, <5>1 DEF ClaimsAreCounted, e
        <5> QED
          BY <2>2, <5>1, <5>2
      <4> QED
        BY <3>1, <3>3, <4>1, <4>2, WorkerAssumption
    <3> QED
      BY <2>3, <3>2, <3>3
  <2> QED
    BY <2>1, <2>5 DEF LocksFollowClaims
<1>6. ASSUME NEW w \in Worker, MarkSentFails(w) PROVE LocksFollowClaims'
  <2>1. UNCHANGED <<lockedBy, lockAge, attempts, batchAge>>
    BY <1>6 DEF MarkSentFails, rowVars, historyVars, Abandon
  <2>2. \A v \in Worker : OpenClaims(v)' \subseteq OpenClaims(v)
    BY <1>6, FailClaims DEF Kept
  <2> QED
    BY <2>1, <2>2 DEF LocksFollowClaims
<1>7. ASSUME NEW w \in Worker, MarkFailed(w) PROVE LocksFollowClaims'
  <2>1. NextClaim(w) /\ UNCHANGED <<todo, attempts, lockAge, batchAge>> /\ cur[w].pc \in {"sent", "failed"}
    BY <1>7 DEF MarkFailed, historyVars
  <2>2. /\ Kept(w) /\ OpenClaims(w)' = todo[w]
        /\ cur[w].claim \in Claims \cap OpenClaims(w) /\ cur[w].claim \notin todo[w]
    BY <2>1, MarkClaims
  <2> DEFINE e == cur[w].claim.id
  <2>3. \/ UNCHANGED lockedBy
        \/ lockedBy[e] = w /\ lockedBy' = [lockedBy EXCEPT ![e] = None]
    BY <1>7 DEF MarkFailed, HoldsRow
  <2>4. e \in Email
    BY <2>2 DEF Claims
  <2> HIDE DEF e
  <2>5. ASSUME NEW v \in Worker, NEW c \in OpenClaims(v)'
        PROVE  /\ c \in OpenClaims(v) /\ c.id \in Email
               /\ lockedBy'[c.id] = v <=> lockedBy[c.id] = v
    <3>1. c \in OpenClaims(v) /\ c.id \in Email
      <4>1. todo[w] \subseteq OpenClaims(w)
        BY LocalTypes
      <4>2. c \in OpenClaims(v)
        BY <2>2, <2>5, <4>1 DEF Kept
      <4> QED
        BY <4>2 DEF Claims, ClaimsAreCounted
    <3>2. CASE c.id # e \/ UNCHANGED lockedBy
      <4>1. lockedBy'[c.id] = lockedBy[c.id]
        BY <2>3, <3>1, <3>2 DEF OutboxTypeOK
      <4> QED
        BY <3>1, <4>1
    <3>3. CASE c.id = e /\ lockedBy[e] = w /\ lockedBy' = [lockedBy EXCEPT ![e] = None]
      <4>1. lockedBy'[e] = None
        BY <2>4, <3>3 DEF OutboxTypeOK
      <4>2. v # w
        <5> SUFFICES ASSUME v = w PROVE FALSE
          OBVIOUS
        <5>1. c \in todo[w] /\ c \in OpenClaims(w)
          BY <2>2, <3>1
        <5>2. c = cur[w].claim
          BY <2>2, <3>3, <5>1 DEF ClaimsAreCounted, e
        <5> QED
          BY <2>2, <5>1, <5>2
      <4> QED
        BY <3>1, <3>3, <4>1, <4>2, WorkerAssumption
    <3> QED
      BY <2>3, <3>2, <3>3
  <2> QED
    BY <2>1, <2>5 DEF LocksFollowClaims
<1>8. ASSUME NEW w \in Worker, MarkFailedFails(w) PROVE LocksFollowClaims'
  <2>1. UNCHANGED <<lockedBy, lockAge, attempts, batchAge>>
    BY <1>8 DEF MarkFailedFails, rowVars, historyVars, Abandon
  <2>2. \A v \in Worker : OpenClaims(v)' \subseteq OpenClaims(v)
    BY <1>8, AbandonClaims DEF Kept, MarkFailedFails
  <2> QED
    BY <2>1, <2>2 DEF LocksFollowClaims
<1>9. ASSUME NEW w \in Worker, WorkerDies(w) PROVE LocksFollowClaims'
  <2>1. UNCHANGED <<lockedBy, lockAge, attempts, batchAge>>
    BY <1>9 DEF WorkerDies, rowVars, historyVars, Abandon
  <2>2. \A v \in Worker : OpenClaims(v)' \subseteq OpenClaims(v)
    BY <1>9, AbandonClaims DEF Kept, WorkerDies
  <2> QED
    BY <2>1, <2>2 DEF LocksFollowClaims
<1>10. CASE UNCHANGED outboxVars
  BY <1>10 DEF outboxVars, rowVars, historyVars, OpenClaims, LocksFollowClaims
<1> QED
  BY <1>1, <1>2, <1>3, <1>4, <1>5, <1>6, <1>7, <1>8, <1>9, <1>10
     DEF OutboxNext, WorkerStep

\* What DeliveredIsMarked says of one email.
Marked(e) ==
  /\ \A w \in Worker : \A c \in OpenClaims(w) : c.id = e => lockedBy[e] = w
  /\ e \in sent => lockedBy[e] = None
  /\ delivered[e] > 0 /\ e \notin sent =>
       /\ lockedBy[e] # None
       /\ \A w \in Worker : \A c \in OpenClaims(w) :
            c.id = e => c = cur[w].claim /\ cur[w].pc = "sent"

SentIsDelivered == \A w \in Worker : cur[w].pc = "sent" => delivered[cur[w].claim.id] > 0

\* It goes on to hold of an email that a step does not touch.
LEMMA MarkedUntouched ==
  ASSUME NEW e \in Email, Marked(e), delivered'[e] = delivered[e], lockedBy'[e] = lockedBy[e],
         e \in sent' <=> e \in sent,
         \A v \in Worker : \A c \in OpenClaims(v)' : c.id = e =>
           /\ c \in OpenClaims(v)
           /\ c = cur[v].claim /\ cur[v].pc = "sent" => cur'[v] = cur[v]
  PROVE  Marked(e)'
BY DEF Marked

\* While a worker holds a claim of an email without a mishap and has not had it
\* accepted, nobody has.
LEMMA NotYetDelivered ==
  ASSUME OutboxTypeOK, NEW e \in Email, Marked(e), NEW w \in Worker, NEW c \in OpenClaims(w),
         c.id = e, cur[w].pc # "sent"
  PROVE  delivered[e] = 0 /\ e \notin sent /\ lockedBy[e] = w
BY WorkerAssumption DEF Marked, OutboxTypeOK

\* Every step keeps an email without a mishap locked from its delivery until it
\* is marked.
LEMMA MarkedStep ==
  ASSUME OutboxTypeOK, ClaimsAreCounted, DeliveredIsMarked, [OutboxNext]_outboxVars
  PROVE  DeliveredIsMarked'
<1> DEFINE Goal == SentIsDelivered' /\ \A e \in Email \ mishaps' : Marked(e)'
<1> SUFFICES Goal
  BY DEF DeliveredIsMarked, Marked, SentIsDelivered
<1>0. SentIsDelivered /\ \A e \in Email \ mishaps : Marked(e)
  BY DEF DeliveredIsMarked, Marked, SentIsDelivered
<1> USE <1>0
<1>1. CASE Enqueue
  <2>1. UNCHANGED <<lockedBy, sent, delivered, mishaps, todo, cur>>
    BY <1>1 DEF Enqueue, historyVars
  <2> QED
    BY <1>0, <2>1 DEF Marked, SentIsDelivered, OpenClaims
<1>2. CASE Tick
  <2>1. UNCHANGED <<lockedBy, sent, delivered, mishaps, todo, cur>>
    BY <1>2 DEF Tick
  <2> QED
    BY <1>0, <2>1 DEF Marked, SentIsDelivered, OpenClaims
<1>3. ASSUME NEW w \in Worker, ClaimBatch(w) PROVE Goal
  <2>1. /\ OpenClaims(w)' = {[id |-> e, try |-> attempts[e] + 1] : e \in Batch}
        /\ cur'[w].pc = "deliver"
        /\ \A v \in Worker \ {w} : OpenClaims(v)' = OpenClaims(v) /\ cur'[v] = cur[v]
    BY <1>3, BatchClaims
  <2>2. UNCHANGED <<sent, delivered>>
    BY <1>3 DEF ClaimBatch
  <2>3. mishaps' = mishaps \cup {e \in Batch : lockedBy[e] # None}
    BY <1>3 DEF ClaimBatch
  <2>4. \A e \in Email : lockedBy'[e] = IF e \in Batch THEN w ELSE lockedBy[e]
    BY <1>3 DEF ClaimBatch
  <2>5. SentIsDelivered'
    BY <2>1, <2>2 DEF SentIsDelivered
  <2>6. \A c \in OpenClaims(w)' : c.id \in Batch
    BY <2>1
  <2>7. ASSUME NEW f \in Email \ mishaps' PROVE Marked(f)'
    <3>1. Marked(f)
      BY <1>0, <2>3
    <3>2. CASE f \in Batch
      <4>1. lockedBy[f] = None /\ f \notin sent
        BY <2>3, <2>7, <3>2 DEF Batch, Due
      <4>2. ~ delivered[f] > 0
        BY <3>1, <4>1 DEF Marked
      <4>3. ASSUME NEW v \in Worker, NEW c \in OpenClaims(v)', c.id = f PROVE v = w
        BY <2>1, <3>1, <4>1, <4>3, WorkerAssumption DEF Marked
      <4> QED
        BY <2>2, <2>4, <3>2, <4>1, <4>2, <4>3 DEF Marked
    <3>3. CASE f \notin Batch
      <4>1. ASSUME NEW v \in Worker, NEW c \in OpenClaims(v)', c.id = f
            PROVE  c \in OpenClaims(v) /\ cur'[v] = cur[v]
        BY <2>1, <2>6, <3>3, <4>1
      <4>2. lockedBy'[f] = lockedBy[f]
        BY <2>4, <3>3
      <4> QED
        BY <2>2, <3>1, <4>1, <4>2, MarkedUntouched
    <3> QED
      BY <3>2, <3>3
  <2> QED
    BY <2>5, <2>7
<1>4. ASSUME NEW w \in Worker, Deliver(w) PROVE Goal
  <2>1. PICK c \in todo[w], accepted \in BOOLEAN, answered \in BOOLEAN :
          /\ accepted \/ answered
          /\ cur'[w] = [pc |-> IF accepted /\ answered THEN "sent" ELSE "failed", claim |-> c]
          /\ delivered' = [delivered EXCEPT ![c.id] = IF accepted THEN @ + 1 ELSE @]
          /\ mishaps' = IF answered THEN mishaps ELSE mishaps \cup {c.id}
          /\ OpenClaims(w)' = OpenClaims(w)
    BY <1>4, DeliverClaims
  <2>2. /\ cur[w].pc = "deliver" /\ Kept(w) /\ UNCHANGED <<lockedBy, sent>>
        /\ OpenClaims(w) = todo[w]
    BY <1>4, DeliverClaims, LocalTypes DEF Deliver, rowVars
  <2>3. c.id \in Email /\ \A f \in Email : delivered[f] \in Nat
    BY DEF OutboxTypeOK, Claims
  <2>4. /\ \A f \in Email \ {c.id} : delivered'[f] = delivered[f]
        /\ delivered'[c.id] = IF accepted THEN delivered[c.id] + 1 ELSE delivered[c.id]
    BY <2>1, <2>3 DEF OutboxTypeOK
  <2>5. \A v \in Worker : OpenClaims(v)' = OpenClaims(v)
    BY <2>1, <2>2 DEF Kept
  <2>6. SentIsDelivered'
    <3> SUFFICES ASSUME NEW v \in Worker, cur'[v].pc = "sent"
                 PROVE  delivered'[cur'[v].claim.id] > 0
      BY DEF SentIsDelivered
    <3>1. CASE v = w
      <4>1. cur'[v].claim = c /\ accepted
        BY <2>1, <3>1
      <4> QED
        BY <2>3, <2>4, <4>1
    <3>2. CASE v # w
      <4>1. cur'[v] = cur[v] /\ delivered[cur[v].claim.id] > 0
        BY <2>2, <3>2 DEF Kept, SentIsDelivered
      <4>2. cur[v].claim.id \in Email
        BY <2>2, <3>2, <4>1, LocalTypes DEF Claims
      <4> QED
        BY <2>3, <2>4, <4>1, <4>2
    <3> QED
      BY <3>1, <3>2
  <2>7. ASSUME NEW f \in Email \ mishaps', f # c.id PROVE Marked(f)'
    <3>1. Marked(f) /\ delivered'[f] = delivered[f]
      BY <1>0, <2>1, <2>4, <2>7
    <3>2. ASSUME NEW v \in Worker, NEW d \in OpenClaims(v)', d.id = f
          PROVE  d \in OpenClaims(v) /\ (d = cur[v].claim /\ cur[v].pc = "sent" => cur'[v] = cur[v])
      BY <2>2, <2>5 DEF Kept
    <3> QED
      BY <2>2, <3>1, <3>2, MarkedUntouched
  <2>8. ASSUME c.id \notin mishaps' PROVE Marked(c.id)'
    <3>1. Marked(c.id) /\ answered
      BY <1>0, <2>1, <2>3, <2>8
    <3>2. delivered[c.id] = 0 /\ c.id \notin sent /\ lockedBy[c.id] = w
      BY <2>2, <2>3, <3>1, NotYetDelivered
    <3>3. ASSUME NEW v \in Worker, NEW d \in OpenClaims(v)', d.id = c.id PROVE v = w /\ d = c
      <4>1. d \in OpenClaims(v) /\ v = w
        BY <2>5, <3>1, <3>2, <3>3 DEF Marked
      <4> QED
        BY <2>2, <3>3, <4>1 DEF ClaimsAreCounted
    <3>4. w # None
      BY WorkerAssumption
    <3>5. delivered'[c.id] > 0 => cur'[w].claim = c /\ cur'[w].pc = "sent"
      BY <2>1, <2>4, <3>1, <3>2
    <3> QED
      BY <2>2, <3>2, <3>3, <3>4, <3>5 DEF Marked
  <2> QED
    BY <2>1, <2>6, <2>7, <2>8
<1>5. ASSUME NEW w \in Worker, MarkSent(w) PROVE Goal
  <2>1. /\ NextClaim(w) /\ UNCHANGED <<todo, delivered, mishaps>> /\ cur[w].pc = "sent"
        /\ IF lockedBy[cur[w].claim.id] = w
             THEN /\ sent' = sent \cup {cur[w].claim.id}
                  /\ lockedBy' = [lockedBy EXCEPT ![cur[w].claim.id] = None]
             ELSE UNCHANGED <<sent, lockedBy>>
    BY <1>5 DEF MarkSent, historyVars, HoldsRow
  <2>2. /\ Kept(w) /\ OpenClaims(w)' = todo[w] /\ todo[w] \subseteq OpenClaims(w)
        /\ cur[w].claim \in Claims \cap OpenClaims(w) /\ cur[w].claim \notin todo[w]
        /\ cur'[w] = [pc |-> IF todo[w] = {} THEN "idle" ELSE "deliver", claim |-> NoClaim]
    BY <2>1, MarkClaims, LocalTypes
  <2>3. PICK e \in Email : e = cur[w].claim.id
    BY <2>2 DEF Claims
  <2>4. SentIsDelivered'
    BY <2>1, <2>2 DEF Kept, SentIsDelivered
  <2>5. \A v \in Worker : OpenClaims(v)' \subseteq OpenClaims(v)
    BY <2>2 DEF Kept
  <2>6. ASSUME NEW f \in Email \ mishaps, f # e PROVE Marked(f)'
    <3>1. ASSUME NEW v \in Worker, NEW c \in OpenClaims(v)', c.id = f
          PROVE  c \in OpenClaims(v) /\ (c = cur[v].claim /\ cur[v].pc = "sent" => cur'[v] = cur[v])
      BY <2>2, <2>3, <2>5, <2>6, <3>1 DEF Kept
    <3>2. lockedBy'[f] = lockedBy[f] /\ (f \in sent' <=> f \in sent) /\ delivered'[f] = delivered[f]
      BY <2>1, <2>3, <2>6, <1>5 DEF OutboxTypeOK, MarkSent
    <3> QED
      BY <3>1, <3>2, <1>0, MarkedUntouched
  <2>7. ASSUME e \notin mishaps PROVE Marked(e)'
    <3>1. Marked(e)
      BY <2>3, <2>7, <1>0
    <3>2. lockedBy[e] = w
      BY <2>2, <2>3, <3>1 DEF Marked
    <3>3. ASSUME NEW v \in Worker, NEW c \in OpenClaims(v)' PROVE c.id # e
      <4>1. CASE v = w
        BY <2>2, <2>3, <4>1 DEF ClaimsAreCounted
      <4>2. CASE v # w
        BY <2>5, <3>1, <3>2, <4>2 DEF Marked
      <4> QED
        BY <4>1, <4>2
    <3>4. e \in sent' /\ lockedBy'[e] = None
      BY <2>1, <2>3, <3>2 DEF OutboxTypeOK
    <3> QED
      BY <3>3, <3>4 DEF Marked
  <2> QED
    BY <2>1, <2>3, <2>4, <2>6, <2>7
<1>6. ASSUME NEW w \in Worker, MarkSentFails(w) PROVE Goal
  <2>1. /\ Kept(w) /\ OpenClaims(w)' = OpenClaims(w)
        /\ cur[w].pc = "sent" /\ cur'[w] = [pc |-> "failed", claim |-> cur[w].claim]
    BY <1>6, FailClaims
  <2>2. UNCHANGED <<lockedBy, sent, delivered>> /\ mishaps' = mishaps \cup {cur[w].claim.id}
    BY <1>6 DEF MarkSentFails, rowVars
  <2>3. SentIsDelivered'
    BY <2>1, <2>2 DEF Kept, SentIsDelivered
  <2>4. ASSUME NEW f \in Email \ mishaps' PROVE Marked(f)'
    <3>1. ASSUME NEW v \in Worker, NEW c \in OpenClaims(v)', c.id = f
          PROVE  c \in OpenClaims(v) /\ (c = cur[v].claim /\ cur[v].pc = "sent" => cur'[v] = cur[v])
      BY <2>1, <2>2, <2>4, <3>1 DEF Kept
    <3> QED
      BY <1>0, <2>2, <2>4, <3>1, MarkedUntouched
  <2> QED
    BY <2>3, <2>4
<1>7. ASSUME NEW w \in Worker, MarkFailed(w) PROVE Goal
  <2>1. /\ NextClaim(w) /\ UNCHANGED <<todo, delivered, mishaps>> /\ cur[w].pc = "failed"
        /\ IF lockedBy[cur[w].claim.id] = w
             THEN lockedBy' = [lockedBy EXCEPT ![cur[w].claim.id] = None] /\ sent' = sent
             ELSE UNCHANGED <<sent, lockedBy>>
    BY <1>7 DEF MarkFailed, historyVars, HoldsRow
  <2>2. /\ Kept(w) /\ OpenClaims(w)' = todo[w] /\ todo[w] \subseteq OpenClaims(w)
        /\ cur[w].claim \in Claims \cap OpenClaims(w) /\ cur[w].claim \notin todo[w]
        /\ cur'[w] = [pc |-> IF todo[w] = {} THEN "idle" ELSE "deliver", claim |-> NoClaim]
    BY <2>1, MarkClaims, LocalTypes
  <2>3. PICK e \in Email : e = cur[w].claim.id
    BY <2>2 DEF Claims
  <2>4. SentIsDelivered'
    BY <2>1, <2>2 DEF Kept, SentIsDelivered
  <2>5. \A v \in Worker : OpenClaims(v)' \subseteq OpenClaims(v)
    BY <2>2 DEF Kept
  <2>6. ASSUME NEW f \in Email \ mishaps, f # e PROVE Marked(f)'
    <3>1. ASSUME NEW v \in Worker, NEW c \in OpenClaims(v)', c.id = f
          PROVE  c \in OpenClaims(v) /\ (c = cur[v].claim /\ cur[v].pc = "sent" => cur'[v] = cur[v])
      BY <2>2, <2>3, <2>5, <2>6, <3>1 DEF Kept
    <3>2. lockedBy'[f] = lockedBy[f] /\ (f \in sent' <=> f \in sent) /\ delivered'[f] = delivered[f]
      BY <2>1, <2>3, <2>6, <1>7 DEF OutboxTypeOK, MarkFailed
    <3> QED
      BY <3>1, <3>2, <1>0, MarkedUntouched
  <2>7. ASSUME e \notin mishaps PROVE Marked(e)'
    <3>1. Marked(e)
      BY <2>3, <2>7, <1>0
    <3>2. lockedBy[e] = w
      BY <2>2, <2>3, <3>1 DEF Marked
    <3>3. ASSUME NEW v \in Worker, NEW c \in OpenClaims(v)' PROVE c.id # e
      <4>1. CASE v = w
        BY <2>2, <2>3, <4>1 DEF ClaimsAreCounted
      <4>2. CASE v # w
        BY <2>5, <3>1, <3>2, <4>2 DEF Marked
      <4> QED
        BY <4>1, <4>2
    <3>4. delivered'[e] = 0 /\ e \notin sent' /\ lockedBy'[e] = None
      BY <2>1, <2>2, <2>3, <3>1, <3>2, NotYetDelivered DEF OutboxTypeOK
    <3> QED
      BY <3>3, <3>4 DEF Marked
  <2> QED
    BY <2>1, <2>3, <2>4, <2>6, <2>7
<1>8. ASSUME NEW w \in Worker, MarkFailedFails(w) PROVE Goal
  <2>1. /\ UNCHANGED <<lockedBy, sent, delivered, mishaps>>
        /\ Kept(w) /\ OpenClaims(w)' = {} /\ cur'[w] = NoBatch
    BY <1>8, AbandonClaims DEF Abandon, rowVars, historyVars, MarkFailedFails, WorkerDies
  <2>2. SentIsDelivered'
    BY <2>1 DEF Kept, SentIsDelivered, NoBatch
  <2>3. ASSUME NEW f \in Email \ mishaps PROVE Marked(f)'
    BY <1>0, <2>1 DEF Kept, Marked
  <2> QED
    BY <2>1, <2>2, <2>3
<1>9. ASSUME NEW w \in Worker, WorkerDies(w) PROVE Goal
  <2>1. /\ UNCHANGED <<lockedBy, sent, delivered, mishaps>>
        /\ Kept(w) /\ OpenClaims(w)' = {} /\ cur'[w] = NoBatch
    BY <1>9, AbandonClaims DEF Abandon, rowVars, historyVars, MarkFailedFails, WorkerDies
  <2>2. SentIsDelivered'
    BY <2>1 DEF Kept, SentIsDelivered, NoBatch
  <2>3. ASSUME NEW f \in Email \ mishaps PROVE Marked(f)'
    BY <1>0, <2>1 DEF Kept, Marked
  <2> QED
    BY <2>1, <2>2, <2>3
<1>10. CASE UNCHANGED outboxVars
  <2>1. UNCHANGED <<lockedBy, sent, delivered, mishaps, todo, cur>>
    BY <1>10 DEF outboxVars, rowVars, historyVars
  <2> QED
    BY <1>0, <2>1 DEF Marked, SentIsDelivered, OpenClaims
<1> QED
  BY <1>1, <1>2, <1>3, <1>4, <1>5, <1>6, <1>7, <1>8, <1>9, <1>10
     DEF OutboxNext, WorkerStep

\* What DeliveriesAreAccounted says beyond the attempts.
Accounted ==
  \A e \in Email : (delivered[e] > 1 => e \in mishaps) /\ (e \in sent => delivered[e] > 0)

\* A second delivery of an email comes after a mishap, and marking it sent after
\* a delivery.
LEMMA AccountedStep ==
  ASSUME OutboxTypeOK, ClaimsAreCounted, DeliveredIsMarked, Accounted, [OutboxNext]_outboxVars
  PROVE  Accounted'
<1>1. CASE Enqueue
  <2>1. UNCHANGED <<sent, delivered>> /\ mishaps \subseteq mishaps'
    BY <1>1 DEF Enqueue, historyVars
  <2> QED
    BY <2>1 DEF Accounted
<1>2. CASE Tick
  <2>1. UNCHANGED <<sent, delivered>> /\ mishaps \subseteq mishaps'
    BY <1>2 DEF Tick
  <2> QED
    BY <2>1 DEF Accounted
<1>3. ASSUME NEW w \in Worker, ClaimBatch(w) PROVE Accounted'
  <2>1. UNCHANGED <<sent, delivered>> /\ mishaps \subseteq mishaps'
    BY <1>3 DEF ClaimBatch
  <2> QED
    BY <2>1 DEF Accounted
<1>4. ASSUME NEW w \in Worker, Deliver(w) PROVE Accounted'
  <2>1. PICK c \in todo[w], accepted \in BOOLEAN, answered \in BOOLEAN :
          /\ delivered' = [delivered EXCEPT ![c.id] = IF accepted THEN @ + 1 ELSE @]
          /\ mishaps' = IF answered THEN mishaps ELSE mishaps \cup {c.id}
    BY <1>4, DeliverClaims
  <2>2. cur[w].pc = "deliver" /\ UNCHANGED sent /\ OpenClaims(w) = todo[w]
    BY <1>4, DeliverClaims, LocalTypes DEF Deliver, rowVars
  <2>3. c.id \in Email /\ \A f \in Email : delivered[f] \in Nat
    BY DEF OutboxTypeOK, Claims
  <2>4. /\ \A f \in Email \ {c.id} : delivered'[f] = delivered[f]
        /\ delivered'[c.id] \in {delivered[c.id], delivered[c.id] + 1}
    BY <2>1, <2>3 DEF OutboxTypeOK
  <2>5. c.id \notin mishaps => delivered[c.id] = 0
    <3> SUFFICES ASSUME c.id \notin mishaps PROVE delivered[c.id] = 0
      OBVIOUS
    <3>1. Marked(c.id)
      BY <2>3 DEF DeliveredIsMarked, Marked
    <3> QED
      BY <2>2, <2>3, <3>1, NotYetDelivered
  <2>6. mishaps \subseteq mishaps'
    BY <2>1
  <2> SUFFICES ASSUME NEW e \in Email
               PROVE  (delivered'[e] > 1 => e \in mishaps') /\ (e \in sent' => delivered'[e] > 0)
    BY DEF Accounted
  <2>7. CASE e = c.id
    BY <2>2, <2>3, <2>4, <2>5, <2>6, <2>7 DEF Accounted
  <2>8. CASE e # c.id
    BY <2>2, <2>4, <2>6, <2>8 DEF Accounted
  <2> QED
    BY <2>7, <2>8
<1>5. ASSUME NEW w \in Worker, MarkSent(w) PROVE Accounted'
  <2>1. UNCHANGED <<delivered, mishaps>> /\ sent' \subseteq sent \cup {cur[w].claim.id} /\ cur[w].pc = "sent"
    BY <1>5 DEF MarkSent, historyVars
  <2>2. delivered[cur[w].claim.id] > 0
    BY <2>1 DEF DeliveredIsMarked
  <2> QED
    BY <2>1, <2>2 DEF Accounted
<1>6. ASSUME NEW w \in Worker, MarkSentFails(w) PROVE Accounted'
  <2>1. UNCHANGED <<sent, delivered>> /\ mishaps \subseteq mishaps'
    BY <1>6 DEF MarkSentFails, rowVars
  <2> QED
    BY <2>1 DEF Accounted
<1>7. ASSUME NEW w \in Worker, MarkFailed(w) PROVE Accounted'
  <2>1. UNCHANGED <<sent, delivered>> /\ mishaps \subseteq mishaps'
    BY <1>7 DEF MarkFailed, historyVars
  <2> QED
    BY <2>1 DEF Accounted
<1>8. ASSUME NEW w \in Worker, MarkFailedFails(w) PROVE Accounted'
  <2>1. UNCHANGED <<sent, delivered>> /\ mishaps \subseteq mishaps'
    BY <1>8 DEF MarkFailedFails, Abandon, rowVars, historyVars
  <2> QED
    BY <2>1 DEF Accounted
<1>9. ASSUME NEW w \in Worker, WorkerDies(w) PROVE Accounted'
  <2>1. UNCHANGED <<sent, delivered>> /\ mishaps \subseteq mishaps'
    BY <1>9 DEF WorkerDies, Abandon, rowVars, historyVars
  <2> QED
    BY <2>1 DEF Accounted
<1>10. CASE UNCHANGED outboxVars
  <2>1. UNCHANGED <<sent, delivered>> /\ mishaps \subseteq mishaps'
    BY <1>10 DEF outboxVars, rowVars, historyVars
  <2> QED
    BY <2>1 DEF Accounted
<1> QED
  BY <1>1, <1>2, <1>3, <1>4, <1>5, <1>6, <1>7, <1>8, <1>9, <1>10
     DEF OutboxNext, WorkerStep

LEMMA OutboxInitIInv ==
  ASSUME OutboxInit
  PROVE  OutboxIInv
<1>1. OutboxTypeOK
  BY LimitAssumption DEF OutboxTypeOK, OutboxInit, NoBatch, NoClaim
<1>2. \A w \in Worker : OpenClaims(w) = {} /\ cur[w] = NoBatch /\ todo[w] = {}
  BY DEF OutboxInit, OpenClaims, NoBatch
<1>3. ClaimsAreCounted /\ AttemptsAreExclusive /\ LocksFollowClaims
  BY <1>2 DEF ClaimsAreCounted, AttemptsAreExclusive, LocksFollowClaims, NoBatch
<1>4. DeliveredIsMarked
  BY <1>2 DEF DeliveredIsMarked, OutboxInit, NoBatch
<1>5. AttemptsCoverDeliveries
  <2> SUFFICES ASSUME NEW e \in Email
               PROVE  delivered[e] + Cardinality(Untried(e)) <= attempts[e] /\ attempts[e] <= MaxAttempts
    BY DEF AttemptsCoverDeliveries
  <2>1. Untried(e) = {} /\ delivered[e] = 0 /\ attempts[e] = 0
    BY <1>2 DEF Untried, OutboxInit
  <2>2. Cardinality(Untried(e)) = 0
    BY <2>1, FS_EmptySet
  <2> QED
    BY <2>1, <2>2, LimitAssumption
<1>6. DeliveriesAreAccounted
  BY <1>1, LimitAssumption DEF DeliveriesAreAccounted, OutboxInit
<1> QED
  BY <1>1, <1>3, <1>4, <1>5, <1>6 DEF OutboxIInv

LEMMA OutboxStep ==
  ASSUME OutboxIInv, [OutboxNext]_outboxVars
  PROVE  OutboxIInv'
<1> USE DEF OutboxIInv
<1>1. OutboxTypeOK /\ Accounted
  BY DEF DeliveriesAreAccounted, Accounted
<1>2. OutboxTypeOK'
  BY <1>1, OutboxTypeStep
<1>3. ClaimsAreCounted' /\ AttemptsAreExclusive' /\ LocksFollowClaims'
  BY <1>1, CountedStep, ExclusiveStep, LocksStep
<1>4. AttemptsCoverDeliveries' /\ DeliveredIsMarked'
  BY <1>1, CoverStep, MarkedStep
<1>5. Accounted'
  BY <1>1, AccountedStep
<1>6. DeliveriesAreAccounted'
  <2> SUFFICES ASSUME NEW e \in Email
               PROVE  delivered'[e] <= attempts'[e] /\ attempts'[e] <= MaxAttempts
    BY <1>2, <1>5 DEF Accounted, DeliveriesAreAccounted
  <2>1. delivered'[e] \in Nat /\ attempts'[e] \in Nat
    BY <1>2 DEF OutboxTypeOK
  <2>2. Cardinality(Untried(e))' \in Nat
    <3>1. Untried(e)' \subseteq 1..attempts'[e]
      BY DEF Untried
    <3>2. PICK n \in Nat : n = attempts'[e]
      BY <2>1
    <3>3. IsFiniteSet(1..n)
      BY FS_Interval
    <3>4. IsFiniteSet(Untried(e)')
      BY <3>1, <3>2, <3>3, FS_Subset
    <3> QED
      BY <3>4, FS_CardinalityType
  <2>3. delivered'[e] + Cardinality(Untried(e))' <= attempts'[e] /\ attempts'[e] <= MaxAttempts
    BY <1>4 DEF AttemptsCoverDeliveries
  <2> QED
    BY <2>1, <2>2, <2>3, LimitAssumption
<1> QED
  BY <1>3, <1>4, <1>6

\* Claims, locks, attempts and deliveries of the outbox agree throughout.
THEOREM OutboxInductive == OutboxSpec => []OutboxIInv
BY OutboxInitIInv, OutboxStep, PTL DEF OutboxSpec

\* Every delivery was counted as an attempt first, of which there are maxAttempts
\* at most; an email goes out twice only after a mishap, and is marked sent only
\* when it went out.
THEOREM DeliveriesAccounted == OutboxSpec => []DeliveriesAreAccounted
<1>1. OutboxIInv => DeliveriesAreAccounted
  BY DEF OutboxIInv
<1> QED
  BY <1>1, OutboxInductive, PTL

\* A worker loses a row of its batch only when the batch outlived a lock.
THEOREM LostWhenStale == OutboxSpec => []LostOnlyWhenStale
<1>1. OutboxIInv => LostOnlyWhenStale
  BY DEF OutboxIInv, LocksFollowClaims, LostOnlyWhenStale
<1> QED
  BY <1>1, OutboxInductive, PTL

\* Only the worker of a row's latest claim releases it.
THEOREM LatestRecords == OutboxSpec => LatestClaimRecords
<1> DEFINE Goal == \A e \in Email : lockedBy[e] # None /\ lockedBy'[e] = None =>
                      cur[lockedBy[e]].claim = [id |-> e, try |-> attempts[e]]
<1>1. ASSUME OutboxIInv, [OutboxNext]_outboxVars PROVE Goal
  <2>0. OutboxTypeOK /\ ClaimsAreCounted /\ LocksFollowClaims
    BY <1>1 DEF OutboxIInv, DeliveriesAreAccounted
  <2>1. ASSUME NEW w \in Worker, HoldsRow(w), cur[w].pc \in {"sent", "failed"},
               lockedBy' = [lockedBy EXCEPT ![cur[w].claim.id] = None]
        PROVE  Goal
    <3>1. cur[w].claim \in OpenClaims(w) /\ cur[w].claim \in Claims
      BY <2>0, <2>1, LocalTypes
    <3>2. PICK e \in Email : e = cur[w].claim.id /\ cur[w].claim = [id |-> e, try |-> cur[w].claim.try]
      BY <3>1 DEF Claims
    <3>3. lockedBy[e] = w /\ attempts[e] = cur[w].claim.try
      BY <2>0, <2>1, <3>1, <3>2 DEF HoldsRow, LocksFollowClaims
    <3>4. \A f \in Email \ {e} : lockedBy'[f] = lockedBy[f]
      BY <2>0, <2>1, <3>2 DEF OutboxTypeOK
    <3> QED
      BY <3>2, <3>3, <3>4
  <2>2. CASE \E w \in Worker : ClaimBatch(w)
    <3>1. PICK w \in Worker : lockedBy' = [e \in Email |-> IF e \in Batch THEN w ELSE lockedBy[e]]
      BY <2>2 DEF ClaimBatch
    <3> QED
      BY <3>1, WorkerAssumption
  <2>3. CASE UNCHANGED lockedBy
    BY <2>3
  <2>4. \/ UNCHANGED lockedBy
        \/ \E w \in Worker : ClaimBatch(w) \/ MarkSent(w) \/ MarkFailed(w)
    BY <1>1 DEF OutboxNext, WorkerStep, Enqueue, Tick, Deliver, MarkSentFails, MarkFailedFails,
       WorkerDies, Abandon, outboxVars, rowVars
  <2>5. ASSUME NEW w \in Worker, MarkSent(w) \/ MarkFailed(w) PROVE Goal
    <3>1. /\ cur[w].pc \in {"sent", "failed"}
          /\ \/ UNCHANGED lockedBy
             \/ HoldsRow(w) /\ lockedBy' = [lockedBy EXCEPT ![cur[w].claim.id] = None]
      BY <2>5 DEF MarkSent, MarkFailed
    <3> QED
      BY <2>1, <2>3, <3>1
  <2> QED
    BY <2>2, <2>3, <2>4, <2>5
<1> QED
  BY <1>1, OutboxInductive, PTL DEF OutboxSpec, LatestClaimRecords
=============================================================================
