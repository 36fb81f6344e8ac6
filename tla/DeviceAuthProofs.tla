-------------------------- MODULE DeviceAuthProofs --------------------------
(***************************************************************************)
(* DeviceAuth for any number of devices, codes, challenges, tickets and    *)
(* requests.                                                               *)
(***************************************************************************)
EXTENDS DeviceAuth, FiniteSetTheorems, TLAPS

\* The invariant holds before anything was paired.
LEMMA InitIInv == Init => IInv
<1> SUFFICES ASSUME Init PROVE IInv
  OBVIOUS
<1> USE LimitAssumption, NullAssumption DEF Init
<1>1. TypeOK /\ RequestsHaveRows /\ RowsAreLinked
  BY DEF TypeOK, RequestsHaveRows, RowsAreLinked, ReqRecord, IdleReq,
         rowVars, historyVars
<1>2. CodePairsOneDevice /\ ChallengeEarnsOneTicket /\ TicketIsSpentOnce
  BY DEF CodePairsOneDevice, ChallengeEarnsOneTicket, TicketIsSpentOnce, IdleReq
<1>3. Cardinality(Req) \in Nat \ {0}
  BY ReqAssumption, FS_CardinalityType, FS_EmptySet
<1>4. RoomIsShared
  <2> SUFFICES ASSUME NEW w \in Workspace
               PROVE  members[w] + Cardinality(Pairing(w))
                        <= MaxUsers + joined[w] + Cardinality(Req) - 1
    BY DEF RoomIsShared
  <2>1. Pairing(w) = {}
    BY DEF Pairing, IdleReq
  <2>2. Cardinality(Pairing(w)) = 0
    BY <2>1, FS_EmptySet
  <2>3. members[w] = 0 /\ joined[w] = 0
    OBVIOUS
  <2> QED
    BY <1>3, <2>2, <2>3
<1>5. BootstrapIsShared
  <2>1. Bootstrapped = {} /\ Bootstrapping = {}
    BY DEF Bootstrapped, Bootstrapping, IdleReq
  <2> QED
    BY <1>3, <2>1, FS_EmptySet DEF BootstrapIsShared
<1> QED
  BY <1>1, <1>2, <1>4, <1>5 DEF IInv

\* Every step preserves the types.
LEMMA TypeStep == IInv /\ [Next]_vars => TypeOK'
<1> SUFFICES ASSUME TypeOK, RequestsHaveRows, [Next]_vars PROVE TypeOK'
  BY DEF IInv
<1> USE LimitAssumption, NullAssumption DEF TypeOK, RequestsHaveRows, ReqRecord, IdleReq, rowVars, historyVars
<1>1. ASSUME NEW w \in Workspace, Register(w) PROVE TypeOK'
  BY <1>1 DEF Register
<1>2. ASSUME NEW w \in Workspace, AcceptInvitation(w) PROVE TypeOK'
  BY <1>2 DEF AcceptInvitation
<1>3. ASSUME NEW p \in Req, NEW w \in Workspace, RequestCode(p, w) PROVE TypeOK'
  BY <1>3 DEF RequestCode, Begin, HasRoom
<1>4. ASSUME NEW p \in Req, NEW c \in Code, FindCode(p, c) PROVE TypeOK'
  BY <1>4 DEF FindCode, Begin
<1>5. ASSUME NEW p \in Req, NEW d \in Device, RequestChallenge(p, d) PROVE TypeOK'
  BY <1>5 DEF RequestChallenge, Begin, Active
<1>6. ASSUME NEW p \in Req, NEW x \in Challenge, FindChallenge(p, x) PROVE TypeOK'
  BY <1>6 DEF FindChallenge, Begin, Active
<1>7. ASSUME NEW p \in Req, NEW t \in Ticket, FindTicket(p, t) PROVE TypeOK'
  BY <1>7 DEF FindTicket, Begin
<1>8. ASSUME NEW p \in Req, InsertCode(p) PROVE TypeOK'
  BY <1>8 DEF InsertCode, Done
<1>9. ASSUME NEW p \in Req, CountMembers(p) PROVE TypeOK'
  BY <1>9 DEF CountMembers, Goto, Done
<1>10. ASSUME NEW p \in Req, ClaimCode(p) PROVE TypeOK'
  BY <1>10, SMTT(30) DEF ClaimCode, AddDevice, Done
<1>11. ASSUME NEW p \in Req, CountDevices(p) PROVE TypeOK'
  BY <1>11 DEF CountDevices, Begin
<1>12. ASSUME NEW p \in Req, CreateFirstDevice(p) PROVE TypeOK'
  BY <1>12 DEF CreateFirstDevice, AddDevice, Done
<1>13. ASSUME NEW p \in Req, InsertChallenge(p) PROVE TypeOK'
  BY <1>13 DEF InsertChallenge, Done
<1>14. ASSUME NEW p \in Req, ConsumeChallenge(p) PROVE TypeOK'
  BY <1>14 DEF ConsumeChallenge, Done
<1>15. ASSUME NEW p \in Req, ConsumeTicket(p) PROVE TypeOK'
  BY <1>15 DEF ConsumeTicket, Goto, Done
<1>16. ASSUME NEW p \in Req, SpendTicket(p) PROVE TypeOK'
  BY <1>16 DEF SpendTicket, Done
<1>17. ASSUME NEW d \in Device, RevokeDevice(d) PROVE TypeOK'
  BY <1>17 DEF RevokeDevice
<1>18. ASSUME NEW x \in Code \cup Challenge \cup Ticket, Expire(x) PROVE TypeOK'
  BY <1>18 DEF Expire
<1>19. ASSUME NEW p \in Req, RequestDies(p) PROVE TypeOK'
  BY <1>19 DEF RequestDies, Done
<1>20. CASE UNCHANGED vars
  BY <1>20 DEF vars, rowVars, historyVars
<1> QED
  BY <1>1, <1>2, <1>3, <1>4, <1>5, <1>6, <1>7, <1>8, <1>9, <1>10, <1>11,
     <1>12, <1>13, <1>14, <1>15, <1>16, <1>17, <1>18, <1>19, <1>20
  DEF Next, ReqStep

\* Requests keep naming rows that exist.
LEMMA RequestStep == IInv /\ [Next]_vars => RequestsHaveRows'
<1> SUFFICES ASSUME TypeOK, RequestsHaveRows, [Next]_vars PROVE RequestsHaveRows'
  BY DEF IInv
<1> USE LimitAssumption, NullAssumption DEF TypeOK, RequestsHaveRows, ReqRecord, IdleReq, rowVars, historyVars
<1>1. ASSUME NEW w \in Workspace, Register(w) PROVE RequestsHaveRows'
  BY <1>1 DEF Register
<1>2. ASSUME NEW w \in Workspace, AcceptInvitation(w) PROVE RequestsHaveRows'
  BY <1>2 DEF AcceptInvitation
<1>3. ASSUME NEW p \in Req, NEW w \in Workspace, RequestCode(p, w) PROVE RequestsHaveRows'
  BY <1>3 DEF RequestCode, Begin, HasRoom
<1>4. ASSUME NEW p \in Req, NEW c \in Code, FindCode(p, c) PROVE RequestsHaveRows'
  BY <1>4 DEF FindCode, Begin
<1>5. ASSUME NEW p \in Req, NEW d \in Device, RequestChallenge(p, d) PROVE RequestsHaveRows'
  BY <1>5 DEF RequestChallenge, Begin, Active
<1>6. ASSUME NEW p \in Req, NEW x \in Challenge, FindChallenge(p, x) PROVE RequestsHaveRows'
  BY <1>6 DEF FindChallenge, Begin, Active
<1>7. ASSUME NEW p \in Req, NEW t \in Ticket, FindTicket(p, t) PROVE RequestsHaveRows'
  BY <1>7 DEF FindTicket, Begin
<1>8. ASSUME NEW p \in Req, InsertCode(p) PROVE RequestsHaveRows'
  BY <1>8 DEF InsertCode, Done
<1>9. ASSUME NEW p \in Req, CountMembers(p) PROVE RequestsHaveRows'
  BY <1>9 DEF CountMembers, Goto, Done
<1>10. ASSUME NEW p \in Req, ClaimCode(p) PROVE RequestsHaveRows'
  <2>1. used \subseteq used' /\ UNCHANGED <<codeWs, challenger, earned>>
    BY <1>10 DEF ClaimCode
  <2>2. \A w \in Workspace : members[w] > 0 => members'[w] > 0
    BY <1>10 DEF ClaimCode, AddDevice
  <2>3. \A d \in Device : devWs[d] # None => devWs'[d] # None
    BY <1>10 DEF ClaimCode, AddDevice
  <2>4. req'[p].pc = "idle" /\ \A q \in Req \ {p} : req'[q] = req[q]
    BY <1>10 DEF ClaimCode, Done
  <2> QED
    BY <2>1, <2>2, <2>3, <2>4
<1>11. ASSUME NEW p \in Req, CountDevices(p) PROVE RequestsHaveRows'
  BY <1>11 DEF CountDevices, Begin
<1>12. ASSUME NEW p \in Req, CreateFirstDevice(p) PROVE RequestsHaveRows'
  BY <1>12 DEF CreateFirstDevice, AddDevice, Done
<1>13. ASSUME NEW p \in Req, InsertChallenge(p) PROVE RequestsHaveRows'
  BY <1>13 DEF InsertChallenge, Done
<1>14. ASSUME NEW p \in Req, ConsumeChallenge(p) PROVE RequestsHaveRows'
  BY <1>14 DEF ConsumeChallenge, Done
<1>15. ASSUME NEW p \in Req, ConsumeTicket(p) PROVE RequestsHaveRows'
  BY <1>15 DEF ConsumeTicket, Goto, Done
<1>16. ASSUME NEW p \in Req, SpendTicket(p) PROVE RequestsHaveRows'
  BY <1>16 DEF SpendTicket, Done
<1>17. ASSUME NEW d \in Device, RevokeDevice(d) PROVE RequestsHaveRows'
  BY <1>17 DEF RevokeDevice
<1>18. ASSUME NEW x \in Code \cup Challenge \cup Ticket, Expire(x) PROVE RequestsHaveRows'
  BY <1>18 DEF Expire
<1>19. ASSUME NEW p \in Req, RequestDies(p) PROVE RequestsHaveRows'
  BY <1>19 DEF RequestDies, Done
<1>20. CASE UNCHANGED vars
  BY <1>20 DEF vars, rowVars, historyVars
<1> QED
  BY <1>1, <1>2, <1>3, <1>4, <1>5, <1>6, <1>7, <1>8, <1>9, <1>10, <1>11,
     <1>12, <1>13, <1>14, <1>15, <1>16, <1>17, <1>18, <1>19, <1>20
  DEF Next, ReqStep

\* Rows keep referring to rows, and what was used stays marked used.
LEMMA LinkStep == IInv /\ [Next]_vars => RowsAreLinked'
<1> SUFFICES ASSUME TypeOK, RequestsHaveRows, RowsAreLinked, [Next]_vars
             PROVE  RowsAreLinked'
  BY DEF IInv
<1> USE LimitAssumption, NullAssumption DEF TypeOK, RequestsHaveRows, RowsAreLinked, ReqRecord, IdleReq,
         rowVars, historyVars
<1>1. ASSUME NEW w \in Workspace, Register(w) PROVE RowsAreLinked'
  BY <1>1 DEF Register
<1>2. ASSUME NEW w \in Workspace, AcceptInvitation(w) PROVE RowsAreLinked'
  BY <1>2 DEF AcceptInvitation
<1>3. ASSUME NEW p \in Req, NEW w \in Workspace, RequestCode(p, w) PROVE RowsAreLinked'
  BY <1>3 DEF RequestCode, Begin, HasRoom
<1>4. ASSUME NEW p \in Req, NEW c \in Code, FindCode(p, c) PROVE RowsAreLinked'
  BY <1>4 DEF FindCode, Begin
<1>5. ASSUME NEW p \in Req, NEW d \in Device, RequestChallenge(p, d) PROVE RowsAreLinked'
  BY <1>5 DEF RequestChallenge, Begin, Active
<1>6. ASSUME NEW p \in Req, NEW x \in Challenge, FindChallenge(p, x) PROVE RowsAreLinked'
  BY <1>6 DEF FindChallenge, Begin, Active
<1>7. ASSUME NEW p \in Req, NEW t \in Ticket, FindTicket(p, t) PROVE RowsAreLinked'
  BY <1>7 DEF FindTicket, Begin
<1>8. ASSUME NEW p \in Req, InsertCode(p) PROVE RowsAreLinked'
  BY <1>8 DEF InsertCode, Done
<1>9. ASSUME NEW p \in Req, CountMembers(p) PROVE RowsAreLinked'
  BY <1>9 DEF CountMembers, Goto, Done
<1>10. ASSUME NEW p \in Req, ClaimCode(p) PROVE RowsAreLinked'
  BY <1>10, SMTT(30) DEF ClaimCode, AddDevice, Done
<1>11. ASSUME NEW p \in Req, CountDevices(p) PROVE RowsAreLinked'
  BY <1>11 DEF CountDevices, Begin
<1>12. ASSUME NEW p \in Req, CreateFirstDevice(p) PROVE RowsAreLinked'
  BY <1>12 DEF CreateFirstDevice, AddDevice, Done
<1>13. ASSUME NEW p \in Req, InsertChallenge(p) PROVE RowsAreLinked'
  BY <1>13 DEF InsertChallenge, Done
<1>14. ASSUME NEW p \in Req, ConsumeChallenge(p) PROVE RowsAreLinked'
  BY <1>14 DEF ConsumeChallenge, Done
<1>15. ASSUME NEW p \in Req, ConsumeTicket(p) PROVE RowsAreLinked'
  BY <1>15 DEF ConsumeTicket, Goto, Done
<1>16. ASSUME NEW p \in Req, SpendTicket(p) PROVE RowsAreLinked'
  BY <1>16 DEF SpendTicket, Done
<1>17. ASSUME NEW d \in Device, RevokeDevice(d) PROVE RowsAreLinked'
  BY <1>17 DEF RevokeDevice
<1>18. ASSUME NEW x \in Code \cup Challenge \cup Ticket, Expire(x) PROVE RowsAreLinked'
  BY <1>18 DEF Expire
<1>19. ASSUME NEW p \in Req, RequestDies(p) PROVE RowsAreLinked'
  BY <1>19 DEF RequestDies, Done
<1>20. CASE UNCHANGED vars
  BY <1>20 DEF vars, rowVars, historyVars
<1> QED
  BY <1>1, <1>2, <1>3, <1>4, <1>5, <1>6, <1>7, <1>8, <1>9, <1>10, <1>11,
     <1>12, <1>13, <1>14, <1>15, <1>16, <1>17, <1>18, <1>19, <1>20
  DEF Next, ReqStep

\* No code, challenge or ticket makes two of anything.
LEMMA OnceStep ==
  IInv /\ [Next]_vars =>
    CodePairsOneDevice' /\ ChallengeEarnsOneTicket' /\ TicketIsSpentOnce'
<1> SUFFICES ASSUME TypeOK, RequestsHaveRows, RowsAreLinked, CodePairsOneDevice,
                    ChallengeEarnsOneTicket, TicketIsSpentOnce, [Next]_vars
             PROVE  CodePairsOneDevice' /\ ChallengeEarnsOneTicket' /\ TicketIsSpentOnce'
  BY DEF IInv
<1> USE NullAssumption DEF TypeOK
<1>1. CodePairsOneDevice'
  <2>1. ASSUME NEW p \in Req, ClaimCode(p) PROVE CodePairsOneDevice'
    BY <2>1 DEF ClaimCode, AddDevice, Usable, RequestsHaveRows, RowsAreLinked, CodePairsOneDevice
  <2>2. ASSUME NEW p \in Req, CreateFirstDevice(p) PROVE CodePairsOneDevice'
    BY <2>2 DEF CreateFirstDevice, AddDevice, CodePairsOneDevice
  <2>3. CASE UNCHANGED pairedBy
    BY <2>3 DEF CodePairsOneDevice
  <2> QED
    BY <2>1, <2>2, <2>3
    DEF Next, ReqStep, vars, rowVars, historyVars, Register, AcceptInvitation, RequestCode,
        FindCode, RequestChallenge, FindChallenge, FindTicket, InsertCode, CountMembers,
        CountDevices, InsertChallenge, ConsumeChallenge, ConsumeTicket, SpendTicket,
        RevokeDevice, Expire, RequestDies
<1>2. ChallengeEarnsOneTicket'
  <2>1. ASSUME NEW p \in Req, ConsumeChallenge(p) PROVE ChallengeEarnsOneTicket'
    BY <2>1 DEF ConsumeChallenge, Usable, RequestsHaveRows, RowsAreLinked,
                ChallengeEarnsOneTicket
  <2>2. CASE UNCHANGED earned
    BY <2>2 DEF ChallengeEarnsOneTicket
  <2> QED
    BY <2>1, <2>2
    DEF Next, ReqStep, vars, rowVars, historyVars, Register, AcceptInvitation, RequestCode,
        FindCode, RequestChallenge, FindChallenge, FindTicket, InsertCode, CountMembers,
        ClaimCode, CountDevices, CreateFirstDevice, InsertChallenge, ConsumeTicket,
        SpendTicket, RevokeDevice, Expire, RequestDies
<1>3. TicketIsSpentOnce'
  <2> USE DEF TicketIsSpentOnce, ReqRecord, IdleReq, rowVars, historyVars
  <2>1. ASSUME NEW p \in Req, ConsumeTicket(p) PROVE TicketIsSpentOnce'
    BY <2>1 DEF ConsumeTicket, Goto, Done, Usable, RequestsHaveRows, RowsAreLinked
  <2>2. ASSUME NEW p \in Req, SpendTicket(p) PROVE TicketIsSpentOnce'
    BY <2>2 DEF SpendTicket, Done, RequestsHaveRows
  <2>3. ASSUME UNCHANGED spent,
               \A p \in Req : req'[p].pc = "act" => req'[p] = req[p]
        PROVE  TicketIsSpentOnce'
    BY <2>3
  <2>4. ASSUME NEW p \in Req, NEW pc, NEW x, Begin(p, pc, x), pc # "act", UNCHANGED spent
        PROVE  TicketIsSpentOnce'
    BY <2>3, <2>4 DEF Begin
  <2>5. ASSUME NEW p \in Req, Done(p), UNCHANGED spent
        PROVE  TicketIsSpentOnce'
    BY <2>3, <2>5 DEF Done
  <2>6. ASSUME NEW p \in Req, CountMembers(p) PROVE TicketIsSpentOnce'
    BY <2>3, <2>6 DEF CountMembers, Goto, Done
  <2>7. CASE UNCHANGED <<req, spent>>
    BY <2>7
  <2> QED
    BY <2>1, <2>2, <2>4, <2>5, <2>6, <2>7
    DEF Next, ReqStep, vars, Register, AcceptInvitation, RequestCode,
        FindCode, RequestChallenge, FindChallenge, FindTicket, InsertCode,
        ClaimCode, CountDevices, CreateFirstDevice, InsertChallenge, ConsumeChallenge,
        RevokeDevice, Expire, RequestDies
<1> QED
  BY <1>1, <1>2, <1>3

\* When no request joins those that passed the capacity check for w, and no
\* more members than joined by invitation are added, the room is still shared.
LEMMA FewerPairing ==
  ASSUME TypeOK, TypeOK', RoomIsShared, NEW w \in Workspace,
         Pairing(w)' \subseteq Pairing(w), NEW k \in Nat,
         members'[w] = members[w] + k, joined'[w] = joined[w] + k
  PROVE  members'[w] + Cardinality(Pairing(w)') <= MaxUsers + joined'[w] + Cardinality(Req) - 1
<1>1. IsFiniteSet(Pairing(w)) /\ Cardinality(Pairing(w)) \in Nat
  BY ReqAssumption, FS_Subset, FS_CardinalityType DEF Pairing
<1>2. Cardinality(Pairing(w)') \in Nat /\ Cardinality(Pairing(w)') <= Cardinality(Pairing(w))
  BY <1>1, FS_Subset, FS_CardinalityType
<1>3. Cardinality(Req) \in Nat
  BY ReqAssumption, FS_CardinalityType
<1>4. members[w] + Cardinality(Pairing(w)) <= MaxUsers + joined[w] + Cardinality(Req) - 1
  BY DEF RoomIsShared
<1>5. members[w] \in Nat /\ joined[w] \in Nat /\ MaxUsers \in Nat
  BY LimitAssumption DEF TypeOK
<1> HIDE DEF Pairing
<1> QED
  BY <1>1, <1>2, <1>3, <1>4, <1>5

\* A workspace that gets its first member has no code, so nobody pairs for it.
LEMMA FirstMember ==
  ASSUME TypeOK, RequestsHaveRows, RowsAreLinked, NEW w \in Workspace,
         members[w] = 0, members'[w] = 1, joined'[w] = joined[w], joined[w] \in Nat,
         Pairing(w)' \subseteq Pairing(w)
  PROVE  members'[w] + Cardinality(Pairing(w)') <= MaxUsers + joined'[w] + Cardinality(Req) - 1
<1>1. Pairing(w) = {}
  BY NullAssumption DEF Pairing, RequestsHaveRows, RowsAreLinked
<1>2. Cardinality(Pairing(w)') = 0
  BY <1>1, FS_EmptySet
<1>3. Cardinality(Req) \in Nat \ {0}
  BY ReqAssumption, FS_CardinalityType, FS_EmptySet
<1> QED
  BY <1>2, <1>3, LimitAssumption

\* A workspace never takes more than one member for every request in flight.
LEMMA RoomStep == IInv /\ [Next]_vars => RoomIsShared'
<1> SUFFICES ASSUME TypeOK, TypeOK', RequestsHaveRows, RowsAreLinked, RoomIsShared, [Next]_vars,
                    NEW w \in Workspace
             PROVE  members'[w] + Cardinality(Pairing(w)')
                      <= MaxUsers + joined'[w] + Cardinality(Req) - 1
  BY TypeStep DEF IInv, RoomIsShared
<1> DEFINE Goal == members'[w] + Cardinality(Pairing(w)')
                     <= MaxUsers + joined'[w] + Cardinality(Req) - 1
<1> USE NullAssumption DEF ReqRecord, IdleReq, rowVars, historyVars
<1>types. /\ members \in [Workspace -> Nat] /\ joined \in [Workspace -> Nat]
          /\ req \in [Req -> ReqRecord] /\ codeWs \in [Code -> Workspace \cup {None}]
  BY LimitAssumption DEF TypeOK
<1>1. ASSUME NEW v \in Workspace, Register(v) PROVE Goal
  <2>1. Pairing(w)' \subseteq Pairing(w)
    BY <1>1 DEF Register, Pairing
  <2>2. CASE v = w
    BY <1>1, <2>1, <2>2, <1>types, FirstMember DEF Register
  <2>3. CASE v # w
    <3>1. members'[w] = members[w] + 0 /\ joined'[w] = joined[w] + 0
      BY <1>1, <2>3, <1>types DEF Register
    <3> QED
      BY <2>1, <3>1, FewerPairing
  <2> QED
    BY <2>2, <2>3
<1>2. ASSUME NEW v \in Workspace, AcceptInvitation(v) PROVE Goal
  <2>1. Pairing(w)' \subseteq Pairing(w)
    BY <1>2 DEF AcceptInvitation, Pairing
  <2>2. \E k \in Nat : members'[w] = members[w] + k /\ joined'[w] = joined[w] + k
    <3>1. CASE v = w
      BY <1>2, <3>1, <1>types DEF AcceptInvitation
    <3>2. CASE v # w
      <4>1. members'[w] = members[w] + 0 /\ joined'[w] = joined[w] + 0
        BY <1>2, <3>2, <1>types DEF AcceptInvitation
      <4> QED
        BY <4>1
    <3> QED
      BY <3>1, <3>2
  <2> QED
    BY <2>1, <2>2, FewerPairing
<1>3. ASSUME NEW p \in Req, CountMembers(p) PROVE Goal
  <2>1. members'[w] = members[w] + 0 /\ joined'[w] = joined[w] + 0
    BY <1>3, <1>types DEF CountMembers
  <2>2. CASE HasRoom(codeWs[req[p].obj]) /\ codeWs[req[p].obj] = w
    <3>1. members'[w] <= MaxUsers - 1 /\ members'[w] \in Nat
      BY <2>1, <2>2, <1>types, LimitAssumption DEF HasRoom
    <3>2. Cardinality(Pairing(w)') \in Nat /\ Cardinality(Pairing(w)') <= Cardinality(Req)
      <4>1. Pairing(w)' \in SUBSET Req
        BY DEF Pairing
      <4> QED
        BY <4>1, ReqAssumption, FS_Subset, FS_CardinalityType
    <3>3. Cardinality(Req) \in Nat /\ joined'[w] \in Nat
      BY <2>1, <1>types, ReqAssumption, FS_CardinalityType
    <3> QED
      BY <3>1, <3>2, <3>3, LimitAssumption
  <2>3. CASE ~(HasRoom(codeWs[req[p].obj]) /\ codeWs[req[p].obj] = w)
    <3>1. Pairing(w)' \subseteq Pairing(w)
      BY <1>3, <2>3, <1>types DEF CountMembers, Goto, Done, Pairing
    <3> QED
      BY <2>1, <3>1, FewerPairing
  <2> QED
    BY <2>2, <2>3
<1>4. ASSUME NEW p \in Req, ClaimCode(p) PROVE Goal
  <2>1. /\ req' = [req EXCEPT ![p] = IdleReq] /\ codeWs' = codeWs /\ joined' = joined
        /\ req[p].pc = "pair" /\ req[p].obj \in Code
        /\ members' = [members EXCEPT ![codeWs[req[p].obj]] = @ + 1] \/ members' = members
    BY <1>4 DEF ClaimCode, AddDevice, Done, RequestsHaveRows
  <2>2. CASE members'[w] = members[w]
    <3>1. Pairing(w)' \subseteq Pairing(w)
      BY <2>1, <1>types DEF Pairing
    <3>2. members'[w] = members[w] + 0 /\ joined'[w] = joined[w] + 0
      BY <2>1, <2>2, <1>types
    <3> QED
      BY <3>1, <3>2, FewerPairing
  <2>3. CASE members'[w] # members[w]
    <3>1. codeWs[req[p].obj] = w /\ members'[w] = members[w] + 1
      BY <2>1, <2>3, <1>types
    <3>2. Pairing(w)' = Pairing(w) \ {p} /\ p \in Pairing(w)
      BY <2>1, <3>1, <1>types DEF Pairing
    <3>3. IsFiniteSet(Pairing(w)) /\ Cardinality(Pairing(w)) \in Nat
      BY ReqAssumption, FS_Subset, FS_CardinalityType DEF Pairing
    <3>4. Cardinality(Pairing(w)') = Cardinality(Pairing(w)) - 1
      BY <3>2, <3>3, FS_RemoveElement
    <3>5. members[w] + Cardinality(Pairing(w)) <= MaxUsers + joined[w] + Cardinality(Req) - 1
      BY DEF RoomIsShared
    <3> QED
      BY <2>1, <3>1, <3>3, <3>4, <3>5, <1>types
  <2> QED
    BY <2>2, <2>3
<1>5. ASSUME NEW p \in Req, CreateFirstDevice(p) PROVE Goal
  <2>1. Pairing(w)' \subseteq Pairing(w)
    BY <1>5, <1>types DEF CreateFirstDevice, AddDevice, Done, Pairing
  <2>2. PICK v \in Workspace : members[v] = 0 /\ members' = [members EXCEPT ![v] = @ + 1]
    BY <1>5 DEF CreateFirstDevice, AddDevice
  <2>3. joined' = joined
    BY <1>5 DEF CreateFirstDevice
  <2>4. CASE v = w
    BY <2>1, <2>2, <2>3, <2>4, <1>types, FirstMember
  <2>5. CASE v # w
    <3>1. members'[w] = members[w] + 0 /\ joined'[w] = joined[w] + 0
      BY <2>2, <2>3, <2>5, <1>types
    <3> QED
      BY <2>1, <3>1, FewerPairing
  <2> QED
    BY <2>4, <2>5
<1>6. ASSUME UNCHANGED <<members, joined>>,
             \A p \in Req : req'[p].pc = "pair" => req'[p] = req[p],
             \A c \in Code : codeWs[c] # None => codeWs'[c] = codeWs[c]
      PROVE  Goal
  <2>1. Pairing(w)' \subseteq Pairing(w)
    BY <1>6, <1>types DEF Pairing, RequestsHaveRows
  <2>2. members'[w] = members[w] + 0 /\ joined'[w] = joined[w] + 0
    BY <1>6, <1>types
  <2> QED
    BY <2>1, <2>2, FewerPairing
<1>7. ASSUME NEW p \in Req, NEW pc, NEW x, Begin(p, pc, x), pc # "pair",
             UNCHANGED <<members, joined, codeWs>>
      PROVE  Goal
  BY <1>6, <1>7, <1>types DEF Begin
<1>8. ASSUME NEW p \in Req, Done(p), UNCHANGED <<members, joined>>,
             \A c \in Code : codeWs[c] # None => codeWs'[c] = codeWs[c]
      PROVE  Goal
  BY <1>6, <1>8, <1>types DEF Done
<1>9. ASSUME NEW p \in Req, InsertCode(p) PROVE Goal
  BY <1>8, <1>9, <1>types DEF InsertCode
<1>10. ASSUME NEW p \in Req, ConsumeTicket(p) PROVE Goal
  BY <1>6, <1>10, <1>types DEF ConsumeTicket, Goto, Done
<1>11. CASE UNCHANGED <<members, joined, codeWs, req>>
  BY <1>6, <1>11
<1> QED
  BY <1>1, <1>2, <1>3, <1>4, <1>5, <1>7, <1>8, <1>9, <1>10, <1>11
  DEF Next, ReqStep, vars, RequestCode, FindCode, RequestChallenge, FindChallenge, FindTicket,
      CountDevices, InsertChallenge, ConsumeChallenge, SpendTicket, RevokeDevice, Expire,
      RequestDies

\* The bootstrap code makes no more devices than there are requests in flight.
LEMMA BootStep == IInv /\ [Next]_vars => BootstrapIsShared'
<1> SUFFICES ASSUME TypeOK, RequestsHaveRows, RowsAreLinked, BootstrapIsShared, [Next]_vars
             PROVE  BootstrapIsShared'
  BY DEF IInv
<1> USE NullAssumption DEF ReqRecord, IdleReq, rowVars, historyVars
<1>types. /\ devWs \in [Device -> Workspace \cup {None}]
          /\ pairedBy \in [Device -> Code \cup {Bootstrap, None}]
          /\ req \in [Req -> ReqRecord]
          /\ \A d \in Device : devWs[d] = None => pairedBy[d] = None
  BY DEF TypeOK, RowsAreLinked
<1>finite. /\ IsFiniteSet(Bootstrapping) /\ Cardinality(Bootstrapping) \in Nat
           /\ IsFiniteSet(Bootstrapped) /\ Cardinality(Bootstrapped) \in Nat
           /\ Cardinality(Req) \in Nat
           /\ Cardinality(Bootstrapped) + Cardinality(Bootstrapping) <= Cardinality(Req)
  BY ReqAssumption, FS_Subset, FS_CardinalityType DEF Bootstrapping, BootstrapIsShared
<1>1. ASSUME NEW p \in Req, CountDevices(p) PROVE BootstrapIsShared'
  <2>1. Bootstrapped' = {}
    BY <1>1, <1>types DEF CountDevices, Bootstrapped
  <2>2. Bootstrapping' \in SUBSET Req
    BY DEF Bootstrapping
  <2>3. Cardinality(Bootstrapping') \in Nat /\ Cardinality(Bootstrapping') <= Cardinality(Req)
    BY <2>2, ReqAssumption, FS_Subset, FS_CardinalityType
  <2> QED
    BY <1>finite, <2>1, <2>3, FS_EmptySet DEF BootstrapIsShared
<1>2. ASSUME NEW p \in Req, CreateFirstDevice(p) PROVE BootstrapIsShared'
  <2>1. PICK d \in Device : devWs[d] = None /\ pairedBy' = [pairedBy EXCEPT ![d] = Bootstrap]
    BY <1>2 DEF CreateFirstDevice, AddDevice
  <2>2. Bootstrapped' = Bootstrapped \cup {d} /\ d \notin Bootstrapped
    BY <2>1, <1>types DEF Bootstrapped
  <2>3. Bootstrapping' = Bootstrapping \ {p} /\ p \in Bootstrapping
    BY <1>2, <1>types DEF CreateFirstDevice, Done, Bootstrapping
  <2>4. IsFiniteSet(Bootstrapped') /\ Cardinality(Bootstrapped') = Cardinality(Bootstrapped) + 1
    BY <2>2, <1>finite, FS_AddElement
  <2>5. Cardinality(Bootstrapping') = Cardinality(Bootstrapping) - 1
    BY <2>3, <1>finite, FS_RemoveElement
  <2> QED
    BY <1>finite, <2>4, <2>5 DEF BootstrapIsShared
<1>3. ASSUME Bootstrapped' = Bootstrapped,
             \A p \in Req : req'[p].pc = "first" => req[p].pc = "first"
      PROVE  BootstrapIsShared'
  <2>1. Bootstrapping' \in SUBSET Bootstrapping
    BY <1>3 DEF Bootstrapping
  <2>2. /\ Cardinality(Bootstrapping') \in Nat
        /\ Cardinality(Bootstrapping') <= Cardinality(Bootstrapping)
    BY <2>1, <1>finite, FS_Subset, FS_CardinalityType
  <2> QED
    BY <1>3, <1>finite, <2>2 DEF BootstrapIsShared
<1>4. ASSUME NEW p \in Req, ClaimCode(p) PROVE BootstrapIsShared'
  <2>1. \/ pairedBy' = pairedBy
        \/ \E d \in Device : /\ devWs[d] = None
                             /\ pairedBy' = [pairedBy EXCEPT ![d] = req[p].obj]
    BY <1>4 DEF ClaimCode, AddDevice
  <2>2. req[p].obj # Bootstrap
    BY <1>4, <1>types DEF ClaimCode, RequestsHaveRows
  <2>3. Bootstrapped' = Bootstrapped
    BY <2>1, <2>2, <1>types DEF Bootstrapped
  <2> QED
    BY <1>3, <1>4, <2>3, <1>types DEF ClaimCode, Done
<1>5. ASSUME NEW p \in Req, NEW pc, NEW x, Begin(p, pc, x), pc # "first", UNCHANGED pairedBy
      PROVE  BootstrapIsShared'
  BY <1>3, <1>5, <1>types DEF Begin, Bootstrapped
<1>6. ASSUME NEW p \in Req, Done(p), UNCHANGED pairedBy PROVE BootstrapIsShared'
  BY <1>3, <1>6, <1>types DEF Done, Bootstrapped
<1>7. ASSUME NEW p \in Req, CountMembers(p) PROVE BootstrapIsShared'
  BY <1>3, <1>7, <1>types DEF CountMembers, Goto, Done, Bootstrapped
<1>8. ASSUME NEW p \in Req, ConsumeTicket(p) PROVE BootstrapIsShared'
  BY <1>3, <1>8, <1>types DEF ConsumeTicket, Goto, Done, Bootstrapped
<1>9. CASE UNCHANGED <<req, pairedBy>>
  BY <1>3, <1>9 DEF Bootstrapped
<1> QED
  BY <1>1, <1>2, <1>4, <1>5, <1>6, <1>7, <1>8, <1>9
  DEF Next, ReqStep, vars, Register, AcceptInvitation, RequestCode, FindCode, RequestChallenge,
      FindChallenge, FindTicket, InsertCode, InsertChallenge, ConsumeChallenge, SpendTicket,
      RevokeDevice, Expire, RequestDies

\* The invariant is inductive, so it holds in every reachable state.
THEOREM Inductive == Spec => []IInv
<1>1. IInv /\ [Next]_vars => IInv'
  BY TypeStep, RequestStep, LinkStep, OnceStep, RoomStep, BootStep DEF IInv
<1> QED
  BY <1>1, InitIInv, PTL DEF Spec

\* Every variable keeps its type.
THEOREM TypeCorrect == Spec => []TypeOK
<1>1. IInv => TypeOK
  BY DEF IInv
<1> QED
  BY <1>1, Inductive, PTL

\* A pairing code makes at most one device.
THEOREM CodesAreSingleUse == Spec => []CodePairsOneDevice
<1>1. IInv => CodePairsOneDevice
  BY DEF IInv
<1> QED
  BY <1>1, Inductive, PTL

\* A challenge earns at most one ticket.
THEOREM ChallengesAreSingleUse == Spec => []ChallengeEarnsOneTicket
<1>1. IInv => ChallengeEarnsOneTicket
  BY DEF IInv
<1> QED
  BY <1>1, Inductive, PTL

\* A ticket buys one session or one upload.
THEOREM TicketsAreSingleUse == Spec => []TicketIsSpentOnce
<1>1. IInv => TicketIsSpentOnce
  BY DEF IInv
<1> QED
  BY <1>1, Inductive, PTL

\* All three together: whatever requests present a secret of the login at once
\* and wherever they die, it is used once.
THEOREM SecretsUsedOnce == Spec => []SecretsAreSingleUse
<1>1. IInv => SecretsAreSingleUse
  BY DEF IInv, SecretsAreSingleUse
<1> QED
  BY <1>1, Inductive, PTL

\* A workspace exceeds its limit by less than the requests in flight.
THEOREM MembersBound == Spec => []MembersAreBounded
<1>1. IInv => MembersAreBounded
  <2> SUFFICES ASSUME IInv, NEW w \in Workspace
               PROVE  members[w] <= MaxUsers + joined[w] + Cardinality(Req) - 1
    BY DEF MembersAreBounded
  <2>1. members[w] \in Nat /\ joined[w] \in Nat /\ MaxUsers \in Nat /\ Cardinality(Req) \in Nat
    BY LimitAssumption, ReqAssumption, FS_CardinalityType DEF IInv, TypeOK
  <2>2. Cardinality(Pairing(w)) \in Nat
    BY ReqAssumption, FS_Subset, FS_CardinalityType DEF Pairing
  <2>3. members[w] + Cardinality(Pairing(w)) <= MaxUsers + joined[w] + Cardinality(Req) - 1
    BY DEF IInv, RoomIsShared
  <2> QED
    BY <2>1, <2>2, <2>3
<1> QED
  BY <1>1, Inductive, PTL

\* The bootstrap code makes no more devices than requests race for it.
THEOREM BootstrapBound == Spec => []BootstrapsAreBounded
<1>1. IInv => BootstrapsAreBounded
  <2> SUFFICES ASSUME IInv PROVE Cardinality(Bootstrapped) <= Cardinality(Req)
    BY DEF BootstrapsAreBounded, Bootstrapped
  <2>1. Cardinality(Bootstrapping) \in Nat
    BY ReqAssumption, FS_Subset, FS_CardinalityType DEF Bootstrapping
  <2>2. Cardinality(Bootstrapped) \in Nat /\ Cardinality(Req) \in Nat
    BY ReqAssumption, FS_CardinalityType DEF IInv, BootstrapIsShared
  <2> QED
    BY <2>1, <2>2 DEF IInv, BootstrapIsShared
<1> QED
  BY <1>1, Inductive, PTL

\* Neither limit is exceeded by more than the requests in flight.
THEOREM OvershootBound == Spec => []OvershootIsBounded
<1>1. MembersAreBounded /\ BootstrapsAreBounded => OvershootIsBounded
  BY DEF OvershootIsBounded
<1> QED
  BY <1>1, MembersBound, BootstrapBound, PTL

\* What a step may change for the requests, challenges and tickets of a device.
LEMMA DeviceStep ==
  ASSUME TypeOK, RequestsHaveRows, RowsAreLinked, [Next]_vars
  PROVE  /\ \A d \in Device : devWs[d] # None /\ status[d] = "REVOKED" =>
              devWs'[d] # None /\ status'[d] = "REVOKED"
         /\ \A x \in Challenge : challenger[x] # None => challenger'[x] = challenger[x]
         /\ \A t \in Ticket : earned[t] # None => earned'[t] = earned[t]
         /\ \A x \in Challenge : challenger'[x] # challenger[x] =>
              \E p \in Req : req[p].pc = "nonce" /\ challenger'[x] = req[p].obj
         /\ \A t \in Ticket : earned'[t] # earned[t] =>
              \E p \in Req : req[p].pc = "verify" /\ earned'[t] = req[p].obj
         /\ \A t \in Ticket : spent'[t] # spent[t] =>
              \E p \in Req : req[p].pc = "act" /\ t = req[p].obj
<1> USE NullAssumption DEF TypeOK, rowVars, historyVars
<1>1. CASE UNCHANGED <<devWs, status, challenger, earned, spent>>
  BY <1>1
<1>2. ASSUME NEW p \in Req, ClaimCode(p)
      PROVE  UNCHANGED <<status, challenger, earned, spent>>
             /\ \A d \in Device : devWs[d] # None => devWs'[d] # None
  BY <1>2 DEF ClaimCode, AddDevice
<1>3. ASSUME NEW p \in Req, CreateFirstDevice(p)
      PROVE  UNCHANGED <<status, challenger, earned, spent>>
             /\ \A d \in Device : devWs[d] # None => devWs'[d] # None
  BY <1>3 DEF CreateFirstDevice, AddDevice
<1>4. ASSUME NEW p \in Req, InsertChallenge(p)
      PROVE  /\ UNCHANGED <<devWs, status, earned, spent>> /\ req[p].pc = "nonce"
             /\ \A x \in Challenge : /\ challenger[x] # None => challenger'[x] = challenger[x]
                                     /\ challenger'[x] \in {challenger[x], req[p].obj}
  BY <1>4 DEF InsertChallenge
<1>5. ASSUME NEW p \in Req, ConsumeChallenge(p)
      PROVE  /\ UNCHANGED <<devWs, status, challenger, spent>> /\ req[p].pc = "verify"
             /\ \A t \in Ticket : /\ earned[t] # None => earned'[t] = earned[t]
                                  /\ earned'[t] \in {earned[t], req[p].obj}
  BY <1>5 DEF ConsumeChallenge
<1>6. ASSUME NEW p \in Req, SpendTicket(p)
      PROVE  /\ UNCHANGED <<devWs, status, challenger, earned>> /\ req[p].pc = "act"
             /\ \A t \in Ticket : spent'[t] # spent[t] => t = req[p].obj
  BY <1>6 DEF SpendTicket
<1>7. ASSUME NEW d \in Device, RevokeDevice(d)
      PROVE  /\ UNCHANGED <<devWs, challenger, earned, spent>>
             /\ \A e \in Device : status[e] = "REVOKED" => status'[e] = "REVOKED"
  BY <1>7 DEF RevokeDevice
<1> QED
  BY <1>1, <1>2, <1>3, <1>4, <1>5, <1>6, <1>7
  DEF Next, ReqStep, vars, Register, AcceptInvitation, RequestCode, FindCode, RequestChallenge,
      FindChallenge, FindTicket, InsertCode, CountMembers, CountDevices, ConsumeTicket, Expire,
      RequestDies

\* A request comes to stand before such a write only for an active device.
LEMMA GateStep ==
  ASSUME TypeOK, RequestsHaveRows, [Next]_vars, NEW q \in Req
  PROVE  /\ req'[q].pc = "nonce" => req'[q] = req[q] \/ Active(req'[q].obj)
         /\ req'[q].pc = "verify" =>
              \/ req'[q] = req[q]
              \/ challenger[req'[q].obj] # None /\ Active(challenger[req'[q].obj])
         /\ req'[q].pc \in {"consume", "act"} =>
              \/ req[q].pc \in {"consume", "act"} /\ req'[q].obj = req[q].obj
              \/ earned[req'[q].obj] # None /\ Active(Holder(req'[q].obj))
<1> DEFINE Goal ==
      /\ req'[q].pc = "nonce" => req'[q] = req[q] \/ Active(req'[q].obj)
      /\ req'[q].pc = "verify" =>
           \/ req'[q] = req[q]
           \/ challenger[req'[q].obj] # None /\ Active(challenger[req'[q].obj])
      /\ req'[q].pc \in {"consume", "act"} =>
           \/ req[q].pc \in {"consume", "act"} /\ req'[q].obj = req[q].obj
           \/ earned[req'[q].obj] # None /\ Active(Holder(req'[q].obj))
<1> USE NullAssumption DEF TypeOK, ReqRecord, IdleReq, rowVars, historyVars
<1>1. ASSUME req'[q] = req[q] PROVE Goal
  BY <1>1
<1>2. ASSUME NEW p \in Req, Done(p) PROVE Goal
  BY <1>2 DEF Done
<1>3. ASSUME NEW p \in Req, NEW d \in Device, RequestChallenge(p, d) PROVE Goal
  BY <1>3 DEF RequestChallenge, Begin
<1>4. ASSUME NEW p \in Req, NEW x \in Challenge, FindChallenge(p, x) PROVE Goal
  BY <1>4 DEF FindChallenge, Begin
<1>5. ASSUME NEW p \in Req, NEW t \in Ticket, FindTicket(p, t) PROVE Goal
  BY <1>5 DEF FindTicket, Begin
<1>6. ASSUME NEW p \in Req, ConsumeTicket(p) PROVE Goal
  BY <1>6 DEF ConsumeTicket, Goto, Done
<1>7. ASSUME NEW p \in Req, NEW pc, NEW x, Begin(p, pc, x), pc \in {"code", "count", "first"}
      PROVE  Goal
  BY <1>7 DEF Begin
<1>8. ASSUME NEW p \in Req, CountMembers(p) PROVE Goal
  BY <1>8 DEF CountMembers, Goto, Done
<1>9. ASSUME NEW p \in Req, NEW c \in Code, FindCode(p, c) PROVE Goal
  BY <1>7, <1>9 DEF FindCode
<1>10. ASSUME NEW p \in Req, NEW w \in Workspace, RequestCode(p, w) PROVE Goal
  BY <1>7, <1>10 DEF RequestCode
<1>11. ASSUME NEW p \in Req, CountDevices(p) PROVE Goal
  BY <1>7, <1>11 DEF CountDevices
<1>12. ASSUME UNCHANGED req PROVE Goal
  BY <1>1, <1>12
<1> HIDE DEF Goal, TypeOK, ReqRecord, IdleReq
<1>13. ASSUME NEW p \in Req, ReqStep(p) \/ RequestDies(p) PROVE Goal
  BY <1>2, <1>6, <1>8, <1>11, <1>13
  DEF ReqStep, InsertCode, ClaimCode, CreateFirstDevice, InsertChallenge, ConsumeChallenge,
      SpendTicket, RequestDies
<1>14. Goal
  BY <1>3, <1>4, <1>5, <1>9, <1>10, <1>12, <1>13
  DEF Next, vars, Register, AcceptInvitation, RevokeDevice, Expire
<1> QED
  BY <1>14 DEF Goal

\* After revocation and the end of the requests in flight, nothing is issued.
THEOREM RevocationHolds == Spec => RevocationIsFinal
<1> DEFINE Final(d) ==
      /\ Quiet(d)'
      /\ \A x \in Challenge : challenger'[x] = d => challenger[x] = d
      /\ \A t \in Ticket : earned'[t] # None /\ Holder(t)' = d =>
           earned'[t] = earned[t] /\ spent'[t] = spent[t]
<1>1. ASSUME IInv, [Next]_vars, NEW d \in Device, Quiet(d) PROVE Final(d)
  <2> USE NullAssumption
  <2>types. /\ TypeOK /\ TypeOK' /\ RequestsHaveRows /\ RequestsHaveRows' /\ RowsAreLinked
            /\ RowsAreLinked'
    BY <1>1, TypeStep, RequestStep, LinkStep DEF IInv
  <2>1. Quiet(d)'
    <3>1. devWs'[d] # None /\ status'[d] = "REVOKED" /\ ~Active(d)
      BY <1>1, <2>types, DeviceStep DEF Quiet, Active
    <3> SUFFICES ASSUME NEW q \in Req
                 PROVE  /\ req'[q].pc = "nonce" => req'[q].obj # d
                        /\ req'[q].pc = "verify" => challenger'[req'[q].obj] # d
                        /\ req'[q].pc \in {"consume", "act"} => Holder(req[q].obj)' # d
      BY <3>1 DEF Quiet, Holder
    <3>2. CASE req'[q].pc = "nonce"
      BY <3>1, <3>2, <1>1, <2>types, GateStep DEF Quiet
    <3>3. CASE req'[q].pc = "verify"
      <4>1. challenger[req'[q].obj] # d /\ challenger[req'[q].obj] # None
        BY <3>1, <3>3, <1>1, <2>types, GateStep DEF Quiet, RequestsHaveRows, Active
      <4> QED
        BY <4>1, <3>3, <1>1, <2>types, DeviceStep DEF RequestsHaveRows
    <3>4. CASE req'[q].pc \in {"consume", "act"}
      <4>1. req'[q].obj \in Ticket
        BY <3>4, <2>types DEF RequestsHaveRows
      <4>2. Holder(req'[q].obj) # d /\ earned[req'[q].obj] # None
        BY <3>1, <3>4, <1>1, <2>types, GateStep DEF Quiet, RequestsHaveRows
      <4>3. /\ earned'[req'[q].obj] = earned[req'[q].obj] /\ earned[req'[q].obj] \in Challenge
            /\ challenger[earned[req'[q].obj]] # None
        BY <4>1, <4>2, <1>1, <2>types, DeviceStep DEF RowsAreLinked, TypeOK
      <4> QED
        BY <4>2, <4>3, <1>1, <2>types, <3>4, DeviceStep DEF Holder
    <3> QED
      BY <3>2, <3>3, <3>4
  <2>2. ASSUME NEW x \in Challenge, challenger'[x] = d PROVE challenger[x] = d
    BY <1>1, <2>2, <2>types, DeviceStep DEF Quiet
  <2>3. ASSUME NEW t \in Ticket, earned'[t] # None, Holder(t)' = d
        PROVE  earned'[t] = earned[t] /\ spent'[t] = spent[t]
    <3>1. earned'[t] \in Challenge /\ challenger'[earned'[t]] = d
      BY <2>3, <2>types DEF Holder, TypeOK
    <3>2. challenger[earned'[t]] = d
      BY <3>1, <2>2
    <3>3. earned'[t] = earned[t]
      BY <3>2, <1>1, <2>types, DeviceStep DEF Quiet
    <3> QED
      BY <3>2, <3>3, <1>1, <2>types, DeviceStep DEF Quiet, Holder
  <2> QED
    BY <2>1, <2>2, <2>3
<1>2. IInv /\ [Next]_vars => [\A d \in Device : Quiet(d) => Final(d)]_vars
  BY <1>1
<1> HIDE DEF Final
<1>3. Spec => [][\A d \in Device : Quiet(d) => Final(d)]_vars
  BY <1>2, Inductive, PTL DEF Spec
<1> QED
  BY <1>3 DEF RevocationIsFinal, Final
=============================================================================
