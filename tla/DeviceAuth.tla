----------------------------- MODULE DeviceAuth -----------------------------
(***************************************************************************)
(* Browser-extension devices: pairing codes and the bootstrap code, the    *)
(* challenge a device signs, the login ticket it earns, the two endpoints  *)
(* that spend a ticket (a login session, a Reddit session upload), and     *)
(* revocation (ExtensionAuthService, RedditSessionSyncService).            *)
(*                                                                         *)
(* One action per database statement or transaction.  A request that is    *)
(* refused changes nothing, so refusals on the first read are left out.    *)
(* Signatures are taken to be checked: a request that presents a challenge *)
(* is the device's.  Requests for other workspaces do not interfere except *)
(* through the bootstrap code.                                             *)
(***************************************************************************)
EXTENDS Naturals, FiniteSets

CONSTANTS
  Workspace, Device, Code, Challenge, Ticket,
  Req,          \* API requests that may be in flight at once
  MaxUsers,     \* MAX_PRIVATE_USERS
  MaxJoins,     \* bound of the model: members who come without a device
  Bootstrap,    \* "paired with EXTENSION_BOOTSTRAP_CODE"
  None          \* no row, no object

ASSUME LimitAssumption == MaxUsers \in Nat \ {0} /\ MaxJoins \in Nat
ASSUME ReqAssumption == Req # {} /\ IsFiniteSet(Req)
ASSUME NullAssumption ==
  /\ None \notin Device /\ None \notin Code /\ None \notin Challenge /\ None \notin Ticket
  /\ None \notin Workspace /\ Bootstrap \notin Code /\ Bootstrap # None
ASSUME TablesAssumption ==
  Code \cap Challenge = {} /\ Code \cap Ticket = {} /\ Challenge \cap Ticket = {}

VARIABLES
  members,     \* [Workspace -> number of WorkspaceMember rows; 0: no workspace]
  devWs,       \* [Device -> its workspace, or None while there is no row]
  status,      \* [Device -> "ACTIVE" or "REVOKED"]
  codeWs,      \* [Code -> its workspace, or None while there is no row]
  challenger,  \* [Challenge -> the device it was made for, or None]
  earned,      \* [Ticket -> the challenge whose verification made it, or None]
  used,        \* codes, challenges and tickets with usedAt set
  expired,     \* codes, challenges and tickets whose expiresAt has passed
  req,         \* [Req -> local state of the request]
  \* history, read by properties only
  joined,      \* [Workspace -> members who did not come with a pairing code]
  pairedBy,    \* [Device -> the code it was paired with]
  spent        \* [Ticket -> sessions issued and uploads stored for it]

rowVars == <<members, devWs, status, codeWs, challenger, earned, used, expired>>
historyVars == <<joined, pairedBy, spent>>
vars == <<rowVars, req, historyVars>>

\* "code", "pair", "first", "nonce", "verify", "consume": about to make that
\* write after the reads that allow it; "count": a code was found, the members
\* are not counted yet; "act": the ticket is consumed, its effect is not there.
ReqRecord ==
  [pc : {"idle", "code", "count", "pair", "first", "nonce", "verify", "consume", "act"},
   obj : Workspace \cup Code \cup Device \cup Challenge \cup Ticket \cup {None}]
IdleReq == [pc |-> "idle", obj |-> None]

\* Type invariant.
TypeOK ==
  /\ members \in [Workspace -> Nat]
  /\ devWs \in [Device -> Workspace \cup {None}]
  /\ status \in [Device -> {"ACTIVE", "REVOKED"}]
  /\ codeWs \in [Code -> Workspace \cup {None}]
  /\ challenger \in [Challenge -> Device \cup {None}]
  /\ earned \in [Ticket -> Challenge \cup {None}]
  /\ used \subseteq Code \cup Challenge \cup Ticket
  /\ expired \subseteq Code \cup Challenge \cup Ticket
  /\ req \in [Req -> ReqRecord]
  /\ joined \in [Workspace -> 0..MaxJoins]
  /\ pairedBy \in [Device -> Code \cup {Bootstrap, None}]
  /\ spent \in [Ticket -> Nat]

Init ==
  /\ members = [w \in Workspace |-> 0]
  /\ devWs = [d \in Device |-> None] /\ status = [d \in Device |-> "ACTIVE"]
  /\ codeWs = [c \in Code |-> None]
  /\ challenger = [x \in Challenge |-> None]
  /\ earned = [t \in Ticket |-> None]
  /\ used = {} /\ expired = {}
  /\ req = [p \in Req |-> IdleReq]
  /\ joined = [w \in Workspace |-> 0]
  /\ pairedBy = [d \in Device |-> None]
  /\ spent = [t \in Ticket |-> 0]

-----------------------------------------------------------------------------

\* The row can still be used: usedAt is null and expiresAt is ahead.
Usable(x) == x \notin used /\ x \notin expired
Active(d) == devWs[d] # None /\ status[d] = "ACTIVE"
\* The device a ticket was made for.
Holder(t) == challenger[earned[t]]

Begin(p, pc, x) ==
  /\ req[p].pc = "idle"
  /\ req' = [req EXCEPT ![p] = [pc |-> pc, obj |-> x]]
Goto(p, pc) == req' = [req EXCEPT ![p].pc = pc]
Done(p) == req' = [req EXCEPT ![p] = IdleReq]

\* A device row and its user's membership appear together.
AddDevice(w, d, by) ==
  /\ devWs[d] = None
  /\ devWs' = [devWs EXCEPT ![d] = w]
  /\ pairedBy' = [pairedBy EXCEPT ![d] = by]
  /\ members' = [members EXCEPT ![w] = @ + 1]

-----------------------------------------------------------------------------
(* Members who come without a device *)

\* register: a user with a password and a workspace of their own.
Register(w) ==
  /\ members[w] = 0
  /\ members' = [members EXCEPT ![w] = 1]
  /\ UNCHANGED <<devWs, status, codeWs, challenger, earned, used, expired, req, historyVars>>

\* acceptInvitation inserts a member and does not look at the limit.
AcceptInvitation(w) ==
  /\ members[w] > 0 /\ joined[w] < MaxJoins
  /\ members' = [members EXCEPT ![w] = @ + 1]
  /\ joined' = [joined EXCEPT ![w] = @ + 1]
  /\ UNCHANGED <<devWs, status, codeWs, challenger, earned, used, expired, req, pairedBy, spent>>

-----------------------------------------------------------------------------
(* Pairing *)

HasRoom(w) == members[w] < MaxUsers

\* createPairingCode: a member asks, the workspace is not full ...
RequestCode(p, w) ==
  /\ members[w] > 0 /\ HasRoom(w)
  /\ Begin(p, "code", w)
  /\ UNCHANGED <<rowVars, historyVars>>

\* ... and the code is stored.
InsertCode(p) ==
  /\ req[p].pc = "code"
  /\ \E c \in Code : codeWs[c] = None /\ codeWs' = [codeWs EXCEPT ![c] = req[p].obj]
  /\ Done(p)
  /\ UNCHANGED <<members, devWs, status, challenger, earned, used, expired, historyVars>>

\* Variant with a fault: the members are counted for new codes only.
FindCodeUncounted(p, c) ==
  /\ codeWs[c] # None /\ Usable(c)
  /\ Begin(p, "pair", c)
  /\ UNCHANGED <<rowVars, historyVars>>

\* pair: the code is found and usable ...
FindCode(p, c) ==
  /\ codeWs[c] # None /\ Usable(c)
  /\ Begin(p, "count", c)
  /\ UNCHANGED <<rowVars, historyVars>>

\* ... assertWorkspaceCapacity counts the members ...
CountMembers(p) ==
  /\ req[p].pc = "count"
  /\ IF HasRoom(codeWs[req[p].obj]) THEN Goto(p, "pair") ELSE Done(p)
  /\ UNCHANGED <<rowVars, historyVars>>

\* Variant with a fault: the code is marked used without looking.
ClaimCodeUnchecked(p) ==
  LET c == req[p].obj IN
  /\ req[p].pc = "pair"
  /\ Done(p)
  /\ used' = used \cup {c}
  /\ \E d \in Device : AddDevice(codeWs[c], d, c)
  /\ UNCHANGED <<status, codeWs, challenger, earned, expired, joined, spent>>

\* ... and one transaction claims the code and makes user, member and device.
ClaimCode(p) ==
  LET c == req[p].obj IN
  /\ req[p].pc = "pair"
  /\ Done(p)
  /\ \/ /\ Usable(c)
        /\ used' = used \cup {c}
        /\ \E d \in Device : AddDevice(codeWs[c], d, c)
     \/ ~Usable(c) /\ UNCHANGED <<used, devWs, pairedBy, members>>
  /\ UNCHANGED <<status, codeWs, challenger, earned, expired, joined, spent>>

\* The bootstrap code: no device row exists anywhere ...
CountDevices(p) ==
  /\ \A d \in Device : devWs[d] = None
  /\ Begin(p, "first", None)
  /\ UNCHANGED <<rowVars, historyVars>>

\* ... and a workspace with an owner and a device is made.
CreateFirstDevice(p) ==
  /\ req[p].pc = "first"
  /\ \E w \in Workspace, d \in Device : members[w] = 0 /\ AddDevice(w, d, Bootstrap)
  /\ Done(p)
  /\ UNCHANGED <<status, codeWs, challenger, earned, used, expired, joined, spent>>

-----------------------------------------------------------------------------
(* Login *)

\* createChallenge for an active device ...
RequestChallenge(p, d) ==
  /\ Active(d)
  /\ Begin(p, "nonce", d)
  /\ UNCHANGED <<rowVars, historyVars>>

\* ... stores a nonce for it.
InsertChallenge(p) ==
  /\ req[p].pc = "nonce"
  /\ \E x \in Challenge :
       challenger[x] = None /\ challenger' = [challenger EXCEPT ![x] = req[p].obj]
  /\ Done(p)
  /\ UNCHANGED <<members, devWs, status, codeWs, earned, used, expired, historyVars>>

\* verifyChallenge: the challenge is usable, its device active, the proof good ...
FindChallenge(p, x) ==
  /\ challenger[x] # None /\ Usable(x) /\ Active(challenger[x])
  /\ Begin(p, "verify", x)
  /\ UNCHANGED <<rowVars, historyVars>>

\* ... and one transaction consumes it and makes a ticket.
ConsumeChallenge(p) ==
  LET x == req[p].obj IN
  /\ req[p].pc = "verify"
  /\ Done(p)
  /\ \/ /\ Usable(x)
        /\ used' = used \cup {x}
        /\ \E t \in Ticket : earned[t] = None /\ earned' = [earned EXCEPT ![t] = x]
     \/ ~Usable(x) /\ UNCHANGED <<used, earned>>
  /\ UNCHANGED <<members, devWs, status, codeWs, challenger, expired, historyVars>>

\* Variant with a fault: the device's status is not looked at.
FindTicketOfAny(p, t) ==
  /\ earned[t] # None /\ Usable(t)
  /\ Begin(p, "consume", t)
  /\ UNCHANGED <<rowVars, historyVars>>

\* exchangeTicket and the Reddit session upload start alike: the ticket is
\* usable and its device active ...
FindTicket(p, t) ==
  /\ earned[t] # None /\ Usable(t) /\ Active(Holder(t))
  /\ Begin(p, "consume", t)
  /\ UNCHANGED <<rowVars, historyVars>>

\* ... the ticket is consumed by a conditional update of its own ...
ConsumeTicket(p) ==
  LET t == req[p].obj IN
  /\ req[p].pc = "consume"
  /\ IF Usable(t)
       THEN used' = used \cup {t} /\ Goto(p, "act")
       ELSE Done(p) /\ UNCHANGED used
  /\ UNCHANGED <<members, devWs, status, codeWs, challenger, earned, expired, historyVars>>

\* ... and the session is inserted, or the uploaded session stored.
SpendTicket(p) ==
  /\ req[p].pc = "act"
  /\ spent' = [spent EXCEPT ![req[p].obj] = @ + 1]
  /\ Done(p)
  /\ UNCHANGED <<rowVars, joined, pairedBy>>

-----------------------------------------------------------------------------
(* Revocation, time and failure *)

\* revokeDevice: one conditional update by an owner or admin.
RevokeDevice(d) ==
  /\ Active(d)
  /\ status' = [status EXCEPT ![d] = "REVOKED"]
  /\ UNCHANGED <<members, devWs, codeWs, challenger, earned, used, expired, req, historyVars>>

\* expiresAt of a stored code, challenge or ticket passes.
Expire(x) ==
  /\ x \notin expired
  /\ \/ x \in Code /\ codeWs[x] # None
     \/ x \in Challenge /\ challenger[x] # None
     \/ x \in Ticket /\ earned[x] # None
  /\ expired' = expired \cup {x}
  /\ UNCHANGED <<members, devWs, status, codeWs, challenger, earned, used, req, historyVars>>

\* A statement fails or the process dies; a consumed ticket stays consumed.
RequestDies(p) ==
  /\ req[p].pc # "idle"
  /\ Done(p)
  /\ UNCHANGED <<rowVars, historyVars>>

ReqStep(p) ==
  \/ InsertCode(p) \/ CountMembers(p) \/ ClaimCode(p) \/ CountDevices(p) \/ CreateFirstDevice(p)
  \/ InsertChallenge(p) \/ ConsumeChallenge(p) \/ ConsumeTicket(p) \/ SpendTicket(p)

Next ==
  \/ \E w \in Workspace : Register(w) \/ AcceptInvitation(w) \/ \E p \in Req : RequestCode(p, w)
  \/ \E p \in Req, c \in Code : FindCode(p, c)
  \/ \E p \in Req, d \in Device : RequestChallenge(p, d)
  \/ \E p \in Req, x \in Challenge : FindChallenge(p, x)
  \/ \E p \in Req, t \in Ticket : FindTicket(p, t)
  \/ \E p \in Req : ReqStep(p) \/ RequestDies(p)
  \/ \E d \in Device : RevokeDevice(d)
  \/ \E x \in Code \cup Challenge \cup Ticket : Expire(x)

Spec == Init /\ [][Next]_vars

-----------------------------------------------------------------------------
(* Properties *)

\* A pairing code makes one device, whoever presents it at the same time.
CodePairsOneDevice ==
  \A d, e \in Device : pairedBy[d] = pairedBy[e] /\ pairedBy[d] \in Code => d = e

\* A signed challenge earns one ticket, and a ticket buys one thing: a session
\* or an upload, never both and never twice, although two services spend it.
ChallengeEarnsOneTicket ==
  \A t, u \in Ticket : earned[t] = earned[u] /\ earned[t] # None => t = u
TicketIsSpentOnce ==
  \A t \in Ticket :
    /\ spent[t] <= 1
    /\ \A p \in Req : req[p] = [pc |-> "act", obj |-> t] =>
         spent[t] = 0 /\ \A q \in Req : req[q] = req[p] => p = q

\* Every secret of the login is used once, whatever requests present it at once
\* and wherever they die.
SecretsAreSingleUse ==
  CodePairsOneDevice /\ ChallengeEarnsOneTicket /\ TicketIsSpentOnce

\* Once the requests that were in flight at its revocation have ended, nothing
\* more is issued for a device: no challenge, no ticket, no session.
Quiet(d) ==
  /\ devWs[d] # None /\ status[d] = "REVOKED"
  /\ \A p \in Req :
       /\ req[p].pc = "nonce" => req[p].obj # d
       /\ req[p].pc = "verify" => challenger[req[p].obj] # d
       /\ req[p].pc \in {"consume", "act"} => Holder(req[p].obj) # d
RevocationIsFinal ==
  [][\A d \in Device : Quiet(d) =>
       /\ Quiet(d)'
       /\ \A x \in Challenge : challenger'[x] = d => challenger[x] = d
       /\ \A t \in Ticket : earned'[t] # None /\ Holder(t)' = d =>
            earned'[t] = earned[t] /\ spent'[t] = spent[t]]_vars

\* The member limit is checked before the write and not in it: a workspace
\* exceeds it by at most one member for every other request in flight, not
\* counting those who came by invitation.
MembersAreBounded ==
  \A w \in Workspace : members[w] <= MaxUsers + joined[w] + Cardinality(Req) - 1

\* The bootstrap code makes at most one device per request in flight.
BootstrapsAreBounded ==
  Cardinality({d \in Device : pairedBy[d] = Bootstrap}) <= Cardinality(Req)

\* What is counted before it is written is exceeded only by requests in flight.
OvershootIsBounded == MembersAreBounded /\ BootstrapsAreBounded

-----------------------------------------------------------------------------
(* The inductive invariant *)

\* A request past its first read names a row that exists; a ticket about to be
\* acted on is marked used.
RequestsHaveRows ==
  \A p \in Req :
    /\ req[p].pc = "code" => req[p].obj \in Workspace /\ members[req[p].obj] > 0
    /\ req[p].pc \in {"count", "pair"} => req[p].obj \in Code /\ codeWs[req[p].obj] # None
    /\ req[p].pc = "nonce" => req[p].obj \in Device /\ devWs[req[p].obj] # None
    /\ req[p].pc = "verify" => req[p].obj \in Challenge /\ challenger[req[p].obj] # None
    /\ req[p].pc \in {"consume", "act"} => req[p].obj \in Ticket /\ earned[req[p].obj] # None
    /\ req[p].pc = "act" => req[p].obj \in used

\* Rows refer to rows, and what was made from a code, a challenge or a ticket
\* marked it used.
RowsAreLinked ==
  /\ \A c \in Code : codeWs[c] # None => members[codeWs[c]] > 0
  /\ \A d \in Device : /\ devWs[d] = None => pairedBy[d] = None
                       /\ pairedBy[d] \in Code => pairedBy[d] \in used
  /\ \A x \in Challenge : challenger[x] # None => devWs[challenger[x]] # None
  /\ \A t \in Ticket :
       /\ earned[t] # None => earned[t] \in used /\ challenger[earned[t]] # None
       /\ spent[t] > 0 => t \in used /\ earned[t] # None

\* Requests that passed the capacity check and have not paired yet count too.
Pairing(w) == {p \in Req : req[p].pc = "pair" /\ codeWs[req[p].obj] = w}
RoomIsShared ==
  \A w \in Workspace :
    members[w] + Cardinality(Pairing(w)) <= MaxUsers + joined[w] + Cardinality(Req) - 1

Bootstrapped == {d \in Device : pairedBy[d] = Bootstrap}
Bootstrapping == {p \in Req : req[p].pc = "first"}
BootstrapIsShared ==
  /\ IsFiniteSet(Bootstrapped)
  /\ Cardinality(Bootstrapped) + Cardinality(Bootstrapping) <= Cardinality(Req)

IInv ==
  /\ TypeOK /\ RequestsHaveRows /\ RowsAreLinked
  /\ CodePairsOneDevice /\ ChallengeEarnsOneTicket /\ TicketIsSpentOnce
  /\ RoomIsShared /\ BootstrapIsShared
=============================================================================
