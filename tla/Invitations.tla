----------------------------- MODULE Invitations -----------------------------
(***************************************************************************)
(* Accounts, workspaces and everything that writes a membership.  A user   *)
(* is known by the (normalised) email; registering makes the user, the     *)
(* user's workspace, named like the user here, and its OWNER in one        *)
(* transaction.  The bootstrap code does so for the first device, and a    *)
(* pairing code makes a user with the role the code was made for.          *)
(* Inviting checks the role and then stores the invitation with its email  *)
(* in one transaction; accepting is three statements without one: claim    *)
(* the invitation, give it back if it is another user's, join.             *)
(* The sessions that registering and logging in open are SessionFamily's;  *)
(* the devices that come with pairing are DeviceAuth's.                    *)
(***************************************************************************)
EXTENDS Naturals, FiniteSets

CONSTANTS
  User,     \* emails, and the workspaces of the users who have them
  Paired,   \* those that pairing makes up, of random ids nobody else uses
  Inv,      \* invitations that may be made
  Code,     \* pairing codes that may be made
  Call,     \* requests that may be in progress at once
  MaxUsers, \* MAX_PRIVATE_USERS
  Asked,    \* roles that requests ask for
  Nobody

ASSUME InvitationAssumption ==
  /\ Paired \subseteq User /\ MaxUsers \in Nat \ {0}
  /\ Nobody \notin User \cup Inv \cup Code

VARIABLES
  account,  \* [User -> rows of "User" with that email]
  role,     \* role[w][u]: role of u in the workspace of w, "none" without row
  inv,      \* [Inv -> WorkspaceInvitation row]
  code,     \* [Code -> ExtensionPairingCode row]
  mailed,   \* invitations whose email is in the outbox
  call,     \* [Call -> local state of a request]
  \* history, read by properties only
  joins,    \* [Inv -> memberships it has led to]
  burnt,    \* invitations whose claim was lost with its request
  given,    \* given[w][u]: role that came with the account of u
  preceded  \* [Inv -> invitations that had led to one when it was claimed]

rows == <<account, role, inv, mailed, code>>
history == <<joins, burnt, given, preceded>>
vars == <<rows, call, history>>

Role == {"OWNER", "ADMIN", "MEMBER", "VIEWER"}
Invitable == Role \ {"OWNER"}

ASSUME RoleAssumption == Asked \subseteq Role

InvRecord == [state : {"none", "open", "accepted", "expired"},
              ws : User \cup {Nobody}, email : User \cup {Nobody}, role : Invitable]
NoInv == [state |-> "none", ws |-> Nobody, email |-> Nobody, role |-> "MEMBER"]

CodeRecord == [state : {"none", "open", "used", "expired"},
               ws : User \cup {Nobody}, role : Role]
NoCode == [state |-> "none", ws |-> Nobody, role |-> "MEMBER"]

CallRecord == [pc : {"idle", "register", "code", "pair", "first", "invite", "undo", "join"},
               user : User \cup {Nobody}, ws : User \cup {Nobody}, role : Role,
               inv : Inv \cup {Nobody}, code : Code \cup {Nobody}]
IdleCall == [pc |-> "idle", user |-> Nobody, ws |-> Nobody, role |-> "MEMBER",
             inv |-> Nobody, code |-> Nobody]

\* Type invariant.
TypeOK ==
  /\ account \in [User -> Nat]
  /\ role \in [User -> [User -> Role \cup {"none"}]]
  /\ inv \in [Inv -> InvRecord] /\ mailed \subseteq Inv
  /\ code \in [Code -> CodeRecord]
  /\ call \in [Call -> CallRecord]
  /\ joins \in [Inv -> Nat] /\ burnt \subseteq Inv
  /\ given \in [User -> [User -> Role \cup {"none"}]]
  /\ preceded \in [Inv -> SUBSET Inv]

Init ==
  /\ account = [u \in User |-> 0]
  /\ role = [w \in User |-> [u \in User |-> "none"]]
  /\ inv = [i \in Inv |-> NoInv] /\ mailed = {}
  /\ code = [c \in Code |-> NoCode]
  /\ call = [q \in Call |-> IdleCall]
  /\ joins = [i \in Inv |-> 0] /\ burnt = {}
  /\ given = role /\ preceded = [i \in Inv |-> {}]

Idle(q) == call' = [call EXCEPT ![q] = IdleCall]

-----------------------------------------------------------------------------
(* Accounts *)

\* A user appears with a membership.
NewMember(u, w, r) ==
  /\ account' = [account EXCEPT ![u] = @ + 1]
  /\ role' = [role EXCEPT ![w][u] = r]
  /\ given' = [given EXCEPT ![w][u] = r]

\* register() finds the email free, and hashes the password.
BeginRegister(q, u) ==
  /\ call[q].pc = "idle" /\ account[u] = 0 /\ u \notin Paired
  /\ call' = [call EXCEPT ![q] = [IdleCall EXCEPT !.pc = "register", !.user = u]]
  /\ UNCHANGED <<rows, history>>

\* The transaction; an email taken meanwhile violates the unique key.
FinishRegister(q) ==
  LET u == call[q].user IN
  /\ call[q].pc = "register"
  /\ \/ account[u] = 0 /\ NewMember(u, u, "OWNER")
     \/ account[u] # 0 /\ UNCHANGED <<account, role, given>>
  /\ Idle(q)
  /\ UNCHANGED <<inv, mailed, code, joins, burnt, preceded>>

-----------------------------------------------------------------------------
(* Pairing *)

Manages(w, u) == role[w][u] \in {"OWNER", "ADMIN"}
\* assertWorkspaceCapacity().  Members stay, so room when they are counted is
\* room in the read before, which decides here.
HasRoom(w) == Cardinality({u \in User : role[w][u] # "none"}) < MaxUsers

\* createPairingCode() reads the role of who asks; an owner makes an owner ...
BeginCode(q, u, w, r) ==
  /\ call[q].pc = "idle"
  /\ Manages(w, u) /\ (r = "OWNER" => role[w][u] = "OWNER") /\ HasRoom(w)
  /\ call' = [call EXCEPT ![q] = [IdleCall EXCEPT !.pc = "code", !.ws = w, !.role = r]]
  /\ UNCHANGED <<rows, history>>

\* ... and stores the code.
FinishCode(q, c) ==
  /\ call[q].pc = "code" /\ code[c].state = "none"
  /\ code' = [code EXCEPT ![c] = [state |-> "open", ws |-> call[q].ws, role |-> call[q].role]]
  /\ Idle(q)
  /\ UNCHANGED <<account, role, inv, mailed, history>>

CodeExpires(c) ==
  /\ code[c].state = "open"
  /\ code' = [code EXCEPT ![c].state = "expired"]
  /\ UNCHANGED <<account, role, inv, mailed, call, history>>

\* pair() finds the code usable ...
BeginPair(q, c) ==
  /\ call[q].pc = "idle"
  /\ code[c].state = "open" /\ HasRoom(code[c].ws)
  /\ call' = [call EXCEPT ![q] = [IdleCall EXCEPT !.pc = "pair", !.code = c]]
  /\ UNCHANGED <<rows, history>>

\* ... and in one transaction uses it, if it still is, and adds its user.
FinishPair(q) ==
  LET c == call[q].code IN
  /\ call[q].pc = "pair"
  /\ \/ /\ code[c].state = "open"
        /\ code' = [code EXCEPT ![c].state = "used"]
        /\ \E d \in Paired : account[d] = 0 /\ NewMember(d, code[c].ws, code[c].role)
     \/ code[c].state # "open" /\ UNCHANGED <<account, role, given, code>>
  /\ Idle(q)
  /\ UNCHANGED <<inv, mailed, joins, burnt, preceded>>

\* bootstrapFirstDevice() finds no device, each of which has such a user ...
BeginBootstrap(q) ==
  /\ call[q].pc = "idle" /\ \A d \in Paired : account[d] = 0
  /\ call' = [call EXCEPT ![q] = [IdleCall EXCEPT !.pc = "first"]]
  /\ UNCHANGED <<rows, history>>

\* ... and adds one with a workspace; another may have come meanwhile.
FinishBootstrap(q) ==
  /\ call[q].pc = "first"
  /\ \E d \in Paired : account[d] = 0 /\ NewMember(d, d, "OWNER")
  /\ Idle(q)
  /\ UNCHANGED <<inv, mailed, code, joins, burnt, preceded>>

-----------------------------------------------------------------------------
(* Invitations *)

\* invite() reads the inviter's role ...
BeginInvite(q, u, w) ==
  /\ call[q].pc = "idle" /\ Manages(w, u)
  /\ call' = [call EXCEPT ![q] = [IdleCall EXCEPT !.pc = "invite", !.user = u, !.ws = w]]
  /\ UNCHANGED <<rows, history>>

\* ... and stores the invitation with its outbox row.
FinishInvite(q, i, u, r) ==
  /\ call[q].pc = "invite" /\ inv[i].state = "none"
  /\ inv' = [inv EXCEPT ![i] = [state |-> "open", ws |-> call[q].ws, email |-> u, role |-> r]]
  /\ mailed' = mailed \cup {i}
  /\ Idle(q)
  /\ UNCHANGED <<account, role, code, history>>

\* Seven days pass.
InvitationExpires(i) ==
  /\ inv[i].state = "open"
  /\ inv' = [inv EXCEPT ![i].state = "expired"]
  /\ UNCHANGED <<account, role, mailed, code, call, history>>

\* Invitations that have led to the membership of u in the workspace of w.
Led(w, u) == {i \in mailed : joins[i] > 0 /\ inv[i].ws = w /\ inv[i].email = u}

Claimed(q, i, u, pc) ==
  /\ inv' = [inv EXCEPT ![i].state = "accepted"]
  /\ call' = [call EXCEPT ![q] = [IdleCall EXCEPT !.pc = pc, !.user = u, !.inv = i]]
  /\ preceded' = [preceded EXCEPT ![i] = Led(inv[i].ws, inv[i].email)]
  /\ UNCHANGED <<account, role, mailed, code, joins, burnt, given>>

\* acceptInvitation claims the invitation in one statement, whoever asks; then
\* it compares the emails.
Claim(q, i, u) ==
  /\ call[q].pc = "idle" /\ account[u] # 0
  /\ inv[i].state = "open"
  /\ Claimed(q, i, u, IF inv[i].email = u THEN "join" ELSE "undo")

\* Variant with a fault: another user's claim is refused and kept.
RefuseOnly(q) ==
  /\ call[q].pc = "undo"
  /\ Idle(q)
  /\ UNCHANGED <<rows, history>>

\* Another user's: the claim is taken back.  expiresAt may have passed.
Undo(q) ==
  /\ call[q].pc = "undo"
  /\ \E state \in {"open", "expired"} : inv' = [inv EXCEPT ![call[q].inv].state = state]
  /\ Idle(q)
  /\ UNCHANGED <<account, role, mailed, code, history>>

\* The membership with the role r; what becomes of one there is depends on r.
JoinAs(q, r) ==
  LET i == call[q].inv IN
  /\ call[q].pc = "join"
  /\ role' = [role EXCEPT ![inv[i].ws][call[q].user] = r]
  /\ joins' = [joins EXCEPT ![i] = @ + 1]
  /\ Idle(q)
  /\ UNCHANGED <<account, inv, mailed, code, burnt, given, preceded>>

\* Variant with a fault: ON CONFLICT DO NOTHING.
JoinIfNew(q) ==
  LET held == role[inv[call[q].inv].ws][call[q].user]
  IN JoinAs(q, IF held = "none" THEN inv[call[q].inv].role ELSE held)

\* ON CONFLICT the role of a member becomes the invitation's.
Join(q) == JoinAs(q, inv[call[q].inv].role)

\* The process dies or a statement fails.
CallDies(q) ==
  /\ call[q].pc # "idle"
  /\ burnt' = burnt \cup ({call[q].inv} \ {Nobody})
  /\ Idle(q)
  /\ UNCHANGED <<rows, joins, given, preceded>>

-----------------------------------------------------------------------------

Next ==
  \/ \E q \in Call, u \in User :
       \/ BeginRegister(q, u)
       \/ \E w \in User : BeginInvite(q, u, w) \/ \E r \in Asked : BeginCode(q, u, w, r)
       \/ \E i \in Inv : Claim(q, i, u) \/ \E r \in Asked \cap Invitable : FinishInvite(q, i, u, r)
  \/ \E q \in Call, c \in Code : FinishCode(q, c) \/ BeginPair(q, c)
  \/ \E q \in Call :
       \/ FinishRegister(q) \/ FinishPair(q) \/ BeginBootstrap(q) \/ FinishBootstrap(q)
       \/ Undo(q) \/ Join(q) \/ CallDies(q)
  \/ \E i \in Inv : InvitationExpires(i)
  \/ \E c \in Code : CodeExpires(c)

Spec == Init /\ [][Next]_vars

-----------------------------------------------------------------------------
(* Properties *)

\* An email has one account, however many registrations run at once.
EmailHasOneAccount == \A u \in User : account[u] <= 1

Holds(q, i) == call[q].pc \in {"undo", "join"} /\ call[q].inv = i

\* An invitation leads to one membership at most, and once it is accepted to
\* exactly one, unless a request is about to make it or take it back, or died
\* there: trying another user's invitation costs its owner nothing.
AcceptedMeansJoined ==
  \A i \in Inv :
    /\ joins[i] <= 1
    /\ inv[i].state = "accepted" =>
         joins[i] = 1 \/ i \in burnt \/ \E q \in Call : Holds(q, i)

\* Nobody is a member with a role other than the one that came with the account
\* (registration, bootstrap or pairing code) unless by an invitation to that
\* workspace and user, and the order of acceptance decides between several:
\* the role is not that of one whose membership had been written before
\* another that led to one was claimed, whichever was sent first.
RolesFollowAcceptance ==
  \A w, u \in User :
    /\ Led(w, u) = {} => role[w][u] = given[w][u]
    /\ Led(w, u) # {} =>
         \E i \in Led(w, u) : /\ inv[i].role = role[w][u]
                              /\ \A j \in Led(w, u) : i \notin preceded[j]

-----------------------------------------------------------------------------
(* The inductive invariant *)

\* Requests name the rows they work on, and invitations theirs.
RowsAreNamed ==
  /\ \A q \in Call :
       /\ call[q].pc = "register" => call[q].user \in User
       /\ call[q].pc \in {"invite", "code"} => call[q].ws \in User
       /\ call[q].pc = "pair" => call[q].code \in Code /\ code[call[q].code].state # "none"
       /\ call[q].pc \in {"undo", "join"} => call[q].inv \in Inv /\ call[q].user \in User
  /\ \A i \in Inv :
       /\ inv[i].state # "none" <=> i \in mailed
       /\ i \in mailed => inv[i].ws \in User /\ inv[i].email \in User
  /\ \A c \in Code : code[c].state # "none" => code[c].ws \in User

\* One request at most holds an invitation; it is accepted and has not led to
\* a membership, and who is about to join is the one it was sent to.
ClaimsAreExclusive ==
  \A i \in Inv :
    /\ \A q \in Call : Holds(q, i) =>
         /\ inv[i].state = "accepted" /\ joins[i] = 0
         /\ call[q].pc = "join" => call[q].user = inv[i].email
         /\ \A p \in Call : Holds(p, i) => p = q
    /\ joins[i] > 0 => inv[i].state = "accepted"

\* Who joins has an account, and what came before a claim has led to a member.
MembersHaveAccounts ==
  /\ \A q \in Call : call[q].pc = "join" => account[call[q].user] > 0
  /\ \A i \in Inv : /\ joins[i] > 0 => account[inv[i].email] > 0
                    /\ \A j \in preceded[i] : joins[j] > 0

IInv ==
  /\ TypeOK /\ EmailHasOneAccount /\ RowsAreNamed /\ ClaimsAreExclusive
  /\ AcceptedMeansJoined /\ MembersHaveAccounts /\ RolesFollowAcceptance
=============================================================================
