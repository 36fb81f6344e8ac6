--------------------------- MODULE RedditSession ---------------------------
(***************************************************************************)
(* How the backend collector comes by a login at Reddit: the extension     *)
(* sends the reddit.com cookies of its browser, with a ticket of its       *)
(* device, whenever they change; the API keeps the last ones it was sent   *)
(* in one file for all workspaces; the collector opens its own browser,    *)
(* and takes the cookies of the file when Reddit asks that browser to log  *)
(* in.                                                                     *)
(*                                                                         *)
(* The cookies of a browser are the login they carry, Anonymous when       *)
(* Reddit's cookies carry none, and Nothing when there are no cookies; the *)
(* edition counts their changes.  The devices and tickets are those of     *)
(* DeviceAuth: here a device is paired or not, active or revoked.          *)
(***************************************************************************)
EXTENDS Naturals, FiniteSets

CONSTANTS
  Browser,     \* browsers with the extension, of any workspaces
  Sync,        \* synchronisations in progress at once
  Login,       \* sessions at Reddit
  Moment,      \* milliseconds: a temporary file is named after one
  MaxChanges,  \* bound of the check: changes of a browser's cookies
  Anonymous, Nothing, NoFile

ASSUME SessionAssumption ==
  /\ MaxChanges \in Nat
  /\ {Anonymous, Nothing} \cap Login = {}

VARIABLES
  jar,      \* [Browser -> its reddit.com cookies]
  timer,    \* the browsers whose redditSyncTimer is set
  device,   \* [Browser -> "none", or the status of the device it is paired as]
  sync,     \* [Sync -> its local state, in the extension and in the API]
  temp,     \* [Moment -> content of the temporary file of that name]
  file,     \* the session file
  profile,  \* the login in the profile of the backend browser
  check,    \* where launch and assertRedditSession are
  ended,    \* logins Reddit no longer accepts
  \* history, read by properties only
  excused,  \* browsers whose cookies failed to arrive, raced or were replaced
  kept      \* the file has held one accepted login since the launch

cookieVars == <<jar, timer, device, ended>>
apiVars == <<sync, temp, file>>
backendVars == <<profile, check>>
sessionVars == <<cookieVars, apiVars, backendVars, excused, kept>>

Jar == [edition : 0..MaxChanges, login : Login \cup {Anonymous, Nothing}]
IdleSync == [pc |-> "idle"]
Running(b) == {s \in Sync : sync[s] # IdleSync /\ sync[s].sent.browser = b}
Alive(l) == l \in Login \ ended

SessionInit ==
  /\ jar \in [Browser -> [edition : {0}, login : Login \cup {Anonymous, Nothing}]]
  /\ \A b, c \in Browser : b # c /\ jar[b].login = jar[c].login => jar[b].login \notin Login
  /\ timer = {} /\ device = [b \in Browser |-> "none"] /\ ended = {}
  /\ sync = [s \in Sync |-> IdleSync]
  /\ temp = [m \in Moment |-> NoFile] /\ file = NoFile
  /\ profile = Nothing /\ check = "closed"
  /\ excused = {} /\ kept = FALSE

-----------------------------------------------------------------------------
(* The extension *)

\* Variant with a fault: removed cookies are not noticed.
ChangeOnLoginOnly(b) ==
  /\ jar[b].edition < MaxChanges
  /\ \E l \in (Login \ (ended \cup {jar[c].login : c \in Browser})) \cup {Anonymous, Nothing} :
       /\ l # jar[b].login
       /\ jar' = [jar EXCEPT ![b] = [edition |-> @.edition + 1, login |-> l]]
       /\ timer' = IF l \in Login THEN timer \cup {b} ELSE timer
  /\ ended' = ended \cup ({jar[b].login} \cap Login)
  /\ UNCHANGED <<device, apiVars, backendVars, excused>>

\* The user logs in at Reddit, logs out or clears the cookies, and the
\* listener sets the timer again.
CookiesChange(b) ==
  /\ jar[b].edition < MaxChanges
  /\ \E l \in (Login \ (ended \cup {jar[c].login : c \in Browser})) \cup {Anonymous, Nothing} :
       /\ l # jar[b].login
       /\ jar' = [jar EXCEPT ![b] = [edition |-> @.edition + 1, login |-> l]]
  /\ ended' = ended \cup ({jar[b].login} \cap Login)
  /\ timer' = timer \cup {b}
  /\ UNCHANGED <<device, apiVars, backendVars, excused>>

\* Reddit ends a session by itself; the cookies stay where they are.
RedditEnds(l) ==
  /\ l \notin ended /\ \E b \in Browser : jar[b].login = l
  /\ ended' = ended \cup {l}
  /\ UNCHANGED <<jar, timer, device, apiVars, backendVars, excused>>

\* syncRedditSession of a paired browser reads the cookies and asks for a
\* ticket; without any cookie it is skipped.  Nothing stops a second one.
StartSync(s, b) ==
  /\ sync[s] = IdleSync
  /\ IF jar[b].login = Nothing
       THEN UNCHANGED <<sync, excused>>
       ELSE /\ sync' = [sync EXCEPT ![s] =
                 [pc |-> "ticket", sent |-> [browser |-> b, jar |-> jar[b]]]]
            /\ excused' = IF Running(b) = {} THEN excused \ {b} ELSE excused \cup {b}
  /\ UNCHANGED <<temp, file>>

\* PAIR_DEVICE, which the login page sends to an extension without a device.
PairDevice(s, b) ==
  /\ device[b] = "none"
  /\ device' = [device EXCEPT ![b] = "active"]
  /\ StartSync(s, b)
  /\ UNCHANGED <<jar, timer, ended, backendVars>>

SyncTimerFires(s, b) ==
  /\ b \in timer
  /\ timer' = timer \ {b}
  /\ IF device[b] = "none" THEN UNCHANGED <<apiVars, excused>> ELSE StartSync(s, b)
  /\ UNCHANGED <<jar, device, ended, backendVars>>

\* SYNC_REDDIT_SESSION
AskSync(s, b) ==
  /\ device[b] # "none"
  /\ StartSync(s, b)
  /\ UNCHANGED <<cookieVars, backendVars>>

\* The browser is started, or the extension installed, again: what had not been
\* sent is gone, and it sets the timer.
BrowserStarts(b) ==
  LET gone == {s \in Running(b) : sync[s].pc = "ticket"} IN
  /\ timer' = timer \cup {b}
  /\ sync' = [s \in Sync |-> IF s \in gone THEN IdleSync ELSE sync[s]]
  /\ excused' = IF gone = {} THEN excused ELSE excused \cup {b}
  /\ UNCHANGED <<jar, device, ended, temp, file, backendVars>>

Goto(s, from, to) ==
  /\ sync[s].pc = from
  /\ sync' = [sync EXCEPT ![s].pc = to]
Finish(s) == sync' = [sync EXCEPT ![s] = IdleSync]
FailSync(s) == Finish(s) /\ excused' = excused \cup {sync[s].sent.browser}
DeviceOf(s) == device[sync[s].sent.browser]

\* createDeviceTicket: challenge, proof, verify, all for an active device.
CreateDeviceTicket(s) ==
  /\ Goto(s, "ticket", "send")
  /\ DeviceOf(s) = "active"
  /\ UNCHANGED <<cookieVars, temp, file, backendVars, excused>>

\* A request is refused (the cookies may be too many), fails or gets no answer
\* (lsApiFetch gives up after 20 seconds, but the API goes on), the ticket has
\* expired or the API dies: nothing is tried again.  A temporary file left behind
\* counts as gone: no later one has its name.
SyncFails(s) ==
  LET shared == {m \in Moment : \E t \in Sync \ {s} :
                   sync[t].pc = "rename" /\ sync[t].stamp = m} IN
  /\ sync[s] # IdleSync
  /\ FailSync(s)
  /\ temp' = [m \in Moment |-> IF m \in shared THEN temp[m] ELSE NoFile]
  /\ UNCHANGED <<cookieVars, file, backendVars>>

-----------------------------------------------------------------------------
(* The API *)

RevokeDevice(b) ==
  /\ device[b] = "active"
  /\ device' = [device EXCEPT ![b] = "revoked"]
  /\ UNCHANGED <<jar, timer, ended, apiVars, backendVars, excused>>

\* The ticket is found unused and its device active, else the request fails.
FindTicket(s) ==
  /\ Goto(s, "send", "save")
  /\ DeviceOf(s) = "active"
  /\ UNCHANGED <<cookieVars, temp, file, backendVars, excused>>

\* The ticket is spent, then the cookies are written to a temporary file: to
\* the same one when two do so in the same millisecond.
WriteTemporary(s, m) ==
  /\ sync[s].pc = "save"
  /\ sync' = [sync EXCEPT ![s] = [pc |-> "rename", sent |-> @.sent, stamp |-> m]]
  /\ temp' = [temp EXCEPT ![m] = sync[s].sent]
  /\ UNCHANGED <<cookieVars, file, backendVars, excused>>

\* rename replaces the session file, whoever's it was, with what was written
\* last under the name; the one who comes second finds no file of that name.
\* lastSeenAt is set and the answer sent.
RenameTemporary(s) ==
  LET m == sync[s].stamp IN
  /\ sync[s].pc = "rename"
  /\ \/ /\ temp[m] # NoFile
        /\ file' = temp[m] /\ temp' = [temp EXCEPT ![m] = NoFile]
        /\ Finish(s)
        /\ excused' = excused \cup
             (IF temp[m] = sync[s].sent THEN Browser \ {temp[m].browser} ELSE Browser)
     \/ /\ temp[m] = NoFile
        /\ FailSync(s)
        /\ UNCHANGED <<temp, file>>
  /\ UNCHANGED <<cookieVars, backendVars>>

-----------------------------------------------------------------------------
(* The collector *)

Move(from, to) == check = from /\ check' = to
LaunchBackend ==
  /\ Move("closed", "home")
  /\ UNCHANGED <<cookieVars, apiVars, profile, excused>>

\* Reddit's page shows whether the login of the profile is accepted.
NavigateHome ==
  /\ \/ Alive(profile) /\ Move("home", "open")
     \/ ~Alive(profile) /\ Move("home", "hydrate")
  /\ UNCHANGED <<cookieVars, apiVars, profile, excused>>

\* The cookies of the file are added to those of the profile, unless there is
\* no file or they have expired, as those of an ended login may have.
ApplySyncedSession ==
  /\ \/ /\ Move("hydrate", "required")
        /\ file # NoFile => file.jar.login \in ended
        /\ UNCHANGED profile
     \/ /\ file # NoFile
        /\ Move("hydrate", "again")
        /\ profile' = IF file.jar.login \in Login THEN file.jar.login ELSE profile
  /\ UNCHANGED <<cookieVars, apiVars, excused>>

\* Variant with a fault: the page is not loaded again, and still shows what it
\* showed before the cookies were added.
JudgeFirstPage ==
  /\ Move("again", "required")
  /\ UNCHANGED <<cookieVars, apiVars, profile, excused>>

\* The page is loaded again, now with the cookies of the file.
NavigateAgain ==
  /\ \/ Alive(profile) /\ Move("again", "open")
     \/ ~Alive(profile) /\ Move("again", "required")
  /\ UNCHANGED <<cookieVars, apiVars, profile, excused>>

\* The collection ends, at once with REDDIT_SESSION_SYNC_REQUIRED, or with an
\* error of a page.
CloseBackend ==
  /\ check # "closed" /\ check' = "closed"
  /\ UNCHANGED <<cookieVars, apiVars, profile, excused>>

Collects == LaunchBackend \/ NavigateHome \/ ApplySyncedSession \/ NavigateAgain \/ CloseBackend

Step ==
  \/ \E b \in Browser : CookiesChange(b) \/ BrowserStarts(b) \/ RevokeDevice(b)
  \/ \E l \in Login : RedditEnds(l)
  \/ \E s \in Sync, b \in Browser : PairDevice(s, b) \/ SyncTimerFires(s, b) \/ AskSync(s, b)
  \/ \E s \in Sync : \/ CreateDeviceTicket(s) \/ FindTicket(s) \/ SyncFails(s)
                     \/ \E m \in Moment : WriteTemporary(s, m)
                     \/ RenameTemporary(s)
  \/ Collects

Holding == file # NoFile /\ Alive(file.jar.login)
SessionNext ==
  /\ Step
  /\ kept' = (/\ check' # "closed" /\ Holding'
              /\ check = "closed" \/ (kept /\ file' = file))

SessionSpec == SessionInit /\ [][SessionNext]_sessionVars

-----------------------------------------------------------------------------
(* Properties *)

\* What a browser shows Reddit reaches the file: once its extension has nothing
\* left to do, the file holds the browser's present cookies, unless one of its
\* synchronisations failed since, two of them overlapped (the older may then be
\* saved last), another browser's took the one file, or two were written under
\* one name.
StaleForAReason ==
  \A b \in Browser :
    device[b] = "active" /\ b \notin timer /\ Running(b) = {} /\ jar[b].login # Nothing =>
      b \in excused \/ file = [browser |-> b, jar |-> jar[b]]

\* The collector asks for a synchronisation only if, since its launch, there was
\* no one session file whose login Reddit accepted all the time.
SyncRequiredIsHonest == check = "required" => ~kept

-----------------------------------------------------------------------------
(* The inductive invariant *)

Sent == [browser : Browser, jar : Jar]
InTransit == [pc : {"ticket", "send", "save"}, sent : Sent]
Renaming == [pc : {"rename"}, sent : Sent, stamp : Moment]

SyncTypeOK ==
  /\ jar \in [Browser -> Jar] /\ timer \subseteq Browser
  /\ device \in [Browser -> {"none", "active", "revoked"}] /\ ended \subseteq Login
  /\ sync \in [Sync -> {IdleSync} \cup InTransit \cup Renaming]
  /\ temp \in [Moment -> Sent \cup {NoFile}] /\ file \in Sent \cup {NoFile}
  /\ excused \subseteq Browser
BackendTypeOK ==
  /\ profile \in Login \cup {Nothing}
  /\ check \in {"closed", "home", "hydrate", "again", "open", "required"}
  /\ kept \in BOOLEAN

\* Type invariant.
SessionTypeOK == SyncTypeOK /\ BackendTypeOK

\* A browser that is not excused has one synchronisation at most, and that one
\* carries its present cookies or the timer is set.
SyncsAreCurrent ==
  \A b \in Browser : \A s \in Running(b) :
    /\ device[b] # "none"
    /\ b \notin excused =>
         /\ Running(b) = {s}
         /\ b \in timer \/ jar[b].login = Nothing \/ sync[s].sent.jar = jar[b]

\* Once it has none, its cookies are in the file or the timer is set.
FileIsCurrent ==
  \A b \in Browser \ (excused \cup timer) :
    device[b] # "none" /\ Running(b) = {} /\ jar[b].login # Nothing =>
      file = [browser |-> b, jar |-> jar[b]]

\* While the file keeps an accepted login, the profile gets it.
KeptIsUsed ==
  kept => /\ Holding /\ check \notin {"closed", "required"}
          /\ check = "again" => profile = file.jar.login

SyncIInv == SyncTypeOK /\ SyncsAreCurrent /\ FileIsCurrent
BackendIInv == BackendTypeOK /\ KeptIsUsed
SessionIInv == SyncIInv /\ BackendIInv
=============================================================================
