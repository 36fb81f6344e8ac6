----------------------------- MODULE WebSession -----------------------------
(***************************************************************************)
(* The web app's side of a session: one browser keeps the access and the   *)
(* refresh token in cookies; the proxy in front of every page renews them  *)
(* when the access token is about to expire, each request for itself; the  *)
(* login form and the login page of the extension set them, logout deletes *)
(* them.  A reply changes the cookies when the browser gets it, whatever   *)
(* the cookies are by then.                                                *)
(*                                                                         *)
(* The API's side is SessionFamily; here a family is its latest token and  *)
(* whether that one can still be exchanged.                                *)
(***************************************************************************)
EXTENDS Naturals, FiniteSets

CONSTANTS
  Login,      \* logins: each opens a session of its own
  Request,    \* requests of the browser in progress at once
  MaxTokens,  \* bound of the check: tokens of a session
  NoCookies

ASSUME WebAssumption ==
  /\ MaxTokens \in Nat \ {0}
  /\ NoCookies \notin [login : Login, token : 1..MaxTokens, access : {"fresh", "stale", "none"}]

VARIABLES
  cookies,  \* the browser's ls_access and ls_refresh, or NoCookies
  server,   \* [Login -> its latest refresh token, 0 before it]
  live,     \* the sessions whose latest token can be exchanged
  request,  \* [Request -> its local state]
  \* history, read by properties only
  over,     \* sessions that a logout or their age ended
  excused   \* sessions whose requests overlapped, failed or lost their
           \* reply, that were replaced or that the API was not told of

webVars == <<cookies, server, live, request, over, excused>>

\* The access token is "fresh", "stale" when it expires soon, or gone.
Cookies == [login : Login, token : 1..MaxTokens, access : {"fresh", "stale", "none"}]
Idle == [pc |-> "idle"]
Busy == {r \in Request : request[r] # Idle}
Of(l) == {r \in Busy : request[r].login = l}

WebInit ==
  /\ cookies = NoCookies
  /\ server = [l \in Login |-> 0] /\ live = {}
  /\ request = [r \in Request |-> Idle]
  /\ over = {} /\ excused = {}

Begin(r, pc, login, token) ==
  /\ request[r] = Idle
  /\ request' = [request EXCEPT ![r] = [pc |-> pc, login |-> login, token |-> token]]
Overlapping(l) == IF Busy = {} THEN {} ELSE {l} \cup {request[q].login : q \in Busy}
Turn(r, pc) == request' = [request EXCEPT ![r].pc = pc]
Excuse(r) == excused' = excused \cup {request[r].login}

-----------------------------------------------------------------------------
(* The web app *)

\* The API opens a session; the reply will set the cookies.
OpenSession(r, l) ==
  /\ server[l] = 0
  /\ server' = [server EXCEPT ![l] = 1] /\ live' = live \cup {l}
  /\ Begin(r, "set", l, 1)
  /\ excused' = excused \cup Overlapping(l)
  /\ UNCHANGED <<cookies, over>>

\* loginAction, registerAction and extensionLoginAction
Authenticate(r, l) == OpenSession(r, l)

\* The login page of the extension exchanges a device's ticket only if the
\* request came without an access token.
ExchangeTicket(r, l) ==
  /\ cookies # NoCookies => cookies.access = "none"
  /\ OpenSession(r, l)

\* The proxy lets a request with a fresh token pass and sends one without a
\* refresh token to the login page; this one has to be renewed first.  It is for
\* a page, or it is a logout.
Renewal(r, pc) ==
  /\ cookies # NoCookies /\ cookies.access # "fresh"
  /\ Begin(r, pc, cookies.login, cookies.token)
  /\ excused' = excused \cup Overlapping(cookies.login)
  /\ UNCHANGED <<cookies, server, live, over>>
OpenPage(r) == Renewal(r, "renew")
LogOutRenewed(r) == Renewal(r, "renewOut")

\* logoutAction with a fresh token, or on a page that is public and therefore
\* not renewed.  Without an access token the API is not told.
LogOut(r) ==
  /\ cookies # NoCookies
  /\ \/ /\ cookies.access = "none"
        /\ Begin(r, "clear", cookies.login, cookies.token)
        /\ excused' = excused \cup Overlapping(cookies.login) \cup {cookies.login}
     \/ /\ cookies.access # "none"
        /\ Begin(r, "logout", cookies.login, cookies.token)
        /\ excused' = excused \cup Overlapping(cookies.login)
  /\ UNCHANGED <<cookies, server, live, over>>

\* /auth/refresh: the latest token of a live session is exchanged; anything
\* else is refused, and revokes the family unless a rotation in progress
\* escapes that.
Rotate(r) ==
  LET l == request[r].login IN
  /\ request[r].pc \in {"renew", "renewOut"}
  /\ l \in live /\ request[r].token = server[l] /\ server[l] < MaxTokens
  /\ server' = [server EXCEPT ![l] = @ + 1]
  /\ request' = [request EXCEPT ![r].token = @ + 1,
       ![r].pc = IF @ = "renew" THEN "set" ELSE "logout"]
  /\ UNCHANGED <<cookies, live, over, excused>>
Refuse(r) ==
  LET l == request[r].login IN
  /\ request[r].pc \in {"renew", "renewOut"}
  /\ l \notin live \/ request[r].token # server[l]
  /\ \/ live' = live \ {l}
     \/ /\ \E q \in Of(l) \ {r} : request[q].pc \in {"renew", "renewOut"}
        /\ UNCHANGED live
  /\ Turn(r, "clear")
  /\ UNCHANGED <<cookies, server, over, excused>>

\* The API cannot be reached, or its answer is lost: the proxy takes that for
\* a refusal, logoutAction for success.
ApiFails(r) ==
  /\ \/ request[r].pc \in {"renew", "renewOut", "logout"}
     \/ request[r].pc = "set" /\ request[r].token > 1
  /\ Turn(r, "clear") /\ Excuse(r)
  /\ UNCHANGED <<cookies, server, live, over>>

\* Variant with a fault: logout only deletes the cookies.
KeepSession(r) ==
  /\ request[r].pc = "logout"
  /\ Turn(r, "clear")
  /\ UNCHANGED <<cookies, server, live, over, excused>>

\* /auth/logout: the guard refuses an access token whose session was renewed or
\* ended meanwhile; else that session is revoked.
EndSession(r) ==
  LET l == request[r].login IN
  /\ request[r].pc = "logout"
  /\ IF l \in live /\ request[r].token = server[l]
       THEN live' = live \ {l} /\ over' = over \cup {l}
       ELSE UNCHANGED <<live, over>>
  /\ Turn(r, "clear")
  /\ UNCHANGED <<cookies, server, excused>>

-----------------------------------------------------------------------------
(* The browser *)

\* Variant with a fault: the refresh token of a renewal is not stored.
SetAccessOnly(r) ==
  LET l == request[r].login  old == cookies # NoCookies /\ cookies.login = l IN
  /\ request[r].pc = "set"
  /\ cookies' = [login |-> l, access |-> "fresh",
                 token |-> IF old THEN cookies.token ELSE request[r].token]
  /\ request' = [request EXCEPT ![r] = Idle]
  /\ excused' = (IF Busy = {r} /\ l \in live /\ request[r].token = server[l] THEN excused \ {l} ELSE excused)
                \cup (IF cookies = NoCookies THEN {} ELSE {cookies.login} \ {l})
  /\ UNCHANGED <<server, live, over>>

\* saveSession and setSession.  A session that nothing interfered with has its
\* latest token in the cookies now; one that is replaced is left as it is.
SetCookies(r) ==
  LET l == request[r].login IN
  /\ request[r].pc = "set"
  /\ cookies' = [login |-> l, token |-> request[r].token, access |-> "fresh"]
  /\ request' = [request EXCEPT ![r] = Idle]
  /\ excused' = (IF Busy = {r} /\ l \in live /\ request[r].token = server[l] THEN excused \ {l} ELSE excused)
                \cup (IF cookies = NoCookies THEN {} ELSE {cookies.login} \ {l})
  /\ UNCHANGED <<server, live, over>>

\* Logged out, or sent to the login page: the cookies are deleted.
ClearCookies(r) ==
  /\ request[r].pc = "clear"
  /\ cookies' = NoCookies
  /\ request' = [request EXCEPT ![r] = Idle]
  /\ UNCHANGED <<server, live, over, excused>>

\* The browser drops the request, or the reply is lost.
LoseReply(r) ==
  /\ request[r] # Idle
  /\ request' = [request EXCEPT ![r] = Idle]
  /\ Excuse(r)
  /\ UNCHANGED <<cookies, server, live, over>>

AccessAges ==
  /\ cookies # NoCookies
  /\ \E a \in {"stale", "none"} :
       /\ a # cookies.access /\ cookies.access # "none"
       /\ cookies' = [cookies EXCEPT !.access = a]
  /\ UNCHANGED <<server, live, request, over, excused>>

\* The latest refresh token passes its expiresAt.
SessionExpires(l) ==
  /\ l \in live
  /\ live' = live \ {l} /\ over' = over \cup {l}
  /\ UNCHANGED <<cookies, server, request, excused>>

WebNext ==
  \/ \E r \in Request, l \in Login : Authenticate(r, l) \/ ExchangeTicket(r, l)
  \/ \E r \in Request :
       \/ OpenPage(r) \/ LogOutRenewed(r) \/ LogOut(r)
       \/ Rotate(r) \/ Refuse(r) \/ ApiFails(r) \/ EndSession(r)
       \/ SetCookies(r) \/ ClearCookies(r) \/ LoseReply(r)
  \/ AccessAges
  \/ \E l \in Login : SessionExpires(l)

WebSpec == WebInit /\ [][WebNext]_webVars

-----------------------------------------------------------------------------
(* Properties *)

\* A user stays logged in: the cookies are deleted and a session stops being
\* renewable only after a logout or the session's age, or when requests of the
\* browser overlapped, one failed or its reply was lost.
StaysLoggedIn ==
  [][/\ cookies # NoCookies /\ cookies' = NoCookies => cookies.login \in over \cup excused
     /\ live \ live' \subseteq over' \cup excused]_webVars

\* A session that no cookie and no reply belongs to any more cannot be renewed
\* either: logout leaves none behind, unless requests overlapped, one failed or
\* was lost, the access token was gone at the logout (the API is not told then),
\* or a login took the place of the session without one.
NoSessionIsLeft ==
  \A l \in live : Of(l) = {} /\ (cookies # NoCookies => cookies.login # l) => l \in excused

-----------------------------------------------------------------------------
(* The inductive invariant *)

Handling == [pc : {"renew", "renewOut", "set", "logout", "clear"},
             login : Login, token : 1..MaxTokens]

\* Type invariant.
WebTypeOK ==
  /\ cookies \in Cookies \cup {NoCookies}
  /\ server \in [Login -> 0..MaxTokens] /\ live \subseteq Login
  /\ request \in [Request -> Handling \cup {Idle}]
  /\ over \subseteq Login /\ excused \subseteq Login

\* What the cookies and the requests are of has been opened, and such a
\* session ends for a reason.
SessionsWereOpened ==
  /\ cookies # NoCookies => server[cookies.login] > 0
  /\ \A r \in Busy : server[request[r].login] > 0
  /\ \A l \in live : server[l] > 0
  /\ \A l \in Login : server[l] > 0 /\ l \notin live => l \in over \cup excused

\* A request of a session that nothing interfered with is the only one.
UndisturbedIsAlone == \A r \in Busy : request[r].login \notin excused => Busy = {r}

\* A reply that may delete the cookies is of the session they are of.
CookiesFollowRequests ==
  \A r \in Busy :
    \/ request[r].pc = "set" /\ request[r].token = 1
    \/ cookies = NoCookies \/ cookies.login \in {request[r].login} \cup excused

\* The latest token of a session that nothing interfered with is with its
\* request, or else in the cookies.
LatestTokenIsKept ==
  \A l \in live \ excused :
    /\ \A r \in Of(l) : request[r].pc # "clear" /\ request[r].token = server[l]
    /\ Of(l) = {} => cookies # NoCookies /\ cookies.login = l /\ cookies.token = server[l]

WebIInv ==
  WebTypeOK /\ SessionsWereOpened /\ UndisturbedIsAlone /\ CookiesFollowRequests /\ LatestTokenIsKept
=============================================================================
