----------------------------- MODULE ReplayGuard -----------------------------
(***************************************************************************)
(* Signed device requests: a timestamp window and a table of used nonces   *)
(* (ExtensionReplayNonce) that both signed endpoints share, the post       *)
(* batches of ExtensionAuthService.ingest and the source configuration of  *)
(* ExtensionSourceConfigService.resolve.                                   *)
(*                                                                         *)
(* A signed message is one value of Msg: its device, nonce, timestamp and  *)
(* body cannot be told apart from one another once it is signed.  Time is  *)
(* a counter.  A request may wait between its timestamp check and its      *)
(* nonce statement, at most Delay; a device's clock may be ahead of the    *)
(* server's, by at most Skew.  Both are assumptions about the environment. *)
(***************************************************************************)
EXTENDS Naturals

CONSTANTS
  Msg,       \* signed messages
  Batch,     \* those signed for the ingest endpoint
  Req,       \* requests in flight at once
  Window,    \* accepted distance between timestamp and server clock (5 min)
  Lifetime,  \* how long a nonce row is kept (10 min)
  Skew, Delay,
  MaxTime,   \* bound of the model: the clock stops here
  Unsigned, NoNonce, NoMsg

ASSUME TimeAssumption ==
  /\ Window \in Nat /\ Lifetime \in Nat
  /\ Skew \in Nat /\ Delay \in Nat /\ MaxTime \in Nat
ASSUME NullAssumption ==
  /\ Batch \subseteq Msg
  /\ NoMsg \notin Msg /\ Unsigned \notin Nat /\ NoNonce \notin Nat

\* A nonce row outlives every request that its message could still make.
ASSUME SlackAssumption == Skew + Window + Delay <= Lifetime

VARIABLES
  now,       \* the server's clock
  stamp,     \* [Msg -> the timestamp it was signed with, or Unsigned]
  nonce,     \* [Msg -> expiresAt of its nonce row, or NoNonce]
  req,       \* [Req -> local state of the request]
  accepted   \* history: [Msg -> how many requests got past the replay check]

vars == <<now, stamp, nonce, req, accepted>>

ReqRecord == [pc : {"idle", "check", "find", "create", "work", "sweep"},
              msg : Msg \cup {NoMsg}, at : Nat]
IdleReq == [pc |-> "idle", msg |-> NoMsg, at |-> 0]

\* Type invariant.
TypeOK ==
  /\ now \in Nat
  /\ stamp \in [Msg -> Nat \cup {Unsigned}]
  /\ nonce \in [Msg -> Nat \cup {NoNonce}]
  /\ req \in [Req -> ReqRecord]
  /\ accepted \in [Msg -> Nat]

Init ==
  /\ now = 0
  /\ stamp = [m \in Msg |-> Unsigned]
  /\ nonce = [m \in Msg |-> NoNonce]
  /\ req = [p \in Req |-> IdleReq]
  /\ accepted = [m \in Msg |-> 0]

Goto(p, pc) == req' = [req EXCEPT ![p].pc = pc]
Done(p) == req' = [req EXCEPT ![p] = IdleReq]

\* A device signs a message with its own clock.
Sign(m) ==
  /\ stamp[m] = Unsigned
  /\ \E ts \in 0..(now + Skew) : stamp' = [stamp EXCEPT ![m] = ts]
  /\ UNCHANGED <<now, nonce, req, accepted>>

\* The network delivers a signed message, perhaps not for the first time.
Deliver(p, m) ==
  /\ req[p].pc = "idle"
  /\ stamp[m] # Unsigned
  /\ req' = [req EXCEPT ![p].pc = "check", ![p].msg = m]
  /\ UNCHANGED <<now, stamp, nonce, accepted>>

\* |now - timestamp| <= Window, or 401.  (The device and signature checks
\* that follow only read; a rejected request changes nothing.)
InWindow(m) == now <= stamp[m] + Window /\ stamp[m] <= now + Window
CheckTimestamp(p) ==
  /\ req[p].pc = "check"
  /\ IF InWindow(req[p].msg)
       THEN req' = [req EXCEPT ![p].at = now,
                      ![p].pc = IF req[p].msg \in Batch THEN "find" ELSE "create"]
       ELSE Done(p)
  /\ UNCHANGED <<now, stamp, nonce, accepted>>

\* ingest looks for the nonce first; a hit is a 409.
FindNonce(p) ==
  /\ req[p].pc = "find"
  /\ IF nonce[req[p].msg] # NoNonce THEN Done(p) ELSE Goto(p, "create")
  /\ UNCHANGED <<now, stamp, nonce, accepted>>

\* Variant with a fault: an existing row accepts the message for another time.
CreateNonceTwice(p) ==
  LET m == req[p].msg IN
  /\ req[p].pc = "create"
  /\ nonce' = [nonce EXCEPT ![m] = now + Lifetime]
  /\ accepted' = [accepted EXCEPT ![m] = @ + 1]
  /\ IF m \in Batch THEN Goto(p, "work") ELSE Done(p)
  /\ UNCHANGED <<now, stamp>>

\* The row is unique per device and nonce: a second insert throws.
CreateNonce(p) ==
  LET m == req[p].msg IN
  /\ req[p].pc = "create"
  /\ IF nonce[m] # NoNonce
       THEN Done(p) /\ UNCHANGED <<nonce, accepted>>
       ELSE /\ nonce' = [nonce EXCEPT ![m] = now + Lifetime]
            /\ accepted' = [accepted EXCEPT ![m] = @ + 1]
            /\ IF m \in Batch THEN Goto(p, "work") ELSE Done(p)
  /\ UNCHANGED <<now, stamp>>

\* The posts of the batch have been stored.
StoreBatch(p) ==
  /\ req[p].pc = "work"
  /\ Goto(p, "sweep")
  /\ UNCHANGED <<now, stamp, nonce, accepted>>

\* The closing transaction deletes the expired nonces of every device.
SweepNonces(p) ==
  /\ req[p].pc = "sweep"
  /\ nonce' = [m \in Msg |-> IF nonce[m] # NoNonce /\ nonce[m] < now
                               THEN NoNonce ELSE nonce[m]]
  /\ Done(p)
  /\ UNCHANGED <<now, stamp, accepted>>

\* A statement throws, a post of the batch is invalid, or the process dies:
\* the nonce stays used.
RequestDies(p) ==
  /\ req[p].pc # "idle"
  /\ Done(p)
  /\ UNCHANGED <<now, stamp, nonce, accepted>>

\* Time passes, but no request waits longer than Delay before its nonce row.
Tick ==
  /\ now < MaxTime
  /\ \A p \in Req : req[p].pc \in {"find", "create"} => now < req[p].at + Delay
  /\ now' = now + 1
  /\ UNCHANGED <<stamp, nonce, req, accepted>>

ReqStep(p) ==
  \/ CheckTimestamp(p) \/ FindNonce(p) \/ CreateNonce(p)
  \/ StoreBatch(p) \/ SweepNonces(p) \/ RequestDies(p)

Next ==
  \/ \E m \in Msg : Sign(m)
  \/ \E p \in Req, m \in Msg : Deliver(p, m)
  \/ \E p \in Req : ReqStep(p)
  \/ Tick

Spec == Init /\ [][Next]_vars

-----------------------------------------------------------------------------
(* Properties *)

\* A signed message is acted on at most once, however often and however late
\* it is delivered, whichever requests race, and although nonce rows are
\* deleted (README "Device/nonces are unique and replay attempts return a
\* conflict").
NoReplay == \A m \in Msg : accepted[m] <= 1

\* A nonce row is deleted only when its message can no longer pass the
\* timestamp check, so no request ever waits to insert a deleted nonce again.
SweptIsStale ==
  \A m \in Msg : accepted[m] > 0 /\ nonce[m] = NoNonce =>
    /\ ~InWindow(m)
    /\ \A p \in Req : req[p].msg = m => req[p].pc \notin {"find", "create"}

-----------------------------------------------------------------------------
(* The inductive invariant *)

\* No timestamp is further ahead than the skew allows.
StampsAreClose == \A m \in Msg : stamp[m] # Unsigned => stamp[m] <= now + Skew

\* A request before its nonce statement passed the window check at "at", and
\* not longer than Delay ago.
ChecksAreRecent ==
  \A p \in Req :
    /\ req[p].pc # "idle" => req[p].msg \in Msg /\ stamp[req[p].msg] # Unsigned
    /\ req[p].pc \in {"find", "create"} =>
         /\ req[p].at <= stamp[req[p].msg] + Window
         /\ now <= req[p].at + Delay

\* A used message keeps its nonce row until its last chance to be accepted
\* has passed.
UsedIsRemembered ==
  \A m \in Msg : accepted[m] > 0 =>
    /\ stamp[m] # Unsigned
    /\ nonce[m] # NoNonce => stamp[m] + Window + Delay <= nonce[m]
    /\ nonce[m] = NoNonce => stamp[m] + Window + Delay < now

IInv == TypeOK /\ StampsAreClose /\ ChecksAreRecent /\ UsedIsRemembered /\ NoReplay
=============================================================================
