----------------------------- MODULE MCSessions -----------------------------
(***************************************************************************)
(* SessionFamily, the sessions of the API, and WebSession, what the web    *)
(* app makes of them, on small instances.  They share no state: WebSession *)
(* has the API's side in brief, and a behaviour is one of either.          *)
(***************************************************************************)
EXTENDS SessionFamily, WebSession, TLC

Symmetry == Permutations(Req) \cup Permutations(Token)

VARIABLE part  \* whose behaviour it is

MCInit == part \in {"api", "web"} /\ Init /\ WebInit
MCNext ==
  /\ \/ part = "api" /\ Next /\ UNCHANGED webVars
     \/ part = "web" /\ WebNext /\ UNCHANGED vars
  /\ UNCHANGED part
MCSpec == MCInit /\ [][MCNext]_<<part, vars, webVars>>
=============================================================================
