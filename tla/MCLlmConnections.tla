-------------------------- MODULE MCLlmConnections --------------------------
(***************************************************************************)
(* LlmConnections and ModelRoutes on small instances: a workspace's        *)
(* connections and the routes to their models.  ModelRoutes has of the     *)
(* connections only which models they offer, so the two share no state and *)
(* a behaviour is one of either.                                           *)
(***************************************************************************)
EXTENDS LlmConnections, ModelRoutes, TLC

\* The requests of either are the same.
Symmetry == Permutations(Call) \cup Permutations(Model)

VARIABLE part  \* whose behaviour it is

\* The models offered at first matter to the routes only.
MCInit ==
  /\ part \in {"connections", "routes"}
  /\ Init /\ RouteInit
  /\ part = "connections" => pooled = {}
  /\ part = "routes" => ~rotates
MCNext ==
  /\ \/ part = "connections" /\ Next /\ UNCHANGED routingVars
     \/ part = "routes" /\ RouteNext /\ UNCHANGED vars
  /\ UNCHANGED part
MCSpec == MCInit /\ [][MCNext]_<<part, vars, routingVars>>
=============================================================================
