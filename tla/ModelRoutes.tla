---------------------------- MODULE ModelRoutes ----------------------------
(***************************************************************************)
(* syncRoutes: every listing and creation of LLM connections finds or      *)
(* creates the workspace's routing policy and gives each model of a pooled *)
(* connection a route, and the rule engine the last one.  It is a sequence *)
(* of statements without a transaction; the unique keys of policies        *)
(* (workspace, task, version) and routes (policy, tier, provider, model)   *)
(* refuse some of the duplicates that calls at once would make.            *)
(***************************************************************************)
EXTENDS Naturals, FiniteSets, FiniteSetsExt

CONSTANTS
  Model,  \* providers with their models
  Sync,
  NoModel

ASSUME SyncAssumption == Sync # {} /\ IsFiniteSet(Sync) /\ NoModel \notin Model

VARIABLES
  pooled,    \* models of the pooled connections
  policy,    \* is there a policy
  routes,    \* tier and model of its routes below the rule engine's
  fallback,  \* does the rule engine have its route, at tier 999
  sync,      \* [Sync -> local state of a syncRoutes() call]
  covered,   \* history: models read by a call that completed
  synced     \* history: a call has completed

routeVars == <<policy, routes, fallback>>
routingVars == <<pooled, routeVars, sync, covered, synced>>

SyncRecord ==
  [pc : {"idle", "policy", "create", "models", "check", "insert", "rule"},
   tier : Nat,                               \* nextTier
   read : SUBSET Model, todo : SUBSET Model,  \* models read, and still to be routed
   model : Model \cup {NoModel}]               \* the one that has no route
IdleSync == [pc |-> "idle", tier |-> 0, read |-> {}, todo |-> {}, model |-> NoModel]

\* Type invariant.
RouteTypeOK ==
  /\ pooled \subseteq Model /\ policy \in BOOLEAN
  /\ routes \subseteq Nat \X Model /\ fallback \in BOOLEAN
  /\ sync \in [Sync -> SyncRecord]
  /\ covered \subseteq Model /\ synced \in BOOLEAN

RouteInit ==
  /\ pooled \in SUBSET Model
  /\ policy = FALSE /\ routes = {} /\ fallback = FALSE
  /\ sync = [q \in Sync |-> IdleSync]
  /\ covered = {} /\ synced = FALSE

Unstarted(q) == sync' = [sync EXCEPT ![q] = IdleSync]
Synced(q) == Unstarted(q) /\ covered' = covered \cup sync[q].read /\ synced' = TRUE
Unsynced == UNCHANGED <<covered, synced>>

\* A connection with the model joins, or the last one leaves, the pool.
PoolChanges(m) ==
  /\ pooled' = (pooled \cup {m}) \ (pooled \cap {m})
  /\ UNCHANGED <<routeVars, sync, covered, synced>>

\* list() and create() call syncRoutes.
Start(q) ==
  /\ sync[q].pc = "idle"
  /\ sync' = [sync EXCEPT ![q].pc = "policy"]
  /\ Unsynced /\ UNCHANGED <<pooled, routeVars>>

NextTier == Max({0} \cup {r[1] : r \in routes}) + 1

\* The policy is read with its routes.
FindPolicy(q) ==
  /\ sync[q].pc = "policy"
  /\ \/ policy /\ sync' = [sync EXCEPT ![q].pc = "models", ![q].tier = NextTier]
     \/ ~policy /\ sync' = [sync EXCEPT ![q].pc = "create"]
  /\ Unsynced /\ UNCHANGED <<pooled, routeVars>>

\* A policy that was made meanwhile violates the unique key: the call throws.
CreatePolicy(q) ==
  /\ sync[q].pc = "create"
  /\ policy' = TRUE
  /\ \/ policy /\ Unstarted(q)
     \/ ~policy /\ sync' = [sync EXCEPT ![q].pc = "models", ![q].tier = 1]
  /\ Unsynced /\ UNCHANGED <<pooled, routes, fallback>>

ReadModels(q) ==
  /\ sync[q].pc = "models"
  /\ sync' = [sync EXCEPT ![q].pc = "check", ![q].read = pooled, ![q].todo = pooled]
  /\ Unsynced /\ UNCHANGED <<pooled, routeVars>>

RoutedModels == {r[2] : r \in routes}

CheckAgainst(q, existing) ==
  /\ sync[q].pc = "check"
  /\ \E m \in sync[q].todo :
       \/ m \in existing /\ sync' = [sync EXCEPT ![q].todo = @ \ {m}]
       \/ m \notin existing /\ sync' = [sync EXCEPT ![q].pc = "insert", ![q].model = m]
  /\ Unsynced /\ UNCHANGED <<pooled, routeVars>>
\* Variant with a fault: every model is routed anew.
CheckNothing(q) == CheckAgainst(q, {})
CheckRoute(q) == CheckAgainst(q, RoutedModels)

Insert(q) == <<sync[q].tier, sync[q].model>>

\* Variant with a fault: a refused route is taken for a routed model's.
InsertIgnoresModel(q) ==
  LET taken == \E r \in routes : r[1] = sync[q].tier IN
  /\ sync[q].pc = "insert"
  /\ routes' = IF taken THEN routes ELSE routes \cup {Insert(q)}
  /\ sync' = [sync EXCEPT ![q].pc = "check", ![q].tier = @ + 1, ![q].model = NoModel,
                          ![q].todo = @ \ {sync[q].model}]
  /\ Unsynced /\ UNCHANGED <<pooled, policy, fallback>>

\* The same model at the same tier violates the unique key: the call throws.
InsertRoute(q) ==
  /\ sync[q].pc = "insert"
  /\ routes' = routes \cup {Insert(q)}
  /\ \/ Insert(q) \in routes /\ Unstarted(q)
     \/ /\ Insert(q) \notin routes
        /\ sync' = [sync EXCEPT ![q].pc = "check", ![q].tier = @ + 1, ![q].model = NoModel,
                                ![q].todo = @ \ {sync[q].model}]
  /\ Unsynced /\ UNCHANGED <<pooled, policy, fallback>>

CheckFallback(q) ==
  /\ sync[q].pc = "check" /\ sync[q].todo = {}
  /\ \/ fallback /\ Synced(q)
     \/ ~fallback /\ Unsynced /\ sync' = [sync EXCEPT ![q].pc = "rule"]
  /\ UNCHANGED <<pooled, routeVars>>

InsertFallback(q) ==
  /\ sync[q].pc = "rule"
  /\ fallback' = TRUE
  /\ \/ fallback /\ Unstarted(q) /\ Unsynced
     \/ ~fallback /\ Synced(q)
  /\ UNCHANGED <<pooled, policy, routes>>

\* The process dies or a statement fails.
SyncDies(q) ==
  /\ sync[q].pc # "idle"
  /\ Unstarted(q) /\ Unsynced /\ UNCHANGED <<pooled, routeVars>>

SyncStep(q) ==
  \/ FindPolicy(q) \/ CreatePolicy(q) \/ ReadModels(q)
  \/ CheckRoute(q) \/ InsertRoute(q) \/ CheckFallback(q) \/ InsertFallback(q)

RouteNext ==
  \/ \E m \in Model : PoolChanges(m)
  \/ \E q \in Sync : Start(q) \/ SyncStep(q) \/ SyncDies(q)

RouteSpec == RouteInit /\ [][RouteNext]_routingVars

-----------------------------------------------------------------------------
(* Properties *)

\* Whatever calls run at once, fail or die, a model has no more routes than
\* calls run at once.
RoutesAreBounded ==
  \A m \in Model : Cardinality({r \in routes : r[2] = m}) <= Cardinality(Sync)

\* A call that completes has routed every model it read, and there is a rule
\* to fall back on; a call that lost a race is refused, never half done.
SyncedIsRouted ==
  /\ covered \subseteq RoutedModels
  /\ synced => fallback

-----------------------------------------------------------------------------
(* The inductive invariant the proofs use *)

RoutesOf(m) == {r \in routes : r[2] = m}
Inserting(m) == {q \in Sync : sync[q].pc = "insert" /\ sync[q].model = m}

\* A model is found without a route only while it has none; after that its
\* routes are made by the calls that had found it so.
RoutesAreCounted ==
  \A m \in Model :
    /\ IsFiniteSet(RoutesOf(m))
    /\ Cardinality(RoutesOf(m)) + Cardinality(Inserting(m)) <= Cardinality(Sync)

\* A call has routed what it read and need not route any more.
CheckedAreRouted ==
  \A q \in Sync :
    /\ sync[q].pc \in {"check", "insert", "rule"} => sync[q].read \ sync[q].todo \subseteq RoutedModels
    /\ sync[q].pc = "insert" => sync[q].model \in Model
    /\ sync[q].pc = "rule" => sync[q].todo = {}

\* There is a next tier, above every route's.
TiersAreBelowNext == NextTier \in Nat /\ \A r \in routes : r[1] < NextTier

RoutesIInv ==
  RouteTypeOK /\ RoutesAreCounted /\ CheckedAreRouted /\ TiersAreBelowNext /\ SyncedIsRouted
=============================================================================
