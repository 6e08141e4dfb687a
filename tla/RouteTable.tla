----------------------------- MODULE RouteTable -----------------------------
(***************************************************************************)
(* RouteTable and RouterManager (router.rs): one entry per target.          *)
(***************************************************************************)
EXTENDS Integers, FiniteSets

CONSTANTS RouteTargets, Metrics

VARIABLE routes               \* a set of entries

RouteEntry(t, hop, metric) == [target |-> t, next_hop |-> hop, metric |-> metric]

EmptyTable == {}
RouteInit == routes = EmptyTable

\* upsert, add_route
AddRoute(entry) == routes' = {e \in routes : e.target # entry.target} \cup {entry}

\* remove, remove_route
RemoveRoute(t) == routes' = {e \in routes : e.target # t}

\* clear
ClearRoutes == routes' = EmptyTable

\* lookup, find_route
LookupRoute(t) == {e \in routes : e.target = t}

\* best_route: the least metric, among the one entry that a target has.
BestRoute(t) == {e \in LookupRoute(t) : \A o \in LookupRoute(t) : e.metric <= o.metric}

RouteNext ==
    \/ \E t \in RouteTargets, hop \in RouteTargets, m \in Metrics : AddRoute(RouteEntry(t, hop, m))
    \/ \E t \in RouteTargets : LookupRoute(t) # {} /\ RemoveRoute(t)
    \/ ClearRoutes
=============================================================================
