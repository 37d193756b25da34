------------------------- MODULE PendingRouteTable -------------------------
(***************************************************************************)
(* The table of pending routes of the multiplexer daemon                   *)
(* (multiplexer/daemon/PendingRouteTable.ts).  A route remembers, under a  *)
(* global message id, who asked (kind, requesterId), under which id        *)
(* (originalId), which runtime was asked (clientId) and whether a promise  *)
(* waits for the answer (awaited: the resolve/reject pair is present).     *)
(*                                                                         *)
(* createdAt and timeoutMs only choose when a route's timer fires; the     *)
(* host's RouteTimeout action lets it fire at any moment of its life.      *)
(***************************************************************************)
EXTENDS Naturals, Functions

VARIABLES
    routes,               \* globalMessageId -> PendingRoute
    nextGlobalMessageId   \* the id the next route gets

tableVars == <<routes, nextGlobalMessageId>>

Live == DOMAIN routes

TableInit ==
    /\ routes = [g \in {} |-> 0]
    /\ nextGlobalMessageId = 1

\* add(): allocate an id (post-increment) and store the route under it.
Add(input) ==
    /\ routes' = [g \in Live \cup {nextGlobalMessageId} |->
                    IF g = nextGlobalMessageId THEN input ELSE routes[g]]
    /\ nextGlobalMessageId' = nextGlobalMessageId + 1

\* clearMatching(), and take() and the timer's remove() for a single route:
\* the routes of S leave the table, their timers are cancelled with them.
Remove(S) ==
    /\ routes' = Restrict(routes, Live \ S)
    /\ UNCHANGED nextGlobalMessageId

\* The bulk selections of clearByControlId / clearByWebClientId /
\* clearByClientId.
ByRequester(kind, r) ==
    {g \in Live : routes[g].kind = kind /\ routes[g].requesterId = r}

ByClientId(c) == {g \in Live : routes[g].clientId = c}
=============================================================================
