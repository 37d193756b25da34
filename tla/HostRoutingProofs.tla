------------------------- MODULE HostRoutingProofs -------------------------
(***************************************************************************)
(* Proofs about HostRouting, for any sets of requesters, runtimes and ids. *)
(***************************************************************************)
EXTENDS HostRouting, TLAPS

\* A live route is the request it was issued for and was not answered yet.
RoutesAreUnansweredRequests ==
    \A g \in Live :
        /\ routes[g] = issued[g]
        /\ replies[g] = 0
        /\ routes[g].kind = "control" <=> routes[g].requesterId \in Controls

\* The part of the invariant about the table and the histories.
DataInv ==
    /\ DataTypeOK
    /\ RoutesAreUnansweredRequests
    /\ OneReplyPerRequest
    /\ RepliesReachTheirRequester
    /\ PromisePendingIffRouted

\* Removing routes keeps the remaining ones as they are.
LEMMA RemoveRoutes ==
    ASSUME NEW S, Remove(S)
    PROVE  /\ Live' = Live \ S
           /\ \A g \in Live \ S : routes'[g] = routes[g]
           /\ nextGlobalMessageId' = nextGlobalMessageId
BY DEF Remove, Live, Restrict

\* Cancelling routes preserves the data part of the invariant.
LEMMA CancelPreservesData ==
    ASSUME DataInv, NEW S \in SUBSET Live, Cancel(S)
    PROVE  DataInv'
<1>1. /\ Live' = Live \ S
      /\ \A g \in Live \ S : routes'[g] = routes[g]
      /\ nextGlobalMessageId' = nextGlobalMessageId
  BY RemoveRoutes DEF Cancel
<1>2. routes' \in [Live' -> Request]
  BY <1>1 DEF DataInv, DataTypeOK, Cancel, Remove, Restrict, Live
<1>3. DataTypeOK'
  BY <1>1, <1>2 DEF DataInv, DataTypeOK, GlobalIds, Cancel
<1>4. RoutesAreUnansweredRequests'
  BY <1>1 DEF DataInv, RoutesAreUnansweredRequests, Cancel
<1>5. OneReplyPerRequest' /\ RepliesReachTheirRequester'
  BY DEF DataInv, OneReplyPerRequest, RepliesReachTheirRequester, Cancel
<1>6. PromisePendingIffRouted'
  BY <1>1 DEF DataInv, PromisePendingIffRouted, Cancel
<1> QED
  BY <1>3, <1>4, <1>5, <1>6 DEF DataInv

\* A request of a connected requester is well formed.
LEMMA MadeRequest ==
    ASSUME NEW r \in Requesters, NEW c \in Runtimes, NEW id \in OriginalIds,
           NEW w \in BOOLEAN
    PROVE  /\ MakeRequest(r, c, id, w) \in Request
           /\ MakeRequest(r, c, id, w).requesterId = r
           /\ MakeRequest(r, c, id, w).clientId = c
           /\ MakeRequest(r, c, id, w).awaited = w
           /\ MakeRequest(r, c, id, w).kind = "control" <=> r \in Controls
BY DEF MakeRequest, Request, Requesters

\* Sending registers a fresh id, so no older request can be confused with it.
LEMMA SendPreservesData ==
    ASSUME DataInv, NEW r \in Requesters, NEW c \in Runtimes,
           NEW id \in OriginalIds, NEW w \in BOOLEAN,
           SendMessageToRuntime(r, c, id, w)
    PROVE  DataInv'
<1> DEFINE n == nextGlobalMessageId
           q == MakeRequest(r, c, id, w)
<1>1. /\ n \in Nat \ {0} /\ n \notin Live /\ n' = n + 1
      /\ Live' = Live \cup {n}
      /\ GlobalIds' = GlobalIds \cup {n}
      /\ n \notin GlobalIds
  BY DEF DataInv, DataTypeOK, GlobalIds, SendMessageToRuntime, Add, Live
<1>2. q \in Request /\ q.awaited = w
      /\ (q.kind = "control" <=> q.requesterId \in Controls)
  BY MadeRequest
<1>3. /\ routes' = [g \in Live \cup {n} |-> IF g = n THEN q ELSE routes[g]]
      /\ issued' = [g \in GlobalIds \cup {n} |->
                      IF g = n THEN q ELSE issued[g]]
      /\ replies' = [g \in GlobalIds \cup {n} |->
                      IF g = n THEN 0 ELSE replies[g]]
      /\ promise' = [g \in GlobalIds \cup {n} |->
                      IF g = n THEN (IF w THEN "pending" ELSE "none")
                               ELSE promise[g]]
      /\ inbox' = inbox
  BY DEF DataInv, DataTypeOK, SendMessageToRuntime, Add, Record
<1> HIDE DEF q
<1>4. DataTypeOK'
  <2>1. routes' \in [Live' -> Request]
    BY <1>1, <1>2, <1>3 DEF DataInv, DataTypeOK
  <2>2. issued' \in [GlobalIds' -> Request]
    BY <1>1, <1>2, <1>3 DEF DataInv, DataTypeOK
  <2>3. promise' \in [GlobalIds' -> {"none", "pending", "resolved", "rejected"}]
    BY <1>1, <1>3 DEF DataInv, DataTypeOK
  <2>4. replies' \in [GlobalIds' -> Nat]
    BY <1>1, <1>3 DEF DataInv, DataTypeOK
  <2>5. inbox' \in [Requesters -> SUBSET [gid : GlobalIds', id : OriginalIds,
                                         from : Runtimes]]
    BY <1>1, <1>3 DEF DataInv, DataTypeOK
  <2>6. nextGlobalMessageId' \in Nat \ {0} /\ Live' \subseteq GlobalIds'
    BY <1>1 DEF DataInv, DataTypeOK
  <2> QED
    BY <2>1, <2>2, <2>3, <2>4, <2>5, <2>6 DEF DataTypeOK
<1>5. RoutesAreUnansweredRequests'
  BY <1>1, <1>2, <1>3 DEF DataInv, DataTypeOK, RoutesAreUnansweredRequests
<1>6. OneReplyPerRequest'
  BY <1>1, <1>3 DEF DataInv, DataTypeOK, OneReplyPerRequest
<1>7. RepliesReachTheirRequester'
  BY <1>1, <1>3 DEF DataInv, DataTypeOK, RepliesReachTheirRequester
<1>8. PromisePendingIffRouted'
  BY <1>1, <1>2, <1>3 DEF DataInv, DataTypeOK, PromisePendingIffRouted
<1> QED
  BY <1>4, <1>5, <1>6, <1>7, <1>8 DEF DataInv

\* A failed send uses up its id and leaves no route behind.
LEMMA FailedSendPreservesData ==
    ASSUME DataInv, NEW r \in Requesters, NEW c \in Runtimes,
           NEW id \in OriginalIds, NEW w \in BOOLEAN,
           SendToWsRuntimeFails(r, c, id, w)
    PROVE  DataInv'
<1> DEFINE n == nextGlobalMessageId
           q == MakeRequest(r, c, id, w)
<1>1. /\ n \in Nat \ {0} /\ n \notin Live /\ n' = n + 1
      /\ Live' = Live /\ routes' = routes
      /\ GlobalIds' = GlobalIds \cup {n}
      /\ n \notin GlobalIds
  BY DEF DataInv, DataTypeOK, GlobalIds, SendToWsRuntimeFails, Live
<1>2. q \in Request
  BY MadeRequest
<1>3. /\ issued' = [g \in GlobalIds \cup {n} |->
                      IF g = n THEN q ELSE issued[g]]
      /\ replies' = [g \in GlobalIds \cup {n} |->
                      IF g = n THEN 0 ELSE replies[g]]
      /\ promise' = [g \in GlobalIds \cup {n} |->
                      IF g = n THEN (IF w THEN "rejected" ELSE "none")
                               ELSE promise[g]]
      /\ inbox' = inbox
  BY DEF DataInv, DataTypeOK, SendToWsRuntimeFails, Record
<1> HIDE DEF q
<1>4. DataTypeOK'
  <2>1. issued' \in [GlobalIds' -> Request]
    BY <1>1, <1>2, <1>3 DEF DataInv, DataTypeOK
  <2>2. promise' \in [GlobalIds' -> {"none", "pending", "resolved", "rejected"}]
    BY <1>1, <1>3 DEF DataInv, DataTypeOK
  <2>3. replies' \in [GlobalIds' -> Nat]
    BY <1>1, <1>3 DEF DataInv, DataTypeOK
  <2>4. inbox' \in [Requesters -> SUBSET [gid : GlobalIds', id : OriginalIds,
                                         from : Runtimes]]
    BY <1>1, <1>3 DEF DataInv, DataTypeOK
  <2>5. /\ nextGlobalMessageId' \in Nat \ {0}
        /\ Live' \subseteq GlobalIds'
        /\ routes' \in [Live' -> Request]
    BY <1>1 DEF DataInv, DataTypeOK
  <2> QED
    BY <2>1, <2>2, <2>3, <2>4, <2>5 DEF DataTypeOK
<1>5. RoutesAreUnansweredRequests'
  BY <1>1, <1>3 DEF DataInv, DataTypeOK, RoutesAreUnansweredRequests
<1>6. OneReplyPerRequest' /\ RepliesReachTheirRequester'
  BY <1>1, <1>3
     DEF DataInv, DataTypeOK, OneReplyPerRequest, RepliesReachTheirRequester
<1>7. PromisePendingIffRouted'
  BY <1>1, <1>3 DEF DataInv, DataTypeOK, PromisePendingIffRouted
<1> QED
  BY <1>4, <1>5, <1>6, <1>7 DEF DataInv

\* A reply takes its route with it and reaches the requester of that route.
LEMMA ReplyPreservesData ==
    ASSUME DataInv, NEW c \in Runtimes, NEW g, HandleRuntimeMessage(c, g)
    PROVE  DataInv'
<1>1. /\ g \in Live /\ g \in GlobalIds
      /\ routes[g].clientId = c
      /\ Live' = Live \ {g}
      /\ \A h \in Live \ {g} : routes'[h] = routes[h]
      /\ nextGlobalMessageId' = nextGlobalMessageId
      /\ GlobalIds' = GlobalIds
      /\ issued' = issued
  BY RemoveRoutes
     DEF DataInv, DataTypeOK, HandleRuntimeMessage, Restorable, GlobalIds
<1>2. /\ routes[g] \in Request /\ routes[g] = issued[g] /\ replies[g] = 0
      /\ routes[g].requesterId \in Requesters
      /\ Restored(c, g) \in [gid : GlobalIds, id : OriginalIds, from : Runtimes]
  BY <1>1 DEF DataInv, DataTypeOK, RoutesAreUnansweredRequests, Request,
              Restored
<1>3. promise' = [promise EXCEPT ![g] =
                    IF routes[g].awaited THEN "resolved" ELSE @]
  BY DEF HandleRuntimeMessage
<1>4. \/ replies' = replies /\ inbox' = inbox
      \/ /\ replies' = [replies EXCEPT ![g] = @ + 1]
         /\ inbox' = [inbox EXCEPT ![routes[g].requesterId] =
                        @ \cup {Restored(c, g)}]
  BY DEF HandleRuntimeMessage
<1>5. DataTypeOK'
  <2>1. routes' \in [Live' -> Request]
    BY <1>1 DEF DataInv, DataTypeOK, HandleRuntimeMessage, Remove, Restrict,
                Live
  <2>2. promise' \in [GlobalIds' -> {"none", "pending", "resolved", "rejected"}]
    BY <1>1, <1>3 DEF DataInv, DataTypeOK
  <2>3. replies' \in [GlobalIds' -> Nat]
    BY <1>1, <1>4 DEF DataInv, DataTypeOK
  <2>4. inbox' \in [Requesters -> SUBSET [gid : GlobalIds', id : OriginalIds,
                                         from : Runtimes]]
    BY <1>1, <1>2, <1>4 DEF DataInv, DataTypeOK
  <2> QED
    BY <1>1, <2>1, <2>2, <2>3, <2>4 DEF DataInv, DataTypeOK
<1>6. RoutesAreUnansweredRequests'
  BY <1>1, <1>4 DEF DataInv, DataTypeOK, RoutesAreUnansweredRequests
<1>7. OneReplyPerRequest'
  BY <1>1, <1>2, <1>4 DEF DataInv, DataTypeOK, OneReplyPerRequest
<1>8. RepliesReachTheirRequester'
  <2>1. CASE inbox' = inbox
    BY <1>1, <2>1 DEF DataInv, RepliesReachTheirRequester
  <2>2. CASE inbox' = [inbox EXCEPT ![routes[g].requesterId] =
                         @ \cup {Restored(c, g)}]
    BY <1>1, <1>2, <2>2
       DEF DataInv, DataTypeOK, RepliesReachTheirRequester, Restored
  <2> QED
    BY <1>4, <2>1, <2>2
<1>9. PromisePendingIffRouted'
  BY <1>1, <1>3 DEF DataInv, DataTypeOK, PromisePendingIffRouted
<1> QED
  BY <1>5, <1>6, <1>7, <1>8, <1>9 DEF DataInv

-----------------------------------------------------------------------------

\* While ownership is lost every published USB client is unregistered, so no
\* route leads to a client whose disconnect the host would not hear of.
DetachedClientsAreUnknown ==
    phase = "ready" /\ ~attached => usbClients \cap published = {}

\* The part of the invariant about connections, ownership and shutdown.
ConnectionInv ==
    /\ ConnectionTypeOK
    /\ \A g \in Live : routes[g].clientId \in published
    /\ DetachedClientsAreUnknown
    /\ RouteEndsAreConnected
    /\ phase = "closed" => Live = {}

IInv == DataInv /\ ConnectionInv

\* A host that was just started has no route, request or promise.
LEMMA InitIInv == Init => IInv
<1> SUFFICES ASSUME Init PROVE IInv
  OBVIOUS
<1>1. Live = {} /\ GlobalIds = {}
  BY DEF Init, TableInit, Live, GlobalIds
<1>2. DataInv
  BY <1>1 DEF Init, TableInit, DataInv, DataTypeOK, OneReplyPerRequest,
              RoutesAreUnansweredRequests, RepliesReachTheirRequester,
              PromisePendingIffRouted, Live
<1>3. ConnectionInv
  BY <1>1 DEF Init, ConnectionInv, ConnectionTypeOK, RouteEndsAreConnected,
              DetachedClientsAreUnknown
<1> QED
  BY <1>2, <1>3 DEF IInv

\* Every step changes the table and the histories in one of five ways.
LEMMA NextPreservesData ==
    ASSUME IInv, [Next]_vars
    PROVE  DataInv'
<1> USE DEF IInv
<1>0. ASSUME UNCHANGED <<tableVars, historyVars>> PROVE DataInv'
  BY <1>0 DEF tableVars, historyVars, DataInv, DataTypeOK, GlobalIds, Live,
              RoutesAreUnansweredRequests, OneReplyPerRequest,
              RepliesReachTheirRequester, PromisePendingIffRouted
<1>1. ASSUME NEW g \in Live, RouteTimeout(g) PROVE DataInv'
  BY <1>1, CancelPreservesData DEF RouteTimeout
<1>2. ASSUME NEW r \in Requesters, HandleRequesterConnected(r) PROVE DataInv'
  BY <1>2, <1>0 DEF HandleRequesterConnected
<1>3. ASSUME NEW r \in Controls, HandleControlDisconnected(r) PROVE DataInv'
  BY <1>3, CancelPreservesData DEF HandleControlDisconnected, ByRequester
<1>4. ASSUME NEW r \in WebClients, HandleDriverDisconnected(r) PROVE DataInv'
  BY <1>4, CancelPreservesData DEF HandleDriverDisconnected, ByRequester
<1>5. ASSUME NEW c \in UsbRuntimes, HandleUsbClientConnected(c) PROVE DataInv'
  BY <1>5, <1>0 DEF HandleUsbClientConnected
<1>6. ASSUME NEW c \in UsbRuntimes, HandleUsbClientDisconnected(c)
      PROVE  DataInv'
  BY <1>6, <1>0, CancelPreservesData DEF HandleUsbClientDisconnected, ByClientId
<1>7. ASSUME NEW c \in WsRuntimes, HandleWsAppConnected(c) PROVE DataInv'
  BY <1>7, <1>0 DEF HandleWsAppConnected
<1>8. ASSUME NEW c \in WsRuntimes, HandleWsAppDisconnected(c) PROVE DataInv'
  BY <1>8, CancelPreservesData DEF HandleWsAppDisconnected, ByClientId
<1>9. ASSUME NEW r \in Requesters, NEW c \in Runtimes, NEW id \in OriginalIds,
             NEW w \in BOOLEAN, SendMessageToRuntime(r, c, id, w)
      PROVE  DataInv'
  BY <1>9, SendPreservesData
<1>10. ASSUME NEW r \in Requesters, NEW c \in WsRuntimes,
              NEW id \in OriginalIds, NEW w \in BOOLEAN,
              SendToWsRuntimeFails(r, c, id, w)
       PROVE  DataInv'
  BY <1>10, FailedSendPreservesData DEF Runtimes
<1>11. ASSUME NEW c \in Runtimes, NEW g \in 1..MaxRequests,
              HandleRuntimeMessage(c, g)
       PROVE  DataInv'
  BY <1>11, ReplyPreservesData
<1>12. ASSUME HandleLegacyOwnershipLost PROVE DataInv'
  BY <1>12, CancelPreservesData DEF HandleLegacyOwnershipLost
<1>13. ASSUME HandleLegacyOwnershipAttached \/ StopBegin PROVE DataInv'
  BY <1>13, <1>0 DEF HandleLegacyOwnershipAttached, StopBegin
<1>14. ASSUME StopEnd PROVE DataInv'
  BY <1>14, CancelPreservesData DEF StopEnd
<1>15. ASSUME UNCHANGED vars PROVE DataInv'
  BY <1>15, <1>0 DEF vars
<1> QED
  BY <1>1, <1>2, <1>3, <1>4, <1>5, <1>6, <1>7, <1>8, <1>9, <1>10, <1>11,
     <1>12, <1>13, <1>14, <1>15 DEF Next

\* Every step keeps the ends of the routes connected.
LEMMA NextPreservesConnections ==
    ASSUME IInv, [Next]_vars
    PROVE  ConnectionInv'
<1> USE DEF IInv
<1>a. \A g \in Live : /\ routes[g].kind \in {"control", "websocket"}
                      /\ (routes[g].kind = "control")
                           <=> (routes[g].requesterId \in Controls)
                      /\ routes[g].requesterId \in Requesters
                      /\ routes[g].clientId \in Runtimes
  BY DEF DataInv, DataTypeOK, RoutesAreUnansweredRequests, Request
<1>d. /\ Controls \cap WebClients = {}
      /\ UsbRuntimes \cap WsRuntimes = {}
      /\ (Controls \cup WebClients) \cap (UsbRuntimes \cup WsRuntimes) = {}
  BY RequestersDisjoint, RuntimesDisjoint, EndsDisjoint
<1>b. ASSUME NEW S, Remove(S)
      PROVE  Live' = Live \ S /\ \A g \in Live \ S : routes'[g] = routes[g]
  BY <1>b, RemoveRoutes
<1>0. ASSUME UNCHANGED <<tableVars, hostVars>> PROVE ConnectionInv'
  BY <1>0 DEF tableVars, hostVars, Live, ConnectionInv, ConnectionTypeOK,
              RouteEndsAreConnected, DetachedClientsAreUnknown, Reachable
<1>c. ASSUME NEW S, Remove(S), UNCHANGED hostVars PROVE ConnectionInv'
  BY <1>c, <1>b DEF hostVars, ConnectionInv, ConnectionTypeOK,
                    RouteEndsAreConnected, DetachedClientsAreUnknown, Reachable
<1>1. ASSUME NEW g \in Live, RouteTimeout(g) PROVE ConnectionInv'
  BY <1>1, <1>c DEF RouteTimeout, Cancel
<1>2. ASSUME NEW r \in Requesters, HandleRequesterConnected(r)
      PROVE  ConnectionInv'
  BY <1>2, <1>a, <1>d DEF HandleRequesterConnected, tableVars, Live, ConnectionInv,
        ConnectionTypeOK, RouteEndsAreConnected, DetachedClientsAreUnknown,
        Reachable, Runtimes, Requesters
<1>3. ASSUME NEW r \in Controls, HandleControlDisconnected(r)
      PROVE  ConnectionInv'
  <2>1. /\ Live' = Live \ ByRequester("control", r)
        /\ \A g \in Live' : routes'[g] = routes[g]
    BY <1>3, <1>b DEF HandleControlDisconnected, Cancel
  <2>2. \A g \in Live' : routes[g].requesterId # r
    BY <1>a, <1>d, <2>1 DEF ByRequester
  <2> QED
    BY <1>3, <1>a, <1>d, <2>1, <2>2 DEF HandleControlDisconnected, ConnectionInv,
       ConnectionTypeOK, RouteEndsAreConnected, DetachedClientsAreUnknown,
       Reachable, Runtimes, Requesters
<1>4. ASSUME NEW r \in WebClients, HandleDriverDisconnected(r)
      PROVE  ConnectionInv'
  <2>1. /\ Live' = Live \ ByRequester("websocket", r)
        /\ \A g \in Live' : routes'[g] = routes[g]
    BY <1>4, <1>b DEF HandleDriverDisconnected, Cancel
  <2>2. \A g \in Live' : routes[g].requesterId # r
    BY <1>a, <1>d, <2>1 DEF ByRequester
  <2> QED
    BY <1>4, <1>a, <1>d, <2>1, <2>2 DEF HandleDriverDisconnected, ConnectionInv,
       ConnectionTypeOK, RouteEndsAreConnected, DetachedClientsAreUnknown,
       Reachable, Runtimes, Requesters
<1>5. ASSUME NEW c \in UsbRuntimes, HandleUsbClientConnected(c)
      PROVE  ConnectionInv'
  BY <1>5, <1>a, <1>d DEF HandleUsbClientConnected, tableVars, Live, ConnectionInv,
     ConnectionTypeOK, RouteEndsAreConnected, DetachedClientsAreUnknown,
     Reachable, Runtimes, Requesters
<1>6. ASSUME NEW c \in UsbRuntimes, HandleUsbClientDisconnected(c)
      PROVE  ConnectionInv'
  <2>1. CASE c \in usbClients /\ attached /\ phase = "ready"
    <3>1. /\ Live' = Live \ ByClientId(c)
          /\ \A g \in Live' : routes'[g] = routes[g]
      BY <1>6, <1>b, <2>1 DEF HandleUsbClientDisconnected, Cancel
    <3>2. \A g \in Live' : routes[g].clientId # c
      BY <3>1 DEF ByClientId
    <3> QED
      BY <1>6, <1>a, <1>d, <3>1, <3>2 DEF HandleUsbClientDisconnected,
         ConnectionInv, ConnectionTypeOK, RouteEndsAreConnected,
         DetachedClientsAreUnknown, Reachable, Runtimes, Requesters
  <2>2. CASE ~(c \in usbClients /\ attached /\ phase = "ready")
    <3>1. UNCHANGED <<tableVars, historyVars>>
      BY <1>6, <2>2 DEF HandleUsbClientDisconnected
    <3>2. phase = "ready" => \A g \in Live : routes[g].clientId # c
      BY <1>a, <1>d, <2>2 DEF ConnectionInv, ConnectionTypeOK,
         RouteEndsAreConnected, DetachedClientsAreUnknown, Reachable
    <3> QED
      BY <1>6, <1>a, <1>d, <3>1, <3>2 DEF HandleUsbClientDisconnected, tableVars,
         Live, ConnectionInv, ConnectionTypeOK, RouteEndsAreConnected,
         DetachedClientsAreUnknown, Reachable, Runtimes, Requesters
  <2> QED
    BY <2>1, <2>2
<1>7. ASSUME NEW c \in WsRuntimes, HandleWsAppConnected(c)
      PROVE  ConnectionInv'
  BY <1>7, <1>a, <1>d DEF HandleWsAppConnected, tableVars, Live, ConnectionInv,
     ConnectionTypeOK, RouteEndsAreConnected, DetachedClientsAreUnknown,
     Reachable, Runtimes, Requesters
<1>8. ASSUME NEW c \in WsRuntimes, HandleWsAppDisconnected(c)
      PROVE  ConnectionInv'
  <2>1. /\ Live' = Live \ ByClientId(c)
        /\ \A g \in Live' : routes'[g] = routes[g]
    BY <1>8, <1>b DEF HandleWsAppDisconnected, Cancel
  <2>2. \A g \in Live' : routes[g].clientId # c
    BY <2>1 DEF ByClientId
  <2> QED
    BY <1>8, <1>a, <1>d, <2>1, <2>2 DEF HandleWsAppDisconnected, ConnectionInv,
       ConnectionTypeOK, RouteEndsAreConnected, DetachedClientsAreUnknown,
       Reachable, Runtimes, Requesters
<1>9. ASSUME NEW r \in Requesters, NEW c \in Runtimes, NEW id \in OriginalIds,
             NEW w \in BOOLEAN, SendMessageToRuntime(r, c, id, w)
      PROVE  ConnectionInv'
  <2> DEFINE q == MakeRequest(r, c, id, w)
  <2>1. q.requesterId = r /\ q.clientId = c
    BY MadeRequest
  <2> HIDE DEF q
  <2>2. \A g \in Live' : routes'[g] = q \/ (g \in Live /\ routes'[g] = routes[g])
    BY <1>9 DEF SendMessageToRuntime, Add, Live, q
  <2> QED
    BY <1>9, <2>1, <2>2 DEF SendMessageToRuntime, CanSend, hostVars,
       ConnectionInv, ConnectionTypeOK, RouteEndsAreConnected,
       DetachedClientsAreUnknown, Reachable
<1>10. ASSUME NEW r \in Requesters, NEW c \in WsRuntimes,
              NEW id \in OriginalIds, NEW w \in BOOLEAN,
              SendToWsRuntimeFails(r, c, id, w)
       PROVE  ConnectionInv'
  BY <1>10 DEF SendToWsRuntimeFails, hostVars, Live, ConnectionInv,
     ConnectionTypeOK, RouteEndsAreConnected, DetachedClientsAreUnknown,
     Reachable
<1>11. ASSUME NEW c \in Runtimes, NEW g \in 1..MaxRequests,
              HandleRuntimeMessage(c, g)
       PROVE  ConnectionInv'
  BY <1>11, <1>c DEF HandleRuntimeMessage
<1>12. ASSUME HandleLegacyOwnershipLost PROVE ConnectionInv'
  <2>1. Live' = {}
    BY <1>12, <1>b DEF HandleLegacyOwnershipLost, Cancel
  <2> QED
    BY <1>12, <2>1, Zenon DEF HandleLegacyOwnershipLost, ConnectionInv,
       ConnectionTypeOK, RouteEndsAreConnected, DetachedClientsAreUnknown
<1>13. ASSUME HandleLegacyOwnershipAttached PROVE ConnectionInv'
  BY <1>13 DEF HandleLegacyOwnershipAttached, tableVars, Live, ConnectionInv,
     ConnectionTypeOK, RouteEndsAreConnected, DetachedClientsAreUnknown,
     Reachable, Runtimes
<1>14. ASSUME StopBegin PROVE ConnectionInv'
  BY <1>14 DEF StopBegin, tableVars, Live, ConnectionInv, ConnectionTypeOK,
     RouteEndsAreConnected, DetachedClientsAreUnknown, Reachable
<1>15. ASSUME StopEnd PROVE ConnectionInv'
  <2>1. Live' = {}
    BY <1>15, <1>b DEF StopEnd, Cancel
  <2> QED
    BY <1>15, <2>1 DEF StopEnd, ConnectionInv, ConnectionTypeOK,
       RouteEndsAreConnected, DetachedClientsAreUnknown
<1>16. ASSUME UNCHANGED vars PROVE ConnectionInv'
  BY <1>16, <1>0 DEF vars
<1> QED
  BY <1>1, <1>2, <1>3, <1>4, <1>5, <1>6, <1>7, <1>8, <1>9, <1>10, <1>11,
     <1>12, <1>13, <1>14, <1>15, <1>16 DEF Next

\* The inductive invariant holds in every reachable state.
THEOREM Invariance == Spec => []IInv
<1>1. IInv /\ [Next]_vars => IInv'
  BY NextPreservesData, NextPreservesConnections DEF IInv
<1> QED
  BY InitIInv, <1>1, PTL DEF Spec

\* Every variable keeps its type.
THEOREM TypeCorrect == Spec => []TypeOK
<1>1. IInv => TypeOK
  BY DEF IInv, DataInv, ConnectionInv, TypeOK
<1> QED
  BY Invariance, <1>1, PTL

\* Whatever runtimes send and whenever connections break, a request is
\* answered at most once and only its requester sees the answer.
THEOREM RoutingIsSafe == Spec => [](OneReplyPerRequest /\ RepliesReachTheirRequester)
<1>1. IInv => OneReplyPerRequest /\ RepliesReachTheirRequester
  BY DEF IInv, DataInv
<1> QED
  BY Invariance, <1>1, PTL

\* The promise of a request is pending exactly while its route exists: no
\* order of replies, time-outs and disconnects leaves one without the other.
THEOREM PromisesFollowRoutes == Spec => []PromisePendingIffRouted
<1>1. IInv => PromisePendingIffRouted
  BY DEF IInv, DataInv
<1> QED
  BY Invariance, <1>1, PTL

\* Both ends of every route are connected until shutdown begins.
THEOREM RoutesAreBetweenLiveEnds == Spec => []RouteEndsAreConnected
<1>1. IInv => RouteEndsAreConnected
  BY DEF IInv, ConnectionInv
<1> QED
  BY Invariance, <1>1, PTL

\* A stopped host has no route and no pending promise left.
THEOREM ShutdownSettlesEverything == Spec => []ClosedHostOwesNothing
<1>1. IInv => ClosedHostOwesNothing
  BY DEF IInv, ConnectionInv, DataInv, PromisePendingIffRouted,
         ClosedHostOwesNothing
<1> QED
  BY Invariance, <1>1, PTL

-----------------------------------------------------------------------------

\* What the refinement mapping shows of a state.
Asked == [g \in DOMAIN issued |-> Question(g)]
Shown == [g \in DOMAIN issued |-> Status(g)]

\* A step that only removes routes cancels their requests.
LEMMA CancelRefines ==
    ASSUME DataInv, DataInv', NEW S \in SUBSET Live, Cancel(S)
    PROVE  Service!Cancel(S) /\ S \in SUBSET (1..(nextGlobalMessageId - 1))
<1>1. /\ Live' = Live \ S
      /\ nextGlobalMessageId' = nextGlobalMessageId
      /\ issued' = issued /\ replies' = replies /\ inbox' = inbox
  BY RemoveRoutes DEF Cancel
<1>2. /\ DOMAIN issued = 1..(nextGlobalMessageId - 1)
      /\ S \subseteq DOMAIN issued
  BY DEF DataInv, DataTypeOK, GlobalIds
<1>3. \A g \in S : Shown[g] = "open"
  BY <1>2 DEF Shown, Status
<1>4. \A g \in S : replies[g] = 0
  BY DEF DataInv, RoutesAreUnansweredRequests
<1>5. Shown' = [g \in 1..(nextGlobalMessageId - 1) |->
                  IF g \in S THEN "cancelled" ELSE Shown[g]]
  BY <1>1, <1>2, <1>4 DEF Shown, Status
<1>6. Asked' = Asked
  BY <1>1 DEF Asked, Question
<1> QED
  BY <1>1, <1>2, <1>3, <1>5, <1>6, Zenon DEF Service!Cancel, Shown, Asked

\* A new request is a question of the service, open or cancelled at once.
LEMMA AskRefines ==
    ASSUME DataInv, DataInv', NEW q \in Request, NEW o,
           nextGlobalMessageId' = nextGlobalMessageId + 1,
           Record(q, o),
           \/ Live' = Live \cup {nextGlobalMessageId}
           \/ Live' = Live
    PROVE  Service!Next
<1> DEFINE n == nextGlobalMessageId
           st == IF n \in Live' THEN "open" ELSE "cancelled"
           qq == [requesterId |-> q.requesterId, originalId |-> q.originalId,
                  clientId |-> q.clientId]
<1>1. /\ n \in Nat \ {0} /\ n \notin Live
      /\ DOMAIN issued = 1..(n - 1)
      /\ DOMAIN replies = 1..(n - 1)
      /\ 1..((n - 1) + 1) = (1..(n - 1)) \cup {n}
      /\ (n - 1) + 1 = n
      /\ n' - 1 = n
  BY DEF DataInv, DataTypeOK, GlobalIds
<1>2. /\ issued' = [g \in 1..n |-> IF g = n THEN q ELSE issued[g]]
      /\ replies' = [g \in 1..n |-> IF g = n THEN 0 ELSE replies[g]]
      /\ inbox' = inbox
  BY <1>1 DEF Record
<1>3. qq \in Service!Question
  BY DEF Service!Question, Request
<1>4. Asked' = [g \in 1..n |-> IF g = n THEN qq ELSE Asked[g]]
  BY <1>1, <1>2 DEF Asked, Question
<1>5. Shown' = [g \in 1..n |-> IF g = n THEN st ELSE Shown[g]]
  BY <1>1, <1>2 DEF Shown, Status
<1> HIDE DEF st, qq
<1>6. Service!Ask(qq, st)
  BY <1>1, <1>2, <1>4, <1>5, ZenonT(60) DEF Service!Ask, Asked, Shown
<1> QED
  BY <1>3, <1>6 DEF Service!Next, st

\* A reply answers an open request, or cancels one whose frontend lost its
\* WebSocket server.
LEMMA ReplyRefines ==
    ASSUME DataInv, DataInv', NEW c, NEW g, HandleRuntimeMessage(c, g)
    PROVE  Service!Next
<1>1. /\ g \in Live /\ Live' = Live \ {g}
      /\ routes[g].clientId = c
      /\ nextGlobalMessageId' = nextGlobalMessageId
      /\ issued' = issued
  BY RemoveRoutes DEF HandleRuntimeMessage, Restorable
<1>2. /\ DOMAIN issued = 1..(nextGlobalMessageId - 1)
      /\ DOMAIN replies = DOMAIN issued
      /\ g \in DOMAIN issued
      /\ replies[g] = 0
      /\ routes[g] = issued[g]
      /\ \A h \in DOMAIN replies : replies[h] \in Nat
  BY <1>1 DEF DataInv, DataTypeOK, GlobalIds, RoutesAreUnansweredRequests
<1>3. Shown[g] = "open" /\ Asked' = Asked
  BY <1>1, <1>2 DEF Shown, Status, Asked, Question
<1>4. CASE Deliverable(g)
  <2>1. /\ replies' = [replies EXCEPT ![g] = @ + 1]
        /\ inbox' = [inbox EXCEPT ![routes[g].requesterId] =
                       @ \cup {Restored(c, g)}]
    BY <1>4 DEF HandleRuntimeMessage
  <2>2. Shown' = [Shown EXCEPT ![g] = "answered"]
    <3>1. replies'[g] > 0 /\ \A h \in DOMAIN issued : h # g => replies'[h] = replies[h]
      BY <1>2, <2>1
    <3>2. \A h \in DOMAIN issued :
             Status(h)' = IF h = g THEN "answered" ELSE Status(h)
      BY <1>1, <3>1 DEF Status
    <3> QED
      BY <1>1, <3>2, Zenon DEF Shown
  <2>3. /\ Asked[g].requesterId = routes[g].requesterId
        /\ Restored(c, g) = [gid |-> g, id |-> Asked[g].originalId,
                          from |-> Asked[g].clientId]
    BY <1>1, <1>2 DEF Asked, Question, Restored
  <2>4. Service!Answer(g)
    BY <1>1, <1>3, <2>1, <2>2, <2>3, Zenon DEF Service!Answer, Asked, Shown
  <2> QED
    BY <1>2, <2>4 DEF Service!Next
<1>5. CASE ~Deliverable(g)
  <2>1. replies' = replies /\ inbox' = inbox
    BY <1>5 DEF HandleRuntimeMessage
  <2>2. Shown' = [h \in 1..(nextGlobalMessageId - 1) |->
                    IF h \in {g} THEN "cancelled" ELSE Shown[h]]
    BY <1>1, <1>2, <2>1 DEF Shown, Status
  <2>3. Service!Cancel({g})
    BY <1>1, <1>3, <2>1, <2>2 DEF Service!Cancel, Asked, Shown
  <2> QED
    BY <1>2, <2>3 DEF Service!Next
<1> QED
  BY <1>4, <1>5

\* Steps that leave table and histories alone are invisible to the service.
LEMMA SilentRefines ==
    ASSUME UNCHANGED <<tableVars, historyVars>>
    PROVE  UNCHANGED Service!vars
BY DEF tableVars, historyVars, Service!vars, Question, Status, Live

\* Every step of the host is a step of the service or invisible to it.
LEMMA NextRefines ==
    ASSUME IInv, IInv', [Next]_vars
    PROVE  [Service!Next]_(Service!vars)
<1> USE DEF IInv
<1>0. ASSUME NEW S \in SUBSET Live, Cancel(S) PROVE Service!Next
  BY <1>0, CancelRefines DEF Service!Next
<1>1. ASSUME NEW g \in Live, RouteTimeout(g) PROVE Service!Next
  BY <1>1, <1>0 DEF RouteTimeout
<1>2. ASSUME NEW r \in Controls, HandleControlDisconnected(r)
      PROVE  Service!Next
  BY <1>2, <1>0 DEF HandleControlDisconnected, ByRequester
<1>3. ASSUME NEW r \in WebClients, HandleDriverDisconnected(r)
      PROVE  Service!Next
  BY <1>3, <1>0 DEF HandleDriverDisconnected, ByRequester
<1>4. ASSUME NEW c \in UsbRuntimes, HandleUsbClientDisconnected(c)
      PROVE  Service!Next \/ UNCHANGED Service!vars
  BY <1>4, <1>0, SilentRefines DEF HandleUsbClientDisconnected, ByClientId
<1>5. ASSUME NEW c \in WsRuntimes, HandleWsAppDisconnected(c)
      PROVE  Service!Next
  BY <1>5, <1>0 DEF HandleWsAppDisconnected, ByClientId
<1>6. ASSUME NEW r \in Requesters, NEW c \in Runtimes, NEW id \in OriginalIds,
             NEW w \in BOOLEAN, SendMessageToRuntime(r, c, id, w)
      PROVE  Service!Next
  <2>1. /\ nextGlobalMessageId' = nextGlobalMessageId + 1
        /\ Live' = Live \cup {nextGlobalMessageId}
        /\ Record(MakeRequest(r, c, id, w), IF w THEN "pending" ELSE "none")
    BY <1>6 DEF SendMessageToRuntime, Add, Live
  <2> QED
    BY <2>1, MadeRequest, AskRefines
<1>7. ASSUME NEW r \in Requesters, NEW c \in WsRuntimes, NEW id \in OriginalIds,
             NEW w \in BOOLEAN, SendToWsRuntimeFails(r, c, id, w)
      PROVE  Service!Next
  <2>1. /\ nextGlobalMessageId' = nextGlobalMessageId + 1
        /\ Live' = Live
        /\ Record(MakeRequest(r, c, id, w), IF w THEN "rejected" ELSE "none")
        /\ c \in Runtimes
    BY <1>7 DEF SendToWsRuntimeFails, Live, Runtimes
  <2> QED
    BY <2>1, MadeRequest, AskRefines
<1>8. ASSUME NEW c \in Runtimes, NEW g \in 1..MaxRequests,
             HandleRuntimeMessage(c, g)
      PROVE  Service!Next
  BY <1>8, ReplyRefines
<1>9. ASSUME HandleLegacyOwnershipLost \/ StopEnd PROVE Service!Next
  BY <1>9, <1>0 DEF HandleLegacyOwnershipLost, StopEnd
<1>10. ASSUME \/ \E r \in Requesters : HandleRequesterConnected(r)
              \/ \E c \in UsbRuntimes : HandleUsbClientConnected(c)
              \/ \E c \in WsRuntimes : HandleWsAppConnected(c)
              \/ HandleLegacyOwnershipAttached
              \/ StopBegin
              \/ UNCHANGED vars
       PROVE  UNCHANGED Service!vars
  <2>1. UNCHANGED <<tableVars, historyVars>>
    BY <1>10 DEF HandleRequesterConnected, HandleUsbClientConnected,
       HandleWsAppConnected, HandleLegacyOwnershipAttached, StopBegin, vars
  <2> QED
    BY <2>1, SilentRefines
<1> QED
  BY <1>1, <1>2, <1>3, <1>4, <1>5, <1>6, <1>7, <1>8, <1>9, <1>10 DEF Next

\* The host's routing implements the abstract request/reply service.
THEOREM RoutingImplementsService == Spec => ImplementsRequestReply
<1>1. Init => Service!Init
  BY DEF Init, TableInit, Service!Init
<1>2. IInv /\ IInv' /\ [Next]_vars => [Service!Next]_(Service!vars)
  BY NextRefines
<1> QED
  BY Invariance, <1>1, <1>2, PTL DEF Spec, ImplementsRequestReply, Service!Spec
=============================================================================
