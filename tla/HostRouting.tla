---------------------------- MODULE HostRouting ----------------------------
(***************************************************************************)
(* Request/response routing of the multiplexer daemon host                 *)
(* (multiplexer/daemon/MultiplexerDaemonHost.ts over PendingRouteTable.ts).*)
(*                                                                         *)
(* Controls (Connector processes) and WebClients (Driver frontends) send   *)
(* id-bearing requests to runtimes: USB clients and WiFi apps.  The host   *)
(* replaces the request's id by a global id, remembers the route and, when *)
(* a runtime sends a message with that id, restores the original id and    *)
(* hands the message to the one requester it belongs to.                   *)
(*                                                                         *)
(* Every connection id is used once (nextControlId++, ++nextClientId), so  *)
(* a connection that went away never comes back under its old identity.    *)
(* Messages without an id never touch this state; MemoizedQueries models   *)
(* the ones that do more than pass through.                                *)
(***************************************************************************)
EXTENDS PendingRouteTable

CONSTANTS
    Controls,      \* control connection ids
    WebClients,    \* ids of WebSocket Driver frontends
    UsbRuntimes,   \* client ids of USB runtimes
    WsRuntimes,    \* client ids of WiFi runtimes
    OriginalIds,   \* ids requesters put into their requests
    MaxRequests    \* bound: requests issued in one behaviour

ASSUME RequestersDisjoint == Controls \cap WebClients = {}
ASSUME RuntimesDisjoint == UsbRuntimes \cap WsRuntimes = {}
ASSUME EndsDisjoint ==
    (Controls \cup WebClients) \cap (UsbRuntimes \cup WsRuntimes) = {}
ASSUME MaxRequestsNat == MaxRequests \in Nat

VARIABLES
    connected,   \* requesters and runtimes with a live connection
    seen,        \* ids that were ever connected
    usbClients,  \* keys of PhysicalConnector.usbClients
    published,   \* runtimes some snapshot or client list ever showed
    attached,    \* legacyOwnershipGuard.currentStatus = "attached"
    phase,       \* "ready", "closing" (inside stopInternal) or "closed"
    issued,      \* history: the request behind every global id given out
    promise,     \* the state of sendMessageWithReply's promise, per global id
    replies,     \* history: how often a reply was handed over, per global id
    inbox        \* history: what each requester received

hostVars == <<connected, seen, usbClients, published, attached, phase>>
historyVars == <<issued, promise, replies, inbox>>
vars == <<tableVars, hostVars, historyVars>>

Requesters == Controls \cup WebClients
Runtimes == UsbRuntimes \cup WsRuntimes

Request ==
    [kind : {"control", "websocket"}, requesterId : Requesters,
     originalId : OriginalIds, clientId : Runtimes, awaited : BOOLEAN]

Init ==
    /\ TableInit
    /\ connected = {} /\ seen = {} /\ usbClients = {} /\ published = {}
    /\ attached = TRUE
    /\ phase = "ready"
    /\ issued = [g \in {} |-> 0]
    /\ promise = [g \in {} |-> 0]
    /\ replies = [g \in {} |-> 0]
    /\ inbox = [r \in Requesters |-> {}]

-----------------------------------------------------------------------------
(* Cancelling routes.                                                      *)

\* rejectRoutes() on what a clear*() of the table removed: the promises of
\* awaited control routes are rejected, the other routes just disappear.
MutCancelSilently(S) ==
    /\ Remove(S)
    /\ UNCHANGED historyVars
Cancel(S) ==
    /\ Remove(S)
    /\ promise' = [g \in DOMAIN promise |->
                     IF g \in S /\ routes[g].awaited THEN "rejected"
                                                     ELSE promise[g]]
    /\ UNCHANGED <<issued, replies, inbox>>

\* The callback of a route's timer.  It finds its own route, or nothing.
RouteTimeout(g) ==
    /\ g \in Live
    /\ Cancel({g})
    /\ UNCHANGED hostVars

-----------------------------------------------------------------------------
(* Requesters.                                                             *)

HandleRequesterConnected(r) ==
    /\ phase = "ready" \/ (phase = "closing" /\ r \in Controls)
    /\ r \notin seen
    /\ connected' = connected \cup {r}
    /\ seen' = seen \cup {r}
    /\ UNCHANGED <<tableVars, usbClients, published, attached, phase,
                   historyVars>>

MutForgetControlRoutes(r) ==
    /\ r \in connected \cap Controls
    /\ connected' = connected \ {r}
    /\ UNCHANGED <<tableVars, historyVars, seen, usbClients, published,
                   attached, phase>>
HandleControlDisconnected(r) ==
    /\ r \in connected \cap Controls
    /\ connected' = connected \ {r}
    /\ Cancel(ByRequester("control", r))
    /\ UNCHANGED <<seen, usbClients, published, attached, phase>>

HandleDriverDisconnected(r) ==
    /\ r \in connected \cap WebClients
    /\ connected' = connected \ {r}
    /\ Cancel(ByRequester("websocket", r))
    /\ UNCHANGED <<seen, usbClients, published, attached, phase>>

-----------------------------------------------------------------------------
(* Runtimes.                                                               *)

\* regiserUsbClient() and handleClientConnected(): while ownership is lost
\* the client is registered, but no snapshot or client list shows it.
HandleUsbClientConnected(c) ==
    /\ c \in UsbRuntimes \ seen
    /\ phase # "closed"
    /\ connected' = connected \cup {c}
    /\ seen' = seen \cup {c}
    /\ usbClients' = usbClients \cup {c}
    /\ published' = IF attached THEN published \cup {c} ELSE published
    /\ UNCHANGED <<tableVars, attached, phase, historyVars>>

\* The socket of a USB client is gone: unregiserUsbClient() and, if the
\* client was still registered, handleClientDisconnected().  The handler is
\* deaf while ownership is lost and once stopInternal() has unbound it.
HandleUsbClientDisconnected(c) ==
    /\ c \in connected \cap UsbRuntimes
    /\ connected' = connected \ {c}
    /\ usbClients' = usbClients \ {c}
    /\ IF c \in usbClients /\ attached /\ phase = "ready"
         THEN Cancel(ByClientId(c))
         ELSE UNCHANGED <<tableVars, historyVars>>
    /\ UNCHANGED <<seen, published, attached, phase>>

HandleWsAppConnected(c) ==
    /\ c \in WsRuntimes \ seen
    /\ phase = "ready"
    /\ connected' = connected \cup {c}
    /\ seen' = seen \cup {c}
    /\ published' = published \cup {c}
    /\ UNCHANGED <<tableVars, usbClients, attached, phase, historyVars>>

HandleWsAppDisconnected(c) ==
    /\ c \in connected \cap WsRuntimes
    /\ connected' = connected \ {c}
    /\ Cancel(ByClientId(c))
    /\ UNCHANGED <<seen, usbClients, published, attached, phase>>

-----------------------------------------------------------------------------
(* Requests and replies.                                                   *)

\* The runtimes sendMessageToRuntime() finds; stopInternal() drops the
\* WebSocket controller first, so WiFi apps are not found any more.
Reachable(c) ==
    \/ c \in usbClients
    \/ c \in connected \cap WsRuntimes /\ phase = "ready"

\* A request of requester r for runtime c; awaited for sendMessageWithReply,
\* not awaited for sendMessageWithoutReply and handleWebSocketDriverMessage.
\* A requester knows a runtime from a snapshot or a client list.  A request
\* for a runtime that is not found only fails the caller.
MakeRequest(r, c, id, awaited) ==
    [kind |-> IF r \in Controls THEN "control" ELSE "websocket",
     requesterId |-> r, originalId |-> id, clientId |-> c,
     awaited |-> awaited]

CanSend(r, c, awaited) ==
    /\ phase # "closed"
    /\ r \in connected
    /\ awaited => r \in Controls
    /\ c \in published
    /\ Reachable(c)
    /\ nextGlobalMessageId <= MaxRequests

\* The request enters the history under the id its route gets.
Record(request, outcome) ==
    LET g == nextGlobalMessageId
        Extend(f, v) == [h \in DOMAIN f \cup {g} |-> IF h = g THEN v ELSE f[h]]
    IN  /\ issued' = Extend(issued, request)
        /\ replies' = Extend(replies, 0)
        /\ promise' = Extend(promise, outcome)
        /\ UNCHANGED inbox

SendMessageToRuntime(r, c, id, awaited) ==
    /\ CanSend(r, c, awaited)
    /\ Add(MakeRequest(r, c, id, awaited))
    /\ Record(MakeRequest(r, c, id, awaited),
              IF awaited THEN "pending" ELSE "none")
    /\ UNCHANGED hostVars

\* websocketClient.sendMessage() throws: the route just added is taken out
\* again and the error reaches the caller.
SendToWsRuntimeFails(r, c, id, awaited) ==
    /\ c \in WsRuntimes
    /\ CanSend(r, c, awaited)
    /\ nextGlobalMessageId' = nextGlobalMessageId + 1
    /\ Record(MakeRequest(r, c, id, awaited),
              IF awaited THEN "rejected" ELSE "none")
    /\ UNCHANGED <<routes, hostVars>>

\* restoreInboundMessage(): a route is claimed only by the runtime it names.
MutRestoreAnyOrigin(c, g) == g \in Live
Restorable(c, g) == g \in Live /\ routes[g].clientId = c

\* What the requester of a claimed route receives: the original id again.
MutDeliverGlobalId(c, g) ==
    [gid |-> g, id |-> g, from |-> c]
Restored(c, g) ==
    [gid |-> g, id |-> routes[g].originalId, from |-> c]

\* A reply for a frontend needs the WebSocket controller.
Deliverable(g) == routes[g].kind = "control" \/ phase = "ready"

\* handleRuntimeMessage() for a message with id g from runtime c.  The
\* runtime answers whenever it likes, any number of times, and may use an id
\* it was never sent.  USB messages are ignored while ownership is lost and
\* after the events were unbound.  An unclaimed message is dropped.
HandleRuntimeMessage(c, g) ==
    /\ c \in connected
    /\ phase # "closed"
    /\ c \in UsbRuntimes => attached /\ phase = "ready"
    /\ Restorable(c, g)
    /\ Remove({g})
    /\ promise' = [promise EXCEPT ![g] =
                     IF routes[g].awaited THEN "resolved" ELSE @]
    /\ IF Deliverable(g)
         THEN /\ replies' = [replies EXCEPT ![g] = @ + 1]
              /\ inbox' = [inbox EXCEPT ![routes[g].requesterId] =
                             @ \cup {Restored(c, g)}]
         ELSE UNCHANGED <<replies, inbox>>
    /\ UNCHANGED <<issued, hostVars>>

-----------------------------------------------------------------------------
(* Ownership and shutdown.                                                 *)

\* handleLegacyOwnershipLost(): all routes are rejected and the USB clients
\* forgotten; their sockets, and the WiFi apps', close later.
HandleLegacyOwnershipLost ==
    /\ phase = "ready" /\ attached
    /\ attached' = FALSE
    /\ Cancel(Live)
    /\ usbClients' = {}
    /\ UNCHANGED <<connected, seen, published, phase>>

\* Reacquired: the next snapshot shows what registered in the meantime.
HandleLegacyOwnershipAttached ==
    /\ phase = "ready" /\ ~attached
    /\ attached' = TRUE
    /\ published' = published \cup usbClients
    /\ UNCHANGED <<tableVars, connected, seen, usbClients, phase, historyVars>>

\* stopInternal() up to its first await ...
StopBegin ==
    /\ phase = "ready"
    /\ phase' = "closing"
    /\ UNCHANGED <<tableVars, connected, seen, usbClients, published,
                   attached, historyVars>>

\* ... and after the WebSocket server, the control server and the physical
\* connector are closed: clearRuntimeState().  USB sockets end on their own.
StopEnd ==
    /\ phase = "closing"
    /\ phase' = "closed"
    /\ connected' = connected \cap UsbRuntimes
    /\ Cancel(Live)
    /\ UNCHANGED <<seen, usbClients, published, attached>>

Next ==
    \/ \E g \in Live : RouteTimeout(g)
    \/ \E r \in Requesters : HandleRequesterConnected(r)
    \/ \E r \in Controls : HandleControlDisconnected(r)
    \/ \E r \in WebClients : HandleDriverDisconnected(r)
    \/ \E c \in UsbRuntimes : HandleUsbClientConnected(c)
    \/ \E c \in UsbRuntimes : HandleUsbClientDisconnected(c)
    \/ \E c \in WsRuntimes : HandleWsAppConnected(c)
    \/ \E c \in WsRuntimes : HandleWsAppDisconnected(c)
    \/ \E r \in Requesters, c \in Runtimes, id \in OriginalIds, w \in BOOLEAN :
         SendMessageToRuntime(r, c, id, w)
    \/ \E r \in Requesters, c \in WsRuntimes, id \in OriginalIds,
          w \in BOOLEAN : SendToWsRuntimeFails(r, c, id, w)
    \/ \E c \in Runtimes, g \in 1..MaxRequests : HandleRuntimeMessage(c, g)
    \/ HandleLegacyOwnershipLost
    \/ HandleLegacyOwnershipAttached
    \/ StopBegin
    \/ StopEnd

\* Every route has a running timer, and Node runs expired timers.
Fairness == \A g \in 1..MaxRequests : WF_vars(RouteTimeout(g))

Spec == Init /\ [][Next]_vars /\ Fairness

-----------------------------------------------------------------------------
(* Properties.                                                             *)

GlobalIds == 1..(nextGlobalMessageId - 1)

DataTypeOK ==
    /\ nextGlobalMessageId \in Nat \ {0}
    /\ Live \subseteq GlobalIds
    /\ routes \in [Live -> Request]
    /\ issued \in [GlobalIds -> Request]
    /\ promise \in [GlobalIds -> {"none", "pending", "resolved", "rejected"}]
    /\ replies \in [GlobalIds -> Nat]
    /\ inbox \in [Requesters -> SUBSET [gid : GlobalIds, id : OriginalIds,
                                        from : Runtimes]]

ConnectionTypeOK ==
    /\ connected \subseteq seen
    /\ seen \subseteq Requesters \cup Runtimes
    /\ usbClients \subseteq UsbRuntimes \cap connected
    /\ published \subseteq Runtimes \cap seen
    /\ attached \in BOOLEAN
    /\ phase \in {"ready", "closing", "closed"}

\* Types, and what ties the variables together: routes and histories are
\* indexed by ids that were given out, a registered USB client has a live
\* socket and was seen.
TypeOK == DataTypeOK /\ ConnectionTypeOK

\* A request is answered at most once, whatever the runtimes send: late,
\* duplicated and invented replies find no route (take() is one-shot).
OneReplyPerRequest == \A g \in DOMAIN replies : replies[g] <= 1

\* A requester only receives answers to its own requests, from the runtime it
\* asked, and under the id it used: no reply leaks to another frontend even
\* when requesters use the same ids (rewriteOutboundMessageData and
\* restoreInboundMessage).
RepliesReachTheirRequester ==
    \A r \in Requesters : \A d \in inbox[r] :
        /\ issued[d.gid].requesterId = r
        /\ issued[d.gid].originalId = d.id
        /\ issued[d.gid].clientId = d.from

\* The promise of sendMessageWithReply is pending exactly as long as its
\* route is in the table: no cleanup path of the host forgets to settle it,
\* and none rejects a request that can still be answered.
PromisePendingIffRouted ==
    \A g \in DOMAIN promise :
        promise[g] = "pending" <=> g \in Live /\ routes[g].awaited

\* Until shutdown begins, both ends of a route are there: the requester is
\* connected and the runtime is one sendMessageToRuntime() still finds, even
\* though handleClientDisconnected is deaf while ownership is lost.
RouteEndsAreConnected ==
    phase = "ready" =>
        \A g \in Live : /\ routes[g].requesterId \in connected
                        /\ Reachable(routes[g].clientId)

\* A stopped host owes nobody an answer (stopInternal's clearRuntimeState).
ClosedHostOwesNothing ==
    phase = "closed" =>
        Live = {} /\ \A g \in DOMAIN promise : promise[g] # "pending"

\* The host implements the abstract request/reply service: a request whose
\* route is in the table is open, one that was handed a reply is answered,
\* and every other one was cancelled.  Steps of connections, ownership and
\* shutdown are steps of the service or leave it alone.
Question(g) == [requesterId |-> issued[g].requesterId,
                originalId |-> issued[g].originalId,
                clientId |-> issued[g].clientId]
Status(g) == IF g \in Live THEN "open"
             ELSE IF replies[g] > 0 THEN "answered" ELSE "cancelled"

Service == INSTANCE RequestReply WITH
              count <- nextGlobalMessageId - 1,
              asked <- [g \in DOMAIN issued |-> Question(g)],
              status <- [g \in DOMAIN issued |-> Status(g)],
              received <- inbox

ImplementsRequestReply == Service!Spec

PromiseIs(g, states) == g \in DOMAIN promise /\ promise[g] \in states

\* Every promise of sendMessageWithReply is settled eventually: if nothing
\* else does it, the route's timer (createTimer).
EveryPromiseSettles ==
    \A g \in 1..MaxRequests :
        PromiseIs(g, {"pending"}) ~> PromiseIs(g, {"resolved", "rejected"})
=============================================================================
