-------------------------- MODULE MemoizedQueries --------------------------
(***************************************************************************)
(* Memoized ListSession queries of the multiplexer daemon                  *)
(* (multiplexer/daemon/MemoizedQueryTable.ts and the paths of              *)
(* MultiplexerDaemonHost.ts that use it).                                  *)
(*                                                                         *)
(* A ListSession request carries no id.  The first one for a runtime is    *)
(* sent, the following ones wait for the same SessionList notification,    *)
(* which is broadcast to everybody and answers later requests for a while. *)
(* A query that stays unanswered is sent again every Validity ticks.       *)
(*                                                                         *)
(* A session list is abstracted to a version number that grows whenever    *)
(* the runtime's sessions change.  Date.now() is the age of an entry in    *)
(* ticks, capped at Validity + 1, after which ages are not told apart.     *)
(***************************************************************************)
EXTENDS Integers, Sequences

CONSTANTS
    Requesters,    \* controls and Driver frontends
    UsbRuntimes,   \* client ids of USB runtimes
    WsRuntimes,    \* client ids of WiFi runtimes
    Validity,      \* validityPeriodMs, in ticks
    MaxVersion,    \* bound: changes of a runtime's session list
    MaxWire        \* bound: notifications in flight from one runtime

ASSUME KindsDisjoint == UsbRuntimes \cap WsRuntimes = {}
ASSUME ValidityNat == Validity \in Nat

VARIABLES
    notifications,  \* runtime -> cached SessionList (version, age) or None
    pendingQueries, \* runtime -> age of the pending query's sentAt or None
    retryTimer,     \* runtime -> age of the armed retry timer or None
    attached,       \* the daemon owns the devices
    status,         \* runtime -> where its connection is
    asked,          \* runtime -> a query has reached it and is unanswered
    version,        \* runtime -> version of its session list
    wire,           \* runtime -> versions on their way to the daemon
    view,           \* history: newest answer a requester got per runtime
    waiting,        \* <<requester, runtime>> with an accepted, open request
    quiet           \* history: ticks since the last unanswered send or None

tableVars == <<notifications, pendingQueries, retryTimer>>
runtimeVars == <<asked, version, wire>>
requesterVars == <<view, waiting>>
vars == <<tableVars, attached, status, runtimeVars, requesterVars, quiet>>

Runtimes == UsbRuntimes \cup WsRuntimes
None == -1
NoNotification == [version |-> 0, age |-> None]

\* A runtime connects once under its id.  A "hidden" USB runtime connected
\* while ownership was lost and is in no snapshot; a "dying" one is still
\* registered although its socket is closing; a "dropped" one was forgotten
\* by handleLegacyOwnershipLost() before its socket ended.
Registered(c) == status[c] \in {"open", "dying"}

Init ==
    /\ notifications = [c \in Runtimes |-> NoNotification]
    /\ pendingQueries = [c \in Runtimes |-> None]
    /\ retryTimer = [c \in Runtimes |-> None]
    /\ attached = TRUE
    /\ status = [c \in Runtimes |-> "new"]
    /\ asked = [c \in Runtimes |-> FALSE]
    /\ version = [c \in Runtimes |-> 1]
    /\ wire = [c \in Runtimes |-> <<>>]
    /\ view = [r \in Requesters |-> [c \in Runtimes |-> 0]]
    /\ waiting = {}
    /\ quiet = [c \in Runtimes |-> None]

-----------------------------------------------------------------------------
(* The table.                                                              *)

\* getFreshNotification(): still valid at exactly the validity period.
IsFresh(c) ==
    notifications[c].age # None /\ notifications[c].age <= Validity

MutIsPending(c) == FALSE
IsPending(c) ==
    pendingQueries[c] # None /\ pendingQueries[c] <= Validity

\* clearPending() for the runtimes of S: the entry goes with its timer.
ClearPending(S) ==
    /\ pendingQueries' = [c \in Runtimes |->
                            IF c \in S THEN None ELSE pendingQueries[c]]
    /\ retryTimer' = [c \in Runtimes |->
                        IF c \in S THEN None ELSE retryTimer[c]]

\* clearClient() for one runtime, clear() for all of them.
ClearClients(S) ==
    /\ notifications' = [c \in Runtimes |->
                           IF c \in S THEN NoNotification ELSE notifications[c]]
    /\ ClearPending(S)

-----------------------------------------------------------------------------
(* Queries.                                                                *)

\* sendMessage() of a client: a socket that is closing drops it silently.
Send(c) ==
    /\ asked' = [asked EXCEPT ![c] = @ \/ status[c] = "open"]
    /\ quiet' = [quiet EXCEPT ![c] = 0]

QueryCached(r, c) ==
    /\ Registered(c) /\ IsFresh(c)
    /\ view' = [view EXCEPT ![r][c] = notifications[c].version]
    /\ waiting' = waiting \ {<<r, c>>}
    /\ UNCHANGED <<tableVars, attached, status, runtimeVars, quiet>>

QueryPending(r, c) ==
    /\ Registered(c) /\ ~IsFresh(c) /\ IsPending(c)
    /\ waiting' = waiting \cup {<<r, c>>}
    /\ UNCHANGED <<tableVars, attached, status, runtimeVars, view, quiet>>

\* isPending() drops an expired entry and its timer, markPending() and
\* setRetryTimer() make new ones.
QueryForward(r, c) ==
    /\ Registered(c) /\ ~IsFresh(c) /\ ~IsPending(c)
    /\ pendingQueries' = [pendingQueries EXCEPT ![c] = 0]
    /\ retryTimer' = [retryTimer EXCEPT ![c] = 0]
    /\ Send(c)
    /\ waiting' = waiting \cup {<<r, c>>}
    /\ UNCHANGED <<notifications, attached, status, version, wire, view>>

\* The send throws: handleSendFailure(), and the requester gets the error.
QueryFails(r, c) ==
    /\ status[c] = "dying" /\ ~IsFresh(c) /\ ~IsPending(c)
    /\ ClearPending({c})
    /\ UNCHANGED <<notifications, attached, status, runtimeVars,
                   requesterVars, quiet>>

\* The callback of createRetryTimer(): sent again and armed again ...
MutRetryOnce(c) ==
    /\ retryTimer[c] >= Validity
    /\ retryTimer' = [retryTimer EXCEPT ![c] = None]
    /\ pendingQueries' = [pendingQueries EXCEPT ![c] = None]
    /\ Send(c)
    /\ UNCHANGED <<notifications, attached, status, version, wire,
                   requesterVars>>
Retry(c) ==
    /\ retryTimer[c] >= Validity
    /\ retryTimer' = [retryTimer EXCEPT ![c] = 0]
    /\ pendingQueries' = [pendingQueries EXCEPT ![c] = IF @ = None THEN @ ELSE 0]
    /\ Send(c)
    /\ UNCHANGED <<notifications, attached, status, version, wire,
                   requesterVars>>

\* ... unless sending fails, which ends the query.
RetryFails(c) ==
    /\ retryTimer[c] >= Validity
    /\ status[c] = "dying"
    /\ ClearPending({c})
    /\ UNCHANGED <<notifications, attached, status, runtimeVars,
                   requesterVars, quiet>>

\* recordNotification() keeps the newest notification of a runtime.
MutRecordFirst(c) ==
    /\ notifications' = [notifications EXCEPT ![c] =
                           [version |-> IF @.age = None THEN Head(wire[c])
                                                        ELSE @.version,
                            age |-> 0]]
    /\ ClearPending({c})
RecordNotification(c) ==
    /\ notifications' = [notifications EXCEPT ![c] =
                           [version |-> Head(wire[c]), age |-> 0]]
    /\ ClearPending({c})

\* handleRuntimeMessage() for a SessionList: cached, then broadcast to every
\* frontend and control.  USB messages are ignored while ownership is lost.
HandleNotification(c) ==
    /\ wire[c] # <<>>
    /\ status[c] \in {"open", "dying", "hidden", "dropped"}
    /\ wire' = [wire EXCEPT ![c] = Tail(@)]
    /\ IF c \in UsbRuntimes /\ (~attached \/ ~Registered(c))
         THEN UNCHANGED <<tableVars, requesterVars, quiet>>
         ELSE /\ RecordNotification(c)
              /\ view' = [r \in Requesters |->
                            [view[r] EXCEPT ![c] = Head(wire[c])]]
              /\ waiting' = waiting \ (Requesters \X {c})
              /\ quiet' = [quiet EXCEPT ![c] = None]
    /\ UNCHANGED <<attached, status, asked, version>>

-----------------------------------------------------------------------------
(* Runtimes (external: the debugged app behind the socket).                *)

Emit(c, v) ==
    /\ Len(wire[c]) < MaxWire
    /\ wire' = [wire EXCEPT ![c] = Append(@, v)]

AnswerQuery(c) ==
    /\ asked[c] /\ status[c] = "open"
    /\ Emit(c, version[c])
    /\ asked' = [asked EXCEPT ![c] = FALSE]
    /\ UNCHANGED <<tableVars, attached, status, version, requesterVars, quiet>>

\* A runtime may ignore a query, for instance while it starts.
IgnoreQuery(c) ==
    /\ asked[c]
    /\ asked' = [asked EXCEPT ![c] = FALSE]
    /\ UNCHANGED <<tableVars, attached, status, version, wire, requesterVars,
                   quiet>>

\* A session opens or closes: the runtime announces the new list unasked.
SessionsChange(c) ==
    /\ status[c] \in {"open", "hidden"}
    /\ version[c] < MaxVersion
    /\ version' = [version EXCEPT ![c] = @ + 1]
    /\ Emit(c, version[c] + 1)
    /\ UNCHANGED <<tableVars, attached, status, asked, requesterVars, quiet>>

-----------------------------------------------------------------------------
(* Connections, ownership and time.                                        *)

Connect(c) ==
    /\ status[c] = "new"
    /\ status' = [status EXCEPT ![c] =
                    IF attached \/ c \in WsRuntimes THEN "open" ELSE "hidden"]
    /\ UNCHANGED <<tableVars, attached, runtimeVars, requesterVars, quiet>>

SocketFails(c) ==
    /\ status[c] = "open"
    /\ status' = [status EXCEPT ![c] = "dying"]
    /\ UNCHANGED <<tableVars, attached, runtimeVars, requesterVars, quiet>>

\* handleClientDisconnected() (deaf while ownership is lost) and
\* handleWebSocketClientDisconnected(): clearClient().
HandleDisconnected(c) ==
    /\ status[c] \in {"dying", "hidden", "dropped"}
    /\ status' = [status EXCEPT ![c] = "gone"]
    /\ wire' = [wire EXCEPT ![c] = <<>>]
    /\ waiting' = waiting \ (Requesters \X {c})
    /\ IF c \in WsRuntimes \/ (attached /\ Registered(c))
         THEN ClearClients({c})
         ELSE UNCHANGED tableVars
    /\ UNCHANGED <<attached, asked, version, view, quiet>>

\* handleLegacyOwnershipLost(): the table is emptied, USB clients are
\* forgotten, WiFi sockets are closed.
HandleOwnershipLost ==
    /\ attached
    /\ attached' = FALSE
    /\ ClearClients(Runtimes)
    /\ status' = [c \in Runtimes |->
                    IF ~Registered(c) THEN status[c]
                    ELSE IF c \in UsbRuntimes THEN "dropped" ELSE "dying"]
    /\ waiting' = waiting \ (Requesters \X UsbRuntimes)
    /\ quiet' = [c \in Runtimes |-> None]
    /\ UNCHANGED <<runtimeVars, view>>

HandleOwnershipAttached ==
    /\ ~attached
    /\ attached' = TRUE
    /\ status' = [c \in Runtimes |->
                    IF status[c] = "hidden" THEN "open" ELSE status[c]]
    /\ UNCHANGED <<tableVars, runtimeVars, requesterVars, quiet>>

Older(age) == IF age = None \/ age > Validity THEN age ELSE age + 1

Tick ==
    /\ notifications' = [c \in Runtimes |->
                           [notifications[c] EXCEPT !.age = Older(@)]]
    /\ pendingQueries' = [c \in Runtimes |-> Older(pendingQueries[c])]
    /\ retryTimer' = [c \in Runtimes |-> Older(retryTimer[c])]
    /\ quiet' = [c \in Runtimes |-> Older(quiet[c])]
    /\ UNCHANGED <<attached, status, runtimeVars, requesterVars>>

Next ==
    \/ \E r \in Requesters, c \in Runtimes :
         QueryCached(r, c) \/ QueryPending(r, c) \/ QueryForward(r, c)
           \/ QueryFails(r, c)
    \/ \E c \in Runtimes : Retry(c)
    \/ \E c \in Runtimes : RetryFails(c)
    \/ \E c \in Runtimes : HandleNotification(c)
    \/ \E c \in Runtimes : AnswerQuery(c) \/ IgnoreQuery(c)
    \/ \E c \in Runtimes : SessionsChange(c)
    \/ \E c \in Runtimes : Connect(c) \/ SocketFails(c)
    \/ \E c \in Runtimes : HandleDisconnected(c)
    \/ HandleOwnershipLost
    \/ HandleOwnershipAttached
    \/ Tick

\* Node runs expired timers and delivers socket events; a runtime that is
\* asked again and again answers some time; time passes.
Fairness ==
    /\ WF_vars(Tick)
    /\ \A c \in Runtimes :
         /\ WF_vars(Retry(c))
         /\ WF_vars(HandleNotification(c))
         /\ WF_vars(HandleDisconnected(c))
         /\ SF_vars(AnswerQuery(c))

Spec == Init /\ [][Next]_vars /\ Fairness

-----------------------------------------------------------------------------
(* Properties.                                                             *)

\* While the runtime's socket is open, a requester whose query was accepted
\* without an answer is waiting for a query that is still being retried.
WaitersAreServed ==
    \A w \in waiting :
        status[w[2]] = "open" => pendingQueries[w[2]] # None

\* However many requesters ask, a runtime is not sent a query within Validity
\* of the previous one unless that was answered or given up.
SendsAreSpaced ==
    [][\A c \in Runtimes :
         quiet'[c] = 0 /\ quiet[c] # 0
           => quiet[c] \in {None} \cup Validity..(Validity + 1)]_vars

\* No requester is ever shown an older session list of a runtime than it has
\* seen: a cached answer is never behind what was broadcast before.
ViewsNeverGoBack ==
    [][\A r \in Requesters, c \in Runtimes : view'[r][c] >= view[r][c]]_vars

\* An accepted query ends: with an answer, or because its runtime goes away.
EveryQueryEnds ==
    \A r \in Requesters, c \in Runtimes :
        <<r, c>> \in waiting ~> <<r, c>> \notin waiting
=============================================================================
