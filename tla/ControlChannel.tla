-------------------------- MODULE ControlChannel --------------------------
(***************************************************************************)
(* The control connection between a Connector and the daemon:              *)
(* client/MultiplexerDaemonClient.ts over MultiplexerControlTransport.ts,  *)
(* and daemon/MultiplexerControlServer.ts with one                         *)
(* MultiplexerControlConnection.ts per registered transport.               *)
(*                                                                         *)
(* A transport is a byte stream with two ends and a queue of frames in     *)
(* each direction.  end() half-closes: frames still arrive until the other *)
(* side closes or the 1 s timer destroys the socket.  A close may overtake *)
(* frames that are in flight (ECONNRESET).                                 *)
(*                                                                         *)
(* One client is modelled; what ensureDaemon() does to daemon processes is *)
(* in DaemonSpawn, here are its outcomes.  Its shutdown RPC uses the very  *)
(* client that waits for it: call(.., false) -> connectInternal(false)     *)
(* runs nested inside connectInternal(true).                               *)
(***************************************************************************)
EXTENDS Naturals, Sequences, FiniteSets

CONSTANTS
    Transports,   \* sockets; one that is closed serves for a new connection
    Calls,        \* calls of call(), each with an RPC id of its own
    Shutdown,     \* the call of sendDaemonShutdownRpc()
    None,         \* no transport
    MaxAttempts   \* MULTIPLEXER_CONNECT_MAX_ATTEMPTS

ASSUME NoneIsNoTransport == None \notin Transports
ASSUME ShutdownIsNoUserCall == Shutdown \notin Calls
ASSUME AttemptsPositive == MaxAttempts \in Nat \ {0}

VARIABLES
    status,    \* client: "disconnected", "connecting" or "connected"
    control,   \* client: controlTransport
    closed,    \* client: close() was called
    told,      \* client: the last connection event was "connected"
    call,      \* client: where each call is
    pc,        \* client: where connectInternal() is, or "idle"
    attempts,  \* client: the loop counters of connectInternal(), nested last
    tr,        \* transports: both ends, the client's listener, the frames
    daemon,    \* "up", "stopping" or "down"
    controls,  \* host.activeControls
    work       \* RPCs the host has not answered: <<transport, call>>

clientVars == <<status, control, closed, told, call, pc, attempts>>
daemonVars == <<daemon, controls, work>>
vars == <<clientVars, tr, daemonVars>>

AllCalls == Calls \cup {Shutdown}
Nested == Len(attempts) = 2
Fresh == [c |-> "closed", s |-> "closed", listener |-> "off", up |-> <<>>, down |-> <<>>]

Init ==
    /\ status = "disconnected" /\ control = None /\ closed = FALSE /\ told = FALSE
    /\ call = [c \in AllCalls |-> "new"]
    /\ pc = "idle" /\ attempts = <<>>
    /\ tr = [t \in Transports |-> Fresh]
    /\ daemon \in {"up", "down"} /\ controls = {} /\ work = {}

(***************************************************************************)
(* MultiplexerControlTransport                                             *)
(***************************************************************************)
\* send(): a frame is queued whole; parseFrames() cuts the byte stream into
\* the same frames again, in order.
Sent(frames, frame) == Append(frames, frame)
NextFrame(frames) == Head(frames)
\* end(): no more writes; what arrives is still read.
Ended(end) == IF end = "closed" THEN end ELSE "ended"
\* "end", "error" or "close" of the socket: the peer ended or closed it, or
\* the time-out of our own end() destroys it.
CloseArrives(mine, peer) == mine = "ended" \/ (mine # "closed" /\ peer \in {"ended", "closed"})

(***************************************************************************)
(* MultiplexerDaemonClient: connecting                                     *)
(***************************************************************************)
\* Mutant: the Connector is not told.
CloseSilently(ends) ==
    /\ control' = None /\ status' = "disconnected" /\ UNCHANGED told
    /\ tr' = [t \in Transports |->
                [ends[t] EXCEPT !.listener = IF @ = "normal" THEN "off" ELSE @,
                                !.c = IF t = control THEN Ended(@) ELSE @]]

\* closeSocket() and rejectAllPendingRpc(), on whatever the transport is by
\* now; "ends" are the transports as the caller leaves them.
closeSocket(ends) ==
    /\ control' = None /\ status' = "disconnected"
    /\ told' = (told /\ control = None)
    /\ tr' = [t \in Transports |->
                [ends[t] EXCEPT !.listener = IF @ = "normal" THEN "off" ELSE @,
                                !.c = IF t = control THEN Ended(@) ELSE @]]

Rejected == [c \in AllCalls |-> IF call[c] = "pending" THEN "failed" ELSE call[c]]

\* connectInternal() ends: the promise its callers share settles; the nested
\* one hands back to the manager that stops the daemon.
ConnectEnds(ok, calls) ==
    IF Nested
    THEN /\ pc' = IF ok THEN "ask" ELSE "stop"
         /\ attempts' = <<attempts[1]>>
         /\ call' = [calls EXCEPT ![Shutdown] = IF ok THEN "ready" ELSE "new"]
    ELSE /\ pc' = "idle" /\ attempts' = <<>>
         /\ call' = [c \in AllCalls |-> IF calls[c] # "waiting" THEN calls[c]
                                        ELSE IF ok THEN "ready" ELSE "failed"]

\* call() -> connect(): connected already, joining the attempt in flight,
\* refused after close(), or starting to connect.  close() forgets the
\* attempt in flight, so calls after it are refused.
Call(c) ==
    /\ call[c] = "new"
    /\ call' = [call EXCEPT ![c] = IF status = "connected" THEN "ready"
                                   ELSE IF closed THEN "failed" ELSE "waiting"]
    /\ IF status # "connected" /\ ~closed /\ pc = "idle"
       THEN pc' = "attempt" /\ attempts' = <<0>>
       ELSE UNCHANGED <<pc, attempts>>
    /\ UNCHANGED <<status, control, closed, told, tr, daemonVars>>

\* The loop of connectInternal(): a left-over transport is closed first.
Attempt ==
    LET n == attempts[Len(attempts)] IN
    /\ pc = "attempt"
    /\ CASE n < MaxAttempts /\ control # None ->
              closeSocket(tr) /\ call' = Rejected /\ UNCHANGED <<pc, attempts>>
         [] n < MaxAttempts /\ control = None /\ ~closed ->
              /\ status' = "connecting"
              /\ attempts' = [attempts EXCEPT ![Len(attempts)] = n + 1]
              /\ pc' = IF Nested THEN "register" ELSE "ensure"
              /\ UNCHANGED <<control, told, call, tr>>
         [] OTHER ->
              /\ status' = "disconnected" /\ ConnectEnds(FALSE, call)
              /\ UNCHANGED <<control, told, tr>>
    /\ UNCHANGED <<closed, daemonVars>>

\* A new socket, connected with the register request on its way, or refused
OpenTransport ==
    LET free == {t \in Transports : tr[t].c = "closed" /\ tr[t].s = "closed"}
        t == CHOOSE x \in free : TRUE IN
    /\ free # {}
    /\ tr' = [tr EXCEPT ![t] =
                IF daemon = "up"
                THEN [c |-> "open", s |-> "provisional", listener |-> "register",
                      up |-> <<"register">>, down |-> <<>>]
                ELSE [Fresh EXCEPT !.c = "open", !.listener = "register"]]
    /\ control' = t /\ pc' = "handshake"

\* Mutant: closed is not looked at again after ensureDaemon().
RegisterUnchecked ==
    /\ pc = "register" /\ OpenTransport
    /\ UNCHANGED <<status, closed, told, call, attempts, daemonVars>>

\* registerTransport(), up to where it waits for the end of the handshake
registerTransport ==
    /\ pc = "register"
    /\ IF closed THEN pc' = "attempt" /\ UNCHANGED <<tr, control>>
       ELSE OpenTransport
    /\ UNCHANGED <<status, closed, told, call, attempts, daemonVars>>

\* The register response: listen to messages and closes from now on.
Registered(t, ends) ==
    /\ tr' = [ends EXCEPT ![t].listener = "normal"]
    /\ status' = "connected" /\ told' = TRUE
    /\ ConnectEnds(TRUE, call)
    /\ UNCHANGED control

\* fail(): a handshake error, a time-out or a close before the response
fail(t, ends) ==
    /\ tr' = [ends EXCEPT ![t].listener = "off", ![t].c = "closed"]
    /\ control' = IF control = t THEN None ELSE control
    /\ status' = "disconnected" /\ pc' = "attempt"
    /\ UNCHANGED <<told, call, attempts>>

HandshakeTimeout(t) ==
    /\ tr[t].listener = "register" /\ fail(t, tr)
    /\ UNCHANGED <<closed, daemonVars>>

(***************************************************************************)
(* ensureDaemon(), and the daemon process as it sees it                    *)
(***************************************************************************)
\* The process ends: its sockets close, its state is gone.
ProcessGone ==
    /\ daemon' = "down" /\ controls' = {} /\ work' = {}
    /\ tr' = [t \in Transports |-> [tr[t] EXCEPT !.s = "closed", !.up = <<>>]]

\* true with the daemon reused or spawned, false (try again), an error, or
\* "replace-required".  A daemon that was stopped is gone for several turns
\* of the event loop before its successor answers: the client has seen the
\* ends of its sockets.
EnsureDaemon ==
    /\ pc = "ensure"
    /\ \/ daemon = "up" /\ pc' = "register" /\ UNCHANGED <<status, call, attempts, daemon>>
       \/ /\ daemon = "down" /\ \A t \in Transports : tr[t].c = "closed"
          /\ daemon' = "up" /\ pc' = "register" /\ UNCHANGED <<status, call, attempts>>
       \/ pc' = "attempt" /\ UNCHANGED <<status, call, attempts, daemon>>
       \/ status' = "disconnected" /\ ConnectEnds(FALSE, call) /\ UNCHANGED daemon
       \/ /\ daemon = "up" /\ pc' = "attempt" /\ attempts' = Append(attempts, 0)
          /\ UNCHANGED <<status, call, daemon>>
    /\ UNCHANGED <<control, closed, told, tr, controls, work>>

\* sendDaemonShutdownRpc() is answered, or not; then the process is awaited.
AskedToStop ==
    /\ pc = "ask" /\ call[Shutdown] \in {"done", "failed"}
    /\ pc' = "stop" /\ call' = [call EXCEPT ![Shutdown] = "new"]
    /\ UNCHANGED <<status, control, closed, told, attempts, tr, daemonVars>>

\* It is gone, or cannot be stopped: try again or give up.
Stopped ==
    /\ pc = "stop"
    /\ \/ daemon = "down" /\ pc' = "ensure" /\ UNCHANGED <<status, call, attempts>>
       \/ daemon # "down" /\ pc' = "attempt" /\ UNCHANGED <<status, call, attempts>>
       \/ daemon # "down" /\ status' = "disconnected" /\ ConnectEnds(FALSE, call)
    /\ UNCHANGED <<control, closed, told, tr, daemonVars>>

(***************************************************************************)
(* MultiplexerDaemonClient: calls                                          *)
(***************************************************************************)
\* sendRpc(), after connect() resolved: everything is checked again.  The
\* write is refused by a socket that was ended or destroyed.
sendRpc(c) ==
    /\ call[c] = "ready"
    /\ LET sent == ~closed /\ status = "connected" /\ control # None /\ tr[control].c = "open" IN
       /\ call' = [call EXCEPT ![c] = IF sent THEN "pending" ELSE "failed"]
       /\ tr' = IF sent THEN [tr EXCEPT ![control].up = Sent(@, c)] ELSE tr
    /\ UNCHANGED <<status, control, closed, told, pc, attempts, daemonVars>>

\* Mutant: no timer
NoRpcTimeout(c) == FALSE /\ UNCHANGED vars
\* The timer of sendRpc()
RpcTimeout(c) ==
    /\ call[c] = "pending"
    /\ call' = [call EXCEPT ![c] = "failed"]
    /\ UNCHANGED <<status, control, closed, told, pc, attempts, tr, daemonVars>>

\* A frame reaches the client.  Responses to calls that have ended are
\* ignored; without a listener everything is.
ClientReceives(t) ==
    LET frame == NextFrame(tr[t].down)
        rest == [tr EXCEPT ![t].down = Tail(@)] IN
    /\ tr[t].c # "closed" /\ tr[t].down # <<>>
    /\ CASE tr[t].listener = "register" /\ frame = "registered" -> Registered(t, rest)
         [] tr[t].listener = "register" /\ frame = "error" -> fail(t, rest)
         [] tr[t].listener = "normal" ->
              /\ call' = [c \in AllCalls |->
                            IF c = frame /\ call[c] = "pending" THEN "done" ELSE call[c]]
              /\ tr' = rest
              /\ UNCHANGED <<status, control, told, pc, attempts>>
         [] OTHER -> tr' = rest /\ UNCHANGED <<status, control, told, call, pc, attempts>>
    /\ UNCHANGED <<closed, daemonVars>>

\* The socket closes on the client's side.  handleTransportClose() is not bound to its
\* transport: it closes the one that is current.
ClientCloses(t) ==
    LET ends == [tr EXCEPT ![t].c = "closed", ![t].down = <<>>] IN
    /\ CloseArrives(tr[t].c, tr[t].s)
    /\ CASE tr[t].listener = "register" -> fail(t, ends)
         [] tr[t].listener = "normal" ->
              closeSocket(ends) /\ call' = Rejected /\ UNCHANGED <<pc, attempts>>
         [] OTHER -> tr' = ends /\ UNCHANGED <<status, control, told, call, pc, attempts>>
    /\ UNCHANGED <<closed, daemonVars>>

\* close()
Close ==
    /\ ~closed /\ closed' = TRUE
    /\ closeSocket(tr) /\ call' = Rejected
    /\ UNCHANGED <<pc, attempts, daemonVars>>

(***************************************************************************)
(* MultiplexerControlServer and its connections                            *)
(***************************************************************************)
\* Mutant: the connection is registered whether the response was sent or not.
HandshakeUnchecked(t) ==
    /\ tr[t].s \in {"provisional", "ended"} /\ tr[t].up # <<>>
    /\ tr' = [tr EXCEPT ![t].s = "registered", ![t].up = Tail(@),
                        ![t].down = Sent(@, "registered")]
    /\ controls' = controls \cup {t}
    /\ UNCHANGED <<clientVars, daemon, work>>

\* handleSocket(): the register request, answered and announced to the host;
\* a socket that was ended cannot send, and is destroyed.
Handshake(t) ==
    /\ tr[t].s \in {"provisional", "ended"} /\ tr[t].up # <<>>
    /\ IF tr[t].s = "provisional"
       THEN /\ tr' = [tr EXCEPT ![t].s = "registered", ![t].up = Tail(@),
                                ![t].down = Sent(@, "registered")]
            /\ controls' = controls \cup {t}
       ELSE tr' = [tr EXCEPT ![t].s = "closed", ![t].up = <<>>] /\ UNCHANGED controls
    /\ UNCHANGED <<clientVars, daemon, work>>

\* handshakeTimer
HandshakeExpires(t) ==
    /\ tr[t].s = "provisional"
    /\ tr' = [tr EXCEPT ![t].s = "ended", ![t].down = Sent(@, "error")]
    /\ UNCHANGED <<clientVars, daemonVars>>

\* dispatchRpc(): the host works on it ...
Dispatch(t) ==
    /\ tr[t].s = "registered" /\ tr[t].up # <<>>
    /\ tr' = [tr EXCEPT ![t].up = Tail(@)]
    /\ work' = work \cup {<<t, NextFrame(tr[t].up)>>}
    /\ UNCHANGED <<clientVars, daemon, controls>>

\* ... and answers in any order; send() of a closed connection does nothing.
Respond(t, c) ==
    /\ <<t, c>> \in work /\ work' = work \ {<<t, c>>}
    /\ tr' = IF tr[t].s = "registered" THEN [tr EXCEPT ![t].down = Sent(@, c)] ELSE tr
    /\ UNCHANGED <<clientVars, daemon, controls>>

\* The socket closes on the server's side; unregisterConnection() if it was
\* a control.  The answers owed to it have nowhere to go.
ServerCloses(t) ==
    /\ CloseArrives(tr[t].s, tr[t].c)
    /\ tr' = [tr EXCEPT ![t].s = "closed", ![t].up = <<>>]
    /\ controls' = controls \ {t}
    /\ work' = {w \in work : w[1] # t}
    /\ UNCHANGED <<clientVars, daemon>>

\* stop(): provisional transports and connections are ended.
Stop ==
    /\ daemon = "up" /\ daemon' = "stopping"
    /\ tr' = [t \in Transports |->
                [tr[t] EXCEPT !.s = Ended(@)]]
    /\ controls' = {} /\ work' = {}
    /\ UNCHANGED clientVars

\* The process exits after stop(), is killed, or crashes.
Die == daemon # "down" /\ ProcessGone /\ UNCHANGED clientVars

-----------------------------------------------------------------------------
ClientStep ==
    \/ Attempt \/ registerTransport \/ EnsureDaemon \/ AskedToStop \/ Stopped
    \/ \E c \in AllCalls : sendRpc(c)

Next ==
    \/ \E c \in Calls : Call(c)
    \/ ClientStep \/ Close
    \/ \E c \in AllCalls : RpcTimeout(c)
    \/ \E t \in Transports :
         \/ HandshakeTimeout(t) \/ ClientReceives(t) \/ ClientCloses(t)
         \/ Handshake(t) \/ HandshakeExpires(t) \/ Dispatch(t) \/ ServerCloses(t)
         \/ \E c \in AllCalls : Respond(t, c)
    \/ Stop \/ Die

\* Node runs the client's continuations, timers and socket events; the daemon
\* sees its sockets close.  Nothing obliges the host to answer.
Fairness ==
    /\ WF_vars(ClientStep)
    /\ \A c \in AllCalls : WF_vars(RpcTimeout(c))
    /\ \A t \in Transports :
         WF_vars(HandshakeTimeout(t)) /\ WF_vars(ClientCloses(t)) /\ WF_vars(ServerCloses(t))

Spec == Init /\ [][Next]_vars /\ Fairness

-----------------------------------------------------------------------------
\* Until it is closed, a client that says "connected" has a transport and its
\* Connector knows; and what the Connector was told is true of the transport
\* that is current: messages and the close will reach it.
ConnectionIsConsistent ==
    ~closed =>
        /\ status = "connected" => told /\ control # None
        /\ told => control # None /\ tr[control].listener = "normal"

\* The host has a control exactly for every registered connection, and a
\* server that was stopped registers nobody, whatever was in flight.
HostKnowsItsControls ==
    /\ controls = {t \in Transports : tr[t].s = "registered"}
    /\ daemon # "up" => controls = {}

\* Every call() is settled: lost answers, dying daemons, replaced transports
\* and the nested shutdown call included.
EveryCallEnds ==
    \A c \in AllCalls :
        (call[c] \in {"waiting", "ready", "pending"}) ~> (call[c] \in {"new", "done", "failed"})

\* After close() every transport is closed in the end and the host has no
\* control of this client, whatever registration was in flight.
ClosedClientLetsGo ==
    closed ~> [](\A t \in Transports : tr[t].c = "closed" /\ t \notin controls)
=============================================================================
