----------------------- MODULE ControlChannelProofs -----------------------
(***************************************************************************)
(* Proofs about ControlChannel, for any number of transports, calls and    *)
(* connection attempts.                                                    *)
(***************************************************************************)
EXTENDS ControlChannel, TLAPS

Frames == Seq(AllCalls \cup {"register", "registered", "error"})

Sockets == [c : {"open", "ended", "closed"},
            s : {"provisional", "registered", "ended", "closed"},
            listener : {"register", "normal", "off"},
            up : Frames, down : Frames]
CallStates == [AllCalls -> {"new", "waiting", "ready", "pending", "done", "failed"}]

\* The types of the transports and of the client's fields.
TypeOK ==
    /\ tr \in [Transports -> Sockets]
    /\ control \in Transports \cup {None}
    /\ call \in CallStates
    /\ closed \in BOOLEAN /\ told \in BOOLEAN

\* A server that is not up has no socket it could still register.
ServerInv ==
    /\ HostKnowsItsControls
    /\ daemon # "up" => \A t \in Transports : tr[t].s # "provisional"

\* Until close(), only the current transport has a listener: the handshake's
\* while connectInternal() waits for it, the normal one afterwards.  A
\* transport is left from before only where the daemon it led to is down, and
\* then it keeps ensureDaemon() from going on until its end is seen.
ClientInv ==
    ~closed =>
        /\ \A t \in Transports : tr[t].listener = "register" => control = t /\ pc = "handshake"
        /\ \A t \in Transports : tr[t].listener = "normal" => control = t
        /\ pc = "handshake" => control # None /\ tr[control].listener = "register"
        /\ control # None => tr[control].c # "closed" /\ tr[control].listener # "off"
        /\ pc = "register" => control = None
        /\ pc = "ensure" => control = None \/ daemon = "down"
        /\ ConnectionIsConsistent

IInv == TypeOK /\ ServerInv /\ ClientInv

\* Queueing a frame and taking one off keep the queue's type.
LEMMA QueueTypes ==
    ASSUME NEW q \in Frames
    PROVE  /\ \A f \in AllCalls \cup {"register", "registered", "error"} : Append(q, f) \in Frames
           /\ q # <<>> => Tail(q) \in Frames
           /\ <<>> \in Frames
           /\ <<"register">> \in Frames
  BY DEF Frames

\* closeSocket() leaves no normal listener and touches no server's end.
LEMMA SocketClosed ==
    ASSUME TypeOK, NEW ends \in [Transports -> Sockets], closeSocket(ends)
    PROVE  /\ tr' \in [Transports -> Sockets]
           /\ control' = None /\ status' = "disconnected"
           /\ told' \in BOOLEAN /\ (told' => told /\ control = None)
           /\ \A t \in Transports :
                 /\ tr'[t].s = ends[t].s
                 /\ tr'[t].listener # "normal"
                 /\ tr'[t].listener = "register" => ends[t].listener = "register"
<1>1. tr' \in [Transports -> Sockets]
  BY ZenonT(60) DEF closeSocket, Ended, Sockets
<1>2. \A t \in Transports :
         /\ tr'[t].s = ends[t].s
         /\ tr'[t].listener # "normal"
         /\ tr'[t].listener = "register" => ends[t].listener = "register"
  BY Zenon DEF closeSocket, Sockets
<1>3. told' \in BOOLEAN /\ (told' => told /\ control = None)
  BY Zenon DEF closeSocket, TypeOK
<1> QED
  BY <1>1, <1>2, <1>3, Zenon DEF closeSocket

\* A settled connectInternal() leaves the calls typed and is past connecting.
LEMMA ConnectEnded ==
    ASSUME NEW ok \in BOOLEAN, NEW calls \in CallStates, ConnectEnds(ok, calls)
    PROVE  call' \in CallStates /\ pc' \in {"ask", "stop", "idle"}
  BY DEF ConnectEnds, CallStates, AllCalls

\* A new connection takes a transport that is closed at both ends.
LEMMA TransportOpened ==
    ASSUME TypeOK, OpenTransport
    PROVE  \E t \in Transports, u \in Sockets :
              /\ tr[t].c = "closed" /\ tr[t].s = "closed"
              /\ tr' = [tr EXCEPT ![t] = u] /\ control' = t /\ pc' = "handshake"
              /\ u.c = "open" /\ u.listener = "register" /\ u.s \in {"provisional", "closed"}
              /\ u.s = "provisional" => daemon = "up"
<1> DEFINE free == {t \in Transports : tr[t].c = "closed" /\ tr[t].s = "closed"}
           t == CHOOSE x \in free : TRUE
           u == IF daemon = "up"
                THEN [c |-> "open", s |-> "provisional", listener |-> "register",
                      up |-> <<"register">>, down |-> <<>>]
                ELSE [Fresh EXCEPT !.c = "open", !.listener = "register"]
<1>1. free # {} /\ tr' = [tr EXCEPT ![t] = u] /\ control' = t /\ pc' = "handshake"
  BY DEF OpenTransport
<1>2. t \in free
  BY <1>1
<1>3. <<>> \in Frames /\ <<"register">> \in Frames
  BY DEF Frames
<1>4. u \in Sockets /\ u.c = "open" /\ u.listener = "register" /\ u.s \in {"provisional", "closed"}
  BY <1>3, Zenon DEF Fresh, Sockets
<1>5. u.s = "provisional" => daemon = "up"
  BY DEF Fresh
<1> QED
  BY <1>1, <1>2, <1>4, <1>5, Zenon

\* fail() ends the client's side of one transport.
LEMMA SocketFailed ==
    ASSUME NEW ends \in [Transports -> Sockets], NEW t \in Transports, fail(t, ends)
    PROVE  /\ tr' \in [Transports -> Sockets]
           /\ tr'[t].listener = "off" /\ tr'[t].s = ends[t].s
           /\ \A u \in Transports \ {t} : tr'[u] = ends[u]
<1>1. tr' = [ends EXCEPT ![t] = [ends[t] EXCEPT !.listener = "off", !.c = "closed"]]
  BY Zenon DEF fail
<1>2. ends[t] \in Sockets
  OBVIOUS
<1> DEFINE e == [ends[t] EXCEPT !.listener = "off", !.c = "closed"]
<1>3. e \in Sockets /\ e.listener = "off" /\ e.s = ends[t].s
  BY <1>2, Zenon DEF Sockets
<1> HIDE DEF e
<1>4. tr' = [ends EXCEPT ![t] = e]
  BY <1>1 DEF e
<1> QED
  BY <1>3, <1>4

\* A frame is taken off its queue; what else happens depends on the listener.
LEMMA FrameReceived ==
    ASSUME TypeOK, NEW t \in Transports, ClientReceives(t)
    PROVE  /\ UNCHANGED <<closed, daemon, controls>>
           /\ tr' \in [Transports -> Sockets] /\ call' \in CallStates
           /\ tr'[t].s = tr[t].s /\ \A u \in Transports \ {t} : tr'[u] = tr[u]
           /\ \/ /\ tr[t].listener = "register" /\ tr'[t].listener = "normal" /\ tr'[t].c = tr[t].c
                 /\ status' = "connected" /\ told' = TRUE /\ UNCHANGED control
                 /\ pc' \in {"ask", "stop", "idle"}
              \/ /\ tr[t].listener = "register" /\ tr'[t].listener = "off"
                 /\ control' = IF control = t THEN None ELSE control
                 /\ status' = "disconnected" /\ pc' = "attempt" /\ UNCHANGED told
              \/ /\ tr'[t].listener = tr[t].listener /\ tr'[t].c = tr[t].c
                 /\ UNCHANGED <<status, control, told, pc>>
<1> DEFINE frame == NextFrame(tr[t].down)
           r == [tr[t] EXCEPT !.down = Tail(@)]
           rest == [tr EXCEPT ![t] = r]
<1>1. r \in Sockets /\ r.s = tr[t].s /\ r.c = tr[t].c /\ r.listener = tr[t].listener
  <2>1. tr[t] \in Sockets /\ tr[t].down \in Frames /\ tr[t].down # <<>>
    BY DEF ClientReceives, TypeOK, Sockets
  <2>2. Tail(tr[t].down) \in Frames
    BY <2>1, QueueTypes
  <2> QED
    BY <2>1, <2>2, Zenon DEF Sockets
<1>2. /\ UNCHANGED <<closed, daemonVars>>
      /\ \/ tr[t].listener = "register" /\ Registered(t, rest)
         \/ tr[t].listener = "register" /\ fail(t, rest)
         \/ /\ tr' = rest /\ UNCHANGED <<status, control, told, pc>>
            /\ call' = [c \in AllCalls |->
                          IF c = frame /\ call[c] = "pending" THEN "done" ELSE call[c]]
         \/ tr' = rest /\ UNCHANGED <<status, control, told, call, pc>>
  BY Zenon DEF ClientReceives
<1>3. UNCHANGED <<closed, daemon, controls>>
  BY <1>2 DEF daemonVars
<1> HIDE DEF r, frame
<1>4. /\ rest \in [Transports -> Sockets] /\ rest[t] = r
      /\ \A u \in Transports \ {t} : rest[u] = tr[u]
  BY <1>1 DEF TypeOK
<1> HIDE DEF rest
<1>5. CASE tr[t].listener = "register" /\ Registered(t, rest)
  <2>1. call' \in CallStates /\ pc' \in {"ask", "stop", "idle"}
    BY <1>5, ConnectEnded, Zenon DEF Registered, TypeOK
  <2> DEFINE e == [r EXCEPT !.listener = "normal"]
  <2>2. e \in Sockets /\ e.listener = "normal" /\ e.s = r.s /\ e.c = r.c
    BY <1>1 DEF Sockets
  <2>3. tr' = [rest EXCEPT ![t] = e]
    BY <1>4, <1>5 DEF Registered
  <2> HIDE DEF e
  <2>4. tr' \in [Transports -> Sockets] /\ tr'[t] = e /\ \A u \in Transports \ {t} : tr'[u] = tr[u]
    BY <1>4, <2>2, <2>3
  <2> QED
    BY <1>1, <1>3, <1>5, <2>1, <2>2, <2>4, Zenon DEF Registered
<1>6. CASE tr[t].listener = "register" /\ fail(t, rest)
  <2>1. /\ tr' \in [Transports -> Sockets] /\ tr'[t].listener = "off" /\ tr'[t].s = rest[t].s
        /\ \A u \in Transports \ {t} : tr'[u] = rest[u]
    BY <1>4, <1>6, SocketFailed
  <2> QED
    BY <1>1, <1>3, <1>4, <1>6, <2>1 DEF fail, TypeOK
<1>7. CASE /\ tr' = rest /\ UNCHANGED <<status, control, told, pc>>
           /\ call' = [c \in AllCalls |->
                         IF c = frame /\ call[c] = "pending" THEN "done" ELSE call[c]]
  <2>1. call' \in CallStates
    BY <1>7 DEF CallStates, TypeOK
  <2> QED
    BY <1>1, <1>3, <1>4, <1>7, <2>1
<1>8. CASE tr' = rest /\ UNCHANGED <<status, control, told, call, pc>>
  BY <1>1, <1>3, <1>4, <1>8 DEF TypeOK
<1> QED
  BY <1>2, <1>5, <1>6, <1>7, <1>8, Zenon

\* The calls that closing rejects stay typed.
LEMMA RejectedTypes == call \in CallStates => Rejected \in CallStates
  BY DEF Rejected, CallStates

\* Every step keeps the types.
LEMMA TypePreserved == TypeOK /\ [Next]_vars => TypeOK'
<1> SUFFICES ASSUME TypeOK, [Next]_vars PROVE TypeOK'
  OBVIOUS
<1> USE NoneIsNoTransport DEF TypeOK, Sockets, CallStates, clientVars, daemonVars
<1>1. ASSUME NEW c \in Calls, Call(c) PROVE TypeOK'
  BY <1>1, QueueTypes, Zenon DEF Call
<1>2. CASE Attempt
  <2> DEFINE n == attempts[Len(attempts)]
  <2>1. CASE n < MaxAttempts /\ control # None
    <3>1. closeSocket(tr) /\ call' = Rejected
      BY <1>2, <2>1, Zenon DEF Attempt
    <3> QED
      BY <1>2, <2>1, <3>1, SocketClosed, RejectedTypes DEF Attempt
  <2>2. CASE n < MaxAttempts /\ control = None /\ ~closed
    BY <1>2, <2>2 DEF Attempt
  <2>3. CASE ~(n < MaxAttempts /\ control # None) /\ ~(n < MaxAttempts /\ control = None /\ ~closed)
    <3>1. ConnectEnds(FALSE, call) /\ UNCHANGED <<control, told, tr>>
      BY <1>2, <2>3, Zenon DEF Attempt
    <3> QED
      BY <1>2, <3>1, ConnectEnded, Zenon DEF Attempt
  <2> QED
    BY <2>1, <2>2, <2>3
<1>3. CASE registerTransport
  <2>1. CASE OpenTransport
    BY <1>3, <2>1, TransportOpened DEF registerTransport
  <2>2. CASE UNCHANGED <<tr, control>>
    BY <1>3, <2>2 DEF registerTransport
  <2> QED
    BY <1>3, <2>1, <2>2 DEF registerTransport
<1>4. CASE EnsureDaemon
  BY <1>4, QueueTypes DEF EnsureDaemon, ConnectEnds
<1>5. CASE AskedToStop
  BY <1>5, QueueTypes, Zenon DEF AskedToStop
<1>6. CASE Stopped
  BY <1>6, QueueTypes DEF Stopped, ConnectEnds
<1>7. ASSUME NEW c \in AllCalls, sendRpc(c) PROVE TypeOK'
  BY <1>7, QueueTypes, ZenonT(60) DEF sendRpc, Sent
<1>8. CASE Close
  BY <1>8, QueueTypes, ZenonT(60) DEF Close, closeSocket, Rejected, Ended
<1>9. ASSUME NEW c \in AllCalls, RpcTimeout(c) PROVE TypeOK'
  BY <1>9, QueueTypes DEF RpcTimeout
<1>10. ASSUME NEW t \in Transports, HandshakeTimeout(t) PROVE TypeOK'
  <2>1. fail(t, tr)
    BY <1>10 DEF HandshakeTimeout
  <2> HIDE DEF Sockets
  <2>2. tr' \in [Transports -> Sockets]
    BY <2>1, SocketFailed
  <2> QED
    BY <1>10, <2>2 DEF HandshakeTimeout, fail
<1>11. ASSUME NEW t \in Transports, ClientReceives(t) PROVE TypeOK'
  BY <1>11, FrameReceived, Zenon
<1>12. ASSUME NEW t \in Transports, ClientCloses(t) PROVE TypeOK'
  <2> DEFINE ends == [tr EXCEPT ![t].c = "closed", ![t].down = <<>>]
  <2>0. ends \in [Transports -> Sockets]
    <3>1. <<>> \in Frames
      BY DEF Frames
    <3> QED
      BY <3>1, ZenonT(60)
  <2>1. CASE tr[t].listener = "register"
    <3>1. fail(t, ends) /\ UNCHANGED closed
      BY <1>12, <2>1 DEF ClientCloses
    <3> QED
      BY <2>0, <3>1, SocketFailed DEF fail
  <2>2. CASE tr[t].listener = "normal"
    <3>1. closeSocket(ends) /\ call' = Rejected /\ UNCHANGED closed
      BY <1>12, <2>2 DEF ClientCloses
    <3> QED
      BY <2>0, <3>1, SocketClosed, RejectedTypes, Zenon
  <2>3. CASE tr[t].listener \notin {"register", "normal"}
    <3>1. tr' = ends /\ UNCHANGED <<control, told, call, closed>>
      BY <1>12, <2>3 DEF ClientCloses
    <3> QED
      BY <2>0, <3>1
  <2> QED
    BY <2>1, <2>2, <2>3
<1>13. ASSUME NEW t \in Transports, Handshake(t) PROVE TypeOK'
  BY <1>13, QueueTypes DEF Handshake, Sent
<1>14. ASSUME NEW t \in Transports, HandshakeExpires(t) PROVE TypeOK'
  BY <1>14, QueueTypes, ZenonT(60) DEF HandshakeExpires, Sent
<1>15. ASSUME NEW t \in Transports, Dispatch(t) PROVE TypeOK'
  BY <1>15, QueueTypes, ZenonT(60) DEF Dispatch
<1>16. ASSUME NEW t \in Transports, ServerCloses(t) PROVE TypeOK'
  <2> DEFINE e == [tr[t] EXCEPT !.s = "closed", !.up = <<>>]
  <2>1. e \in Sockets
    BY QueueTypes, Zenon
  <2>2. tr' = [tr EXCEPT ![t] = e]
    BY <1>16, Zenon DEF ServerCloses
  <2> HIDE DEF e, Sockets
  <2>3. tr' \in [Transports -> Sockets]
    BY <2>1, <2>2
  <2> QED
    BY <1>16, <2>3 DEF ServerCloses
<1>17. ASSUME NEW t \in Transports, NEW c \in AllCalls, Respond(t, c) PROVE TypeOK'
  BY <1>17, QueueTypes, ZenonT(60) DEF Respond, Sent
<1>18. CASE Stop
  BY <1>18, QueueTypes DEF Stop, Ended
<1>19. CASE Die
  BY <1>19, QueueTypes, Zenon DEF Die, ProcessGone
<1>20. CASE UNCHANGED vars
  BY <1>20, QueueTypes DEF vars
<1> QED
  BY <1>1, <1>2, <1>3, <1>4, <1>5, <1>6, <1>7, <1>8, <1>9, <1>10, <1>11,
     <1>12, <1>13, <1>14, <1>15, <1>16, <1>17, <1>18, <1>19, <1>20, Zenon
     DEF Next, ClientStep

\* Every step keeps the host and its server agreed.
LEMMA ServerPreserved == TypeOK /\ ServerInv /\ [Next]_vars => ServerInv'
<1> SUFFICES ASSUME TypeOK /\ ServerInv, [Next]_vars PROVE ServerInv'
  OBVIOUS
<1> USE NoneIsNoTransport DEF TypeOK, Sockets, ServerInv, HostKnowsItsControls, clientVars, daemonVars
<1>1. ASSUME NEW c \in Calls, Call(c) PROVE ServerInv'
  BY <1>1 DEF Call
<1>2. CASE Attempt
  <2>1. CASE closeSocket(tr)
    BY <1>2, <2>1, SocketClosed DEF Attempt
  <2>2. CASE UNCHANGED tr
    BY <1>2, <2>2 DEF Attempt
  <2> QED
    BY <1>2, <2>1, <2>2, Zenon DEF Attempt
<1>3. CASE registerTransport
  <2>1. CASE OpenTransport
    BY <1>3, <2>1, TransportOpened DEF registerTransport
  <2>2. CASE UNCHANGED <<tr, control>>
    BY <1>3, <2>2 DEF registerTransport
  <2> QED
    BY <1>3, <2>1, <2>2 DEF registerTransport
<1>4. CASE EnsureDaemon
  BY <1>4 DEF EnsureDaemon, ConnectEnds
<1>5. CASE AskedToStop
  BY <1>5 DEF AskedToStop
<1>6. CASE Stopped
  BY <1>6 DEF Stopped, ConnectEnds
<1>7. ASSUME NEW c \in AllCalls, sendRpc(c) PROVE ServerInv'
  BY <1>7 DEF sendRpc, Sent
<1>8. CASE Close
  BY <1>8, Zenon DEF Close, closeSocket, Rejected, Ended
<1>9. ASSUME NEW c \in AllCalls, RpcTimeout(c) PROVE ServerInv'
  BY <1>9 DEF RpcTimeout
<1>10. ASSUME NEW t \in Transports, HandshakeTimeout(t) PROVE ServerInv'
  BY <1>10 DEF HandshakeTimeout, fail
<1>11. ASSUME NEW t \in Transports, ClientReceives(t) PROVE ServerInv'
  <2>1. UNCHANGED <<daemon, controls>> /\ \A u \in Transports : tr'[u].s = tr[u].s
    BY <1>11, FrameReceived, Zenon
  <2> QED
    BY <2>1
<1>12. ASSUME NEW t \in Transports, ClientCloses(t) PROVE ServerInv'
  <2>1. \A u \in Transports : tr'[u].s = tr[u].s
    <3> DEFINE ends == [tr EXCEPT ![t].c = "closed", ![t].down = <<>>]
    <3>1. ends \in [Transports -> Sockets] /\ \A u \in Transports : ends[u].s = tr[u].s
      <4>1. <<>> \in Frames
        BY DEF Frames
      <4> QED
        BY <4>1, ZenonT(60)
    <3>2. CASE closeSocket(ends)
      BY <3>1, <3>2, SocketClosed, Zenon
    <3>3. CASE tr' = ends \/ tr' = [ends EXCEPT ![t].listener = "off", ![t].c = "closed"]
      BY <3>1, <3>3 DEF Sockets
    <3> QED
      BY <1>12, <3>2, <3>3 DEF ClientCloses, fail
  <2> QED
    BY <1>12, <2>1 DEF ClientCloses
<1>13. ASSUME NEW t \in Transports, Handshake(t) PROVE ServerInv'
  BY <1>13 DEF Handshake, Sent
<1>14. ASSUME NEW t \in Transports, HandshakeExpires(t) PROVE ServerInv'
  BY <1>14 DEF HandshakeExpires, Sent
<1>15. ASSUME NEW t \in Transports, Dispatch(t) PROVE ServerInv'
  BY <1>15 DEF Dispatch
<1>16. ASSUME NEW t \in Transports, ServerCloses(t) PROVE ServerInv'
  BY <1>16 DEF ServerCloses
<1>17. ASSUME NEW t \in Transports, NEW c \in AllCalls, Respond(t, c) PROVE ServerInv'
  BY <1>17 DEF Respond, Sent
<1>18. CASE Stop
  BY <1>18 DEF Stop, Ended
<1>19. CASE Die
  BY <1>19, Zenon DEF Die, ProcessGone
<1>20. CASE UNCHANGED vars
  BY <1>20 DEF vars
<1> QED
  BY <1>1, <1>2, <1>3, <1>4, <1>5, <1>6, <1>7, <1>8, <1>9, <1>10, <1>11,
     <1>12, <1>13, <1>14, <1>15, <1>16, <1>17, <1>18, <1>19, <1>20, Zenon
     DEF Next, ClientStep

\* Every step keeps the client's view of its transport right.
LEMMA ClientPreserved == TypeOK /\ ClientInv /\ [Next]_vars => ClientInv'
<1> SUFFICES ASSUME TypeOK /\ ClientInv, [Next]_vars PROVE ClientInv'
  OBVIOUS
<1> USE NoneIsNoTransport DEF TypeOK, Sockets, ClientInv, ConnectionIsConsistent, clientVars, daemonVars
<1>1. ASSUME NEW c \in Calls, Call(c) PROVE ClientInv'
  BY <1>1 DEF Call
<1>2. CASE Attempt
  <2> DEFINE n == attempts[Len(attempts)]
  <2>1. CASE n < MaxAttempts /\ control # None
    <3>1. closeSocket(tr) /\ UNCHANGED <<pc, closed>>
      BY <1>2, <2>1, Zenon DEF Attempt
    <3> QED
      BY <1>2, <2>1, <3>1, SocketClosed DEF Attempt
  <2>2. CASE n < MaxAttempts /\ control = None /\ ~closed
    BY <1>2, <2>2 DEF Attempt
  <2>3. CASE ~(n < MaxAttempts /\ control # None) /\ ~(n < MaxAttempts /\ control = None /\ ~closed)
    <3>1. ConnectEnds(FALSE, call) /\ status' = "disconnected" /\ UNCHANGED <<control, told, tr, closed, daemon>>
      BY <1>2, <2>3, Zenon DEF Attempt
    <3>2. pc' \in {"ask", "stop", "idle"}
      BY <3>1, ConnectEnded, Zenon
    <3> QED
      BY <1>2, <3>1, <3>2 DEF Attempt
  <2> QED
    BY <2>1, <2>2, <2>3
<1>3. CASE registerTransport
  <2>1. CASE closed
    BY <1>3, <2>1 DEF registerTransport
  <2>2. CASE ~closed
    <3>1. PICK t \in Transports, u \in Sockets :
              /\ tr[t].c = "closed" /\ tr[t].s = "closed"
              /\ tr' = [tr EXCEPT ![t] = u] /\ control' = t /\ pc' = "handshake"
              /\ u.c = "open" /\ u.listener = "register"
      BY <1>3, <2>2, TransportOpened DEF registerTransport
    <3>2. pc = "register" /\ control = None /\ ~told /\ status # "connected"
      BY <1>3, <2>2 DEF registerTransport
    <3> QED
      BY <1>3, <2>2, <3>1, <3>2 DEF registerTransport
  <2> QED
    BY <2>1, <2>2
<1>4. CASE EnsureDaemon
  BY <1>4 DEF EnsureDaemon, ConnectEnds
<1>5. CASE AskedToStop
  BY <1>5 DEF AskedToStop
<1>6. CASE Stopped
  BY <1>6 DEF Stopped, ConnectEnds
<1>7. ASSUME NEW c \in AllCalls, sendRpc(c) PROVE ClientInv'
  BY <1>7 DEF sendRpc, Sent
<1>8. CASE Close
  BY <1>8, Zenon DEF Close, closeSocket, Rejected, Ended
<1>9. ASSUME NEW c \in AllCalls, RpcTimeout(c) PROVE ClientInv'
  BY <1>9 DEF RpcTimeout
<1>10. ASSUME NEW t \in Transports, HandshakeTimeout(t) PROVE ClientInv'
  BY <1>10 DEF HandshakeTimeout, fail
<1>11. ASSUME NEW t \in Transports, ClientReceives(t) PROVE ClientInv'
  <2>1. UNCHANGED <<closed, daemon>> /\ \A u \in Transports \ {t} : tr'[u] = tr[u]
    BY <1>11, FrameReceived, Zenon
  <2>2. CASE /\ tr[t].listener = "register" /\ tr'[t].listener = "normal" /\ tr'[t].c = tr[t].c
             /\ status' = "connected" /\ told' = TRUE /\ UNCHANGED control
             /\ pc' \in {"ask", "stop", "idle"}
    BY <2>1, <2>2
  <2>3. CASE /\ tr[t].listener = "register" /\ tr'[t].listener = "off"
             /\ control' = IF control = t THEN None ELSE control
             /\ status' = "disconnected" /\ pc' = "attempt" /\ UNCHANGED told
    BY <2>1, <2>3
  <2>4. CASE /\ tr'[t].listener = tr[t].listener /\ tr'[t].c = tr[t].c
             /\ UNCHANGED <<status, control, told, pc>>
    BY <2>1, <2>4
  <2> QED
    <3> HIDE DEF ClientInv, Sockets
    <3> QED
      BY <1>11, <2>2, <2>3, <2>4, FrameReceived, Zenon
<1>12. ASSUME NEW t \in Transports, ClientCloses(t) PROVE ClientInv'
  <2> DEFINE ends == [tr EXCEPT ![t].c = "closed", ![t].down = <<>>]
  <2>0. ends \in [Transports -> Sockets]
    <3>1. <<>> \in Frames
      BY DEF Frames
    <3> QED
      BY <3>1, ZenonT(60)
  <2>1. CASE tr[t].listener = "register"
    <3>1. fail(t, ends) /\ UNCHANGED <<closed, daemon>>
      BY <1>12, <2>1 DEF ClientCloses
    <3> QED
      BY <2>0, <2>1, <3>1 DEF fail, Sockets
  <2>2. CASE tr[t].listener = "normal"
    <3>1. closeSocket(ends) /\ UNCHANGED <<pc, closed, daemon>>
      BY <1>12, <2>2 DEF ClientCloses
    <3>2. \A u \in Transports : ends[u].listener = tr[u].listener
      BY DEF Sockets
    <3>3. ~closed => pc # "handshake" /\ \A u \in Transports : tr[u].listener # "register"
      BY <2>2
    <3> QED
      BY <2>0, <3>1, <3>2, <3>3, SocketClosed, Zenon
  <2>3. CASE tr[t].listener \notin {"register", "normal"}
    <3>1. tr' = ends /\ UNCHANGED <<status, control, told, pc, closed, daemon>>
      BY <1>12, <2>3 DEF ClientCloses
    <3> QED
      BY <2>0, <2>3, <3>1 DEF Sockets
  <2> QED
    BY <2>1, <2>2, <2>3
<1>13. ASSUME NEW t \in Transports, Handshake(t) PROVE ClientInv'
  BY <1>13 DEF Handshake, Sent
<1>14. ASSUME NEW t \in Transports, HandshakeExpires(t) PROVE ClientInv'
  BY <1>14 DEF HandshakeExpires, Sent
<1>15. ASSUME NEW t \in Transports, Dispatch(t) PROVE ClientInv'
  BY <1>15 DEF Dispatch
<1>16. ASSUME NEW t \in Transports, ServerCloses(t) PROVE ClientInv'
  BY <1>16 DEF ServerCloses
<1>17. ASSUME NEW t \in Transports, NEW c \in AllCalls, Respond(t, c) PROVE ClientInv'
  BY <1>17 DEF Respond, Sent
<1>18. CASE Stop
  BY <1>18 DEF Stop, Ended
<1>19. CASE Die
  BY <1>19, Zenon DEF Die, ProcessGone
<1>20. CASE UNCHANGED vars
  BY <1>20 DEF vars
<1> QED
  BY <1>1, <1>2, <1>3, <1>4, <1>5, <1>6, <1>7, <1>8, <1>9, <1>10, <1>11,
     <1>12, <1>13, <1>14, <1>15, <1>16, <1>17, <1>18, <1>19, <1>20, Zenon
     DEF Next, ClientStep


\* The invariant of the control channel, for every reachable state.
THEOREM ChannelInvariance == Spec => []IInv
<1>1. Init => IInv
  <2> SUFFICES ASSUME Init PROVE IInv
    OBVIOUS
  <2>1. TypeOK
    <3>1. <<>> \in Frames
      BY DEF Frames
    <3> QED
      BY <3>1, Zenon DEF Init, TypeOK, Fresh, Sockets, CallStates
  <2>2. ServerInv
    BY DEF Init, ServerInv, HostKnowsItsControls, Fresh
  <2>3. ClientInv
    BY DEF Init, ClientInv, ConnectionIsConsistent, Fresh
  <2> QED
    BY <2>1, <2>2, <2>3 DEF IInv
<1>2. IInv /\ [Next]_vars => IInv'
  BY TypePreserved, ServerPreserved, ClientPreserved DEF IInv
<1> QED
  BY <1>1, <1>2, PTL DEF Spec

\* The host's controls are the registered connections, and a server that was
\* stopped registers nobody, for any number of connections in flight.
THEOREM ControlsAreKnown == Spec => []HostKnowsItsControls
<1>1. IInv => HostKnowsItsControls
  BY DEF IInv, ServerInv
<1> QED
  BY <1>1, ChannelInvariance, PTL

\* Until close(), the client's status, its transport and what its Connector
\* was told agree, however often it reconnects and the daemon is replaced.
THEOREM ClientIsConsistent == Spec => []ConnectionIsConsistent
<1>1. IInv => ConnectionIsConsistent
  BY DEF IInv, ClientInv, ConnectionIsConsistent
<1> QED
  BY <1>1, ChannelInvariance, PTL
=============================================================================
