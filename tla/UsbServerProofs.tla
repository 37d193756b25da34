-------------------------- MODULE UsbServerProofs --------------------------
(* What the core is told about the promoted USB client, that a client which *)
(* has ended is not left promoted, and that StopServer() forgets no client. *)
EXTENDS UsbServer, SequenceTheorems, TLAPS

Pc == {"off", "queued", "first", "opening", "announcing", "frames", "take",
       "failing", "closing", "reporting", "done"}
Client ==
    [start : {"none", "submitted", "done"}, reader : Pc, writer : Pc,
     stop : {"none", "writer", "reader", "done"},
     sock : {"none", "open", "eof", "broken", "closed"}, stopping : BOOLEAN, connected : BOOLEAN,
     failed : BOOLEAN, closed : BOOLEAN, quit : BOOLEAN]
Event == [kind : {"open", "close", "error"}, client : Clients]

TypeInv ==
    /\ cl \in [Clients -> Client]
    /\ usb \in Clients \cup {None} /\ temp \in Clients \cup {None}
    /\ events \in Seq(Event)
    /\ cleanQueue \in Seq(Clients) /\ toStop \in Seq(Clients)

In(q, k) == \E i \in 1..Len(q) : q[i] = k
OpenIsQueued(k) == \E i \in 1..Len(events) : events[i].client = k /\ events[i].kind = "open"

\* Before its first header a temporary client is untouched: nobody stops it
\* but by way of the queues, which hold no temporary client.
Fresh(k) ==
    temp = k /\ cl[k].reader \in {"off", "queued", "first", "opening"} =>
        /\ ~cl[k].quit /\ ~cl[k].connected /\ ~cl[k].closed
        /\ cl[k].writer \in {"off", "queued", "take"}

\* Between is_connected_.store(true) and OnOpen() the writer may have failed.
Announcing(k) ==
    temp = k /\ cl[k].reader = "announcing" =>
        \/ EndIsQueued(k)
        \/ cl[k].connected /\ (cl[k].closed => cl[k].writer = "reporting")

\* A client that is or may be promoted still has a thread that will report its
\* end, unless the report is queued.
WillReport(k) ==
    usb = k \/ (temp = k /\ OpenIsQueued(k)) =>
        \/ EndIsQueued(k)
        \/ /\ cl[k].connected
           /\ cl[k].closed => "reporting" \in {cl[k].reader, cl[k].writer}
           /\ ~cl[k].closed => cl[k].reader \in {"frames", "failing", "closing"}

\* Threads start once, and what is queued for a client has been reported by
\* its threads.
Order(k) ==
    /\ cl[k].start # "done" => cl[k].reader = "off"
    /\ OpenIsQueued(k) \/ usb = k =>
          cl[k].reader \in {"frames", "failing", "closing", "reporting", "done"}
    /\ cl[k].sock = "none" =>
          /\ cl[k] = NewClient /\ temp # k
          /\ ~EndIsQueued(k) /\ ~In(cleanQueue, k) /\ ~In(toStop, k)

\* A temporary client is not being stopped, and an accepted client is held,
\* stopped or about to be.
Kept(k) ==
    /\ temp = k => cl[k].stop = "none" /\ ~In(cleanQueue, k) /\ ~In(toStop, k)
    /\ cl[k].sock # "none" =>
          k \in {usb, temp} \/ cl[k].stop # "none" \/ In(cleanQueue, k) \/ In(toStop, k)

ServerInv ==
    /\ serving => exec = "wait"
    /\ exec # "idle" => ~running
    /\ exec \in {"idle", "wait"} => toStop = <<>>
    /\ exec = "join" => toStop # <<>>
    /\ exec # "wait" /\ ~running => usb = None /\ temp = None

ClientInv(k) == Fresh(k) /\ Announcing(k) /\ WillReport(k) /\ Order(k) /\ Kept(k)

IInv ==
    TypeInv /\ ListenerKnowsPromotion /\ ServerInv /\ \A k \in Clients : ClientInv(k)

-----------------------------------------------------------------------------
\* Queues.

\* What a queue holds after a push.
LEMMA InAppend ==
    ASSUME NEW q \in Seq(Clients), NEW k \in Clients, NEW j
    PROVE  In(Append(q, k), j) <=> In(q, j) \/ j = k
  BY DEF In

\* What a queue holds before a pop.
LEMMA InTail ==
    ASSUME NEW q \in Seq(Clients), q # <<>>, NEW j
    PROVE  In(q, j) <=> In(Tail(q), j) \/ j = Head(q)
<1>1. Tail(q) \in Seq(Clients) /\ Len(Tail(q)) = Len(q) - 1 /\ Len(q) \in Nat \ {0}
  BY EmptySeq, HeadTailProperties
<1>2. \A i \in 1..Len(Tail(q)) : Tail(q)[i] = q[i + 1]
  BY <1>1
<1>3. Head(q) = q[1]
  BY <1>1
<1>4. ASSUME In(q, j) PROVE In(Tail(q), j) \/ j = Head(q)
  <2>1. PICK i \in 1..Len(q) : q[i] = j
    BY <1>4 DEF In
  <2>2. CASE i = 1
    BY <2>1, <2>2, <1>3
  <2>3. CASE i # 1
    <3>1. i - 1 \in 1..Len(Tail(q))
      BY <2>3, <1>1
    <3>2. Tail(q)[i - 1] = j
      BY <3>1, <1>2, <2>1
    <3> QED
      BY <3>1, <3>2, Zenon DEF In
  <2> QED
    BY <2>2, <2>3
<1>5. ASSUME In(Tail(q), j) PROVE In(q, j)
  <2>1. PICK i \in 1..Len(Tail(q)) : Tail(q)[i] = j
    BY <1>5 DEF In
  <2>2. i + 1 \in 1..Len(q) /\ q[i + 1] = j
    BY <2>1, <1>1, <1>2
  <2> QED
    BY <2>2 DEF In
<1>6. In(q, Head(q))
  BY <1>1, <1>3 DEF In
<1> QED
  BY <1>4, <1>5, <1>6

\* A report is queued behind the others.
LEMMA Posted ==
    ASSUME events \in Seq(Event), NEW k \in Clients,
           NEW kind \in {"open", "close", "error"}, Post(kind, k)
    PROVE  /\ events' \in Seq(Event)
           /\ \A j \in Clients :
                /\ OpenIsQueued(j)' <=> OpenIsQueued(j) \/ (j = k /\ kind = "open")
                /\ EndIsQueued(j)' <=> EndIsQueued(j) \/ (j = k /\ kind # "open")
<1> DEFINE e == [kind |-> kind, client |-> k]
<1>1. e \in Event /\ e.kind = kind /\ e.client = k
  BY DEF Event
<1>2. events' = Append(events, e)
  BY DEF Post
<1> HIDE DEF e
<1>3. /\ events' \in Seq(Event) /\ Len(events') = Len(events) + 1 /\ Len(events) \in Nat
      /\ \A i \in 1..Len(events) : events'[i] = events[i]
      /\ events'[Len(events) + 1] = e
  BY <1>1, <1>2, AppendProperties, LenProperties
<1>4. ASSUME NEW j \in Clients
      PROVE  OpenIsQueued(j)' <=> OpenIsQueued(j) \/ (j = k /\ kind = "open")
  BY <1>1, <1>3 DEF OpenIsQueued
<1>5. ASSUME NEW j \in Clients
      PROVE  EndIsQueued(j)' <=> EndIsQueued(j) \/ (j = k /\ kind # "open")
  BY <1>1, <1>3 DEF EndIsQueued
<1> QED
  BY <1>3, <1>4, <1>5

\* The first report is taken.
LEMMA Taken ==
    ASSUME events \in Seq(Event), events # <<>>, events' = Tail(events)
    PROVE  /\ events' \in Seq(Event) /\ Head(events) \in Event
           /\ \A j \in Clients :
                /\ OpenIsQueued(j)' => OpenIsQueued(j)
                /\ EndIsQueued(j)' => EndIsQueued(j)
                /\ EndIsQueued(j) =>
                      EndIsQueued(j)' \/ (Head(events).client = j /\ Head(events).kind # "open")
                /\ Head(events).client = j /\ Head(events).kind = "open" => OpenIsQueued(j)
                /\ Head(events).client = j /\ Head(events).kind # "open" => EndIsQueued(j)
<1>1. /\ events' \in Seq(Event) /\ Head(events) \in Event
      /\ Len(events') = Len(events) - 1 /\ Len(events) \in Nat \ {0}
  BY EmptySeq, HeadTailProperties
<1>2. (\A i \in 1..Len(events') : events'[i] = events[i + 1]) /\ Head(events) = events[1]
  BY <1>1
<1>3. 1 \in 1..Len(events) /\ \A i \in 1..Len(events') : i + 1 \in 1..Len(events)
  BY <1>1
<1>4. events[1].kind \in {"open", "close", "error"}
  BY <1>1, <1>2 DEF Event
<1>5. ASSUME NEW j \in Clients PROVE OpenIsQueued(j)' => OpenIsQueued(j)
  BY <1>2, <1>3 DEF OpenIsQueued
<1>6. ASSUME NEW j \in Clients PROVE EndIsQueued(j)' => EndIsQueued(j)
  BY <1>2, <1>3 DEF EndIsQueued
<1>7. ASSUME NEW j \in Clients, EndIsQueued(j)
      PROVE  EndIsQueued(j)' \/ (events[1].client = j /\ events[1].kind # "open")
  <2>1. PICK i \in 1..Len(events) : events[i].client = j /\ events[i].kind \in {"close", "error"}
    BY <1>7 DEF EndIsQueued
  <2>2. CASE i = 1
    BY <2>1, <2>2
  <2>3. CASE i # 1
    <3>1. i - 1 \in 1..Len(events') /\ events'[i - 1] = events[i]
      BY <2>3, <1>1, <1>2
    <3> QED
      BY <2>1, <3>1 DEF EndIsQueued
  <2> QED
    BY <2>2, <2>3
<1>8. ASSUME NEW j \in Clients, events[1].client = j
      PROVE  IF events[1].kind = "open" THEN OpenIsQueued(j) ELSE EndIsQueued(j)
  BY <1>3, <1>4, <1>8 DEF OpenIsQueued, EndIsQueued
<1> QED
  BY <1>1, <1>2, <1>5, <1>6, <1>7, <1>8

-----------------------------------------------------------------------------
\* The threads of a client.

\* A step of client k's threads, which may report, leaves the others alone.
ReportsFor(k) ==
    UNCHANGED events \/ \E kind \in {"open", "close", "error"} : Post(kind, k)

\* A step of one client that queues events of this client only is a matter of
\* this client's part of the invariant.
LEMMA ClientFrame ==
    ASSUME IInv, NEW k \in Clients, NEW r \in Client, Update(k, r), ReportsFor(k), ClientOnly,
           ClientInv(k)'
    PROVE  IInv'
<1>1. cl' \in [Clients -> Client] /\ \A j \in Clients \ {k} : cl'[j] = cl[j]
  BY DEF IInv, TypeInv, Update
<1>2. UNCHANGED <<usb, temp, cleanQueue, toStop, exec, running, serving, told>>
  BY DEF ClientOnly, cleanVars, serverVars
<1>3. /\ events' \in Seq(Event)
      /\ \A j \in Clients \ {k} : /\ OpenIsQueued(j)' <=> OpenIsQueued(j)
                                  /\ EndIsQueued(j)' <=> EndIsQueued(j)
  <2>1. CASE UNCHANGED events
    BY <2>1 DEF IInv, TypeInv, OpenIsQueued, EndIsQueued
  <2>2. CASE \E kind \in {"open", "close", "error"} : Post(kind, k)
    BY <2>2, Posted DEF IInv, TypeInv
  <2> QED
    BY <2>1, <2>2 DEF ReportsFor
<1>4. ASSUME NEW j \in Clients \ {k} PROVE ClientInv(j)'
  <2>1. ClientInv(j) /\ cl'[j] = cl[j] /\ (In(cleanQueue, j)' <=> In(cleanQueue, j))
                     /\ (In(toStop, j)' <=> In(toStop, j))
    BY <1>1, <1>2 DEF IInv, In
  <2> QED
    BY <2>1, <1>2, <1>3, Zenon DEF ClientInv, Fresh, Announcing, WillReport, Order, Kept
<1>5. TypeInv' /\ ListenerKnowsPromotion' /\ ServerInv'
  BY <1>1, <1>2, <1>3 DEF IInv, TypeInv, ListenerKnowsPromotion, ServerInv
<1> QED
  BY <1>4, <1>5 DEF IInv

\* Without a new event nothing is queued or held that was not before.
LEMMA Quiet ==
    ASSUME NEW k \in Clients, UNCHANGED events, ClientOnly
    PROVE  /\ ReportsFor(k)
           /\ (OpenIsQueued(k)' <=> OpenIsQueued(k)) /\ (EndIsQueued(k)' <=> EndIsQueued(k))
           /\ UNCHANGED <<usb, temp>>
           /\ (In(cleanQueue, k)' <=> In(cleanQueue, k)) /\ (In(toStop, k)' <=> In(toStop, k))
  BY DEF ReportsFor, OpenIsQueued, EndIsQueued, ClientOnly, cleanVars, serverVars, In

\* A step that reports nothing preserves IInv if it does for its own client.
LEMMA QuietStep ==
    ASSUME IInv, NEW k \in Clients, NEW r \in Client, Update(k, r), UNCHANGED events, ClientOnly
    PROVE  cl'[k] = r /\ (ClientInv(k)' => IInv')
<1>1. cl'[k] = r
  BY DEF Update, IInv, TypeInv
<1> QED
  BY <1>1, Quiet, ClientFrame

\* BeginTransportShutdown() of a client.
LEMMA ShutdownTyped ==
    ASSUME NEW c \in Client
    PROVE  BeginTransportShutdown(c) \in Client
  BY Zenon DEF BeginTransportShutdown, Client

\* The reader and the writer thread.
LEMMA TakeTaskPreserves ==
    ASSUME IInv, NEW k \in Clients, TakeTask(k)
    PROVE  IInv'
<1>1. cl[k] \in Client /\ ClientInv(k)
  BY DEF IInv, TypeInv
<1>2. ASSUME TakeTask(k), cl[k].reader = "queued", Update(k, [cl[k] EXCEPT !.reader = "first"])
      PROVE  IInv'
  <2> DEFINE r == [cl[k] EXCEPT !.reader = "first"]
  <2>1. r \in Client
    BY <1>1 DEF Client, Pc
  <2>2. cl'[k] = r /\ (ClientInv(k)' => IInv')
    BY <1>2, <2>1, QuietStep DEF TakeTask
  <2>3. ClientInv(k)'
    BY <1>1, <1>2, <2>2, Quiet DEF ClientInv, Fresh, Announcing, WillReport, Order, Kept, Client, NewClient, TakeTask
  <2> QED
    BY <2>2, <2>3
<1>3. ASSUME TakeTask(k), cl[k].writer = "queued", Update(k, [cl[k] EXCEPT !.writer = "take"])
      PROVE  IInv'
  <2> DEFINE r == [cl[k] EXCEPT !.writer = "take"]
  <2>1. r \in Client
    BY <1>1 DEF Client, Pc
  <2>2. cl'[k] = r /\ (ClientInv(k)' => IInv')
    BY <1>3, <2>1, QuietStep DEF TakeTask
  <2>3. ClientInv(k)'
    BY <1>1, <1>3, <2>2, Quiet DEF ClientInv, Fresh, Announcing, WillReport, Order, Kept, Client, NewClient, TakeTask
  <2> QED
    BY <2>2, <2>3
<1> QED
  BY <1>2, <1>3 DEF TakeTask

\* The first header arrives.
LEMMA FirstHeaderPreserves ==
    ASSUME IInv, NEW k \in Clients, FirstHeader(k)
    PROVE  IInv'
<1>1. cl[k] \in Client /\ ClientInv(k)
  BY DEF IInv, TypeInv
<1>2. ASSUME FirstHeader(k), Update(k, [cl[k] EXCEPT !.reader = "opening"])
      PROVE  IInv'
  <2> DEFINE r == [cl[k] EXCEPT !.reader = "opening"]
  <2>1. r \in Client
    BY <1>1 DEF Client, Pc
  <2>2. cl'[k] = r /\ (ClientInv(k)' => IInv')
    BY <1>2, <2>1, QuietStep DEF FirstHeader
  <2>3. ClientInv(k)'
    BY <1>1, <1>2, <2>2, Quiet DEF ClientInv, Fresh, Announcing, WillReport, Order, Kept, Client, NewClient, FirstHeader
  <2> QED
    BY <2>2, <2>3
<1> QED
  BY <1>2 DEF FirstHeader

\* The connection ends before its first header.
LEMMA NoFirstHeaderPreserves ==
    ASSUME IInv, NEW k \in Clients, NoFirstHeader(k)
    PROVE  IInv'
<1>1. cl[k] \in Client /\ ClientInv(k)
  BY DEF IInv, TypeInv
<1>2. ASSUME NoFirstHeader(k), Update(k, [cl[k] EXCEPT !.reader = "closing"])
      PROVE  IInv'
  <2> DEFINE r == [cl[k] EXCEPT !.reader = "closing"]
  <2>1. r \in Client
    BY <1>1 DEF Client, Pc
  <2>2. cl'[k] = r /\ (ClientInv(k)' => IInv')
    BY <1>2, <2>1, QuietStep DEF NoFirstHeader
  <2>3. ClientInv(k)'
    BY <1>1, <1>2, <2>2, Quiet DEF ClientInv, Fresh, Announcing, WillReport, Order, Kept, Client, NewClient, NoFirstHeader
  <2> QED
    BY <2>2, <2>3
<1>3. ASSUME NoFirstHeader(k), Update(k, [BeginTransportShutdown(cl[k]) EXCEPT !.reader = "closing"])
      PROVE  IInv'
  <2> DEFINE r == [BeginTransportShutdown(cl[k]) EXCEPT !.reader = "closing"]
  <2>1. r \in Client
    BY <1>1, ShutdownTyped DEF Client, Pc
  <2>2. cl'[k] = r /\ (ClientInv(k)' => IInv')
    BY <1>3, <2>1, QuietStep DEF NoFirstHeader
  <2>3. ClientInv(k)'
    BY <1>1, <1>3, <2>2, Quiet DEF ClientInv, Fresh, Announcing, WillReport, Order, Kept, Client, NewClient, BeginTransportShutdown, NoFirstHeader
  <2> QED
    BY <2>2, <2>3
<1> QED
  BY <1>2, <1>3 DEF NoFirstHeader

\* is_connected_.store(true).
LEMMA MarkConnectedPreserves ==
    ASSUME IInv, NEW k \in Clients, MarkConnected(k)
    PROVE  IInv'
<1>1. cl[k] \in Client /\ ClientInv(k)
  BY DEF IInv, TypeInv
<1>2. ASSUME MarkConnected(k), Update(k, [cl[k] EXCEPT !.connected = TRUE, !.reader = "announcing"])
      PROVE  IInv'
  <2> DEFINE r == [cl[k] EXCEPT !.connected = TRUE, !.reader = "announcing"]
  <2>1. r \in Client
    BY <1>1, Zenon DEF Client, Pc
  <2>2. cl'[k] = r /\ (ClientInv(k)' => IInv')
    BY <1>2, <2>1, QuietStep DEF MarkConnected
  <2>3. ClientInv(k)'
    BY <1>1, <1>2, <2>2, Quiet DEF ClientInv, Fresh, Announcing, WillReport, Order, Kept, Client, NewClient, MarkConnected
  <2> QED
    BY <2>2, <2>3
<1> QED
  BY <1>2 DEF MarkConnected

\* The reader leaves its loop.
LEMMA ReadEndsPreserves ==
    ASSUME IInv, NEW k \in Clients, ReadEnds(k)
    PROVE  IInv'
<1>1. cl[k] \in Client /\ ClientInv(k)
  BY DEF IInv, TypeInv
<1>2. ASSUME ReadEnds(k), Update(k, [cl[k] EXCEPT !.reader = "closing"])
      PROVE  IInv'
  <2> DEFINE r == [cl[k] EXCEPT !.reader = "closing"]
  <2>1. r \in Client
    BY <1>1 DEF Client, Pc
  <2>2. cl'[k] = r /\ (ClientInv(k)' => IInv')
    BY <1>2, <2>1, QuietStep DEF ReadEnds
  <2>3. ClientInv(k)'
    BY <1>1, <1>2, <2>2, Quiet DEF ClientInv, Fresh, Announcing, WillReport, Order, Kept, Client, NewClient, ReadEnds
  <2> QED
    BY <2>2, <2>3
<1>3. ASSUME ReadEnds(k), Update(k, [BeginTransportShutdown(cl[k]) EXCEPT !.reader = "closing"])
      PROVE  IInv'
  <2> DEFINE r == [BeginTransportShutdown(cl[k]) EXCEPT !.reader = "closing"]
  <2>1. r \in Client
    BY <1>1, ShutdownTyped DEF Client, Pc
  <2>2. cl'[k] = r /\ (ClientInv(k)' => IInv')
    BY <1>3, <2>1, QuietStep DEF ReadEnds
  <2>3. ClientInv(k)'
    BY <1>1, <1>3, <2>2, Quiet DEF ClientInv, Fresh, Announcing, WillReport, Order, Kept, Client, NewClient, BeginTransportShutdown, ReadEnds
  <2> QED
    BY <2>2, <2>3
<1>4. ASSUME ReadEnds(k), Update(k, [BeginTransportShutdown(cl[k]) EXCEPT !.reader = "failing"])
      PROVE  IInv'
  <2> DEFINE r == [BeginTransportShutdown(cl[k]) EXCEPT !.reader = "failing"]
  <2>1. r \in Client
    BY <1>1, ShutdownTyped DEF Client, Pc
  <2>2. cl'[k] = r /\ (ClientInv(k)' => IInv')
    BY <1>4, <2>1, QuietStep DEF ReadEnds
  <2>3. ClientInv(k)'
    BY <1>1, <1>4, <2>2, Quiet DEF ClientInv, Fresh, Announcing, WillReport, Order, Kept, Client, NewClient, BeginTransportShutdown, ReadEnds
  <2> QED
    BY <2>2, <2>3
<1> QED
  BY <1>2, <1>3, <1>4 DEF ReadEnds

\* The writer leaves its loop.
LEMMA WriteEndsPreserves ==
    ASSUME IInv, NEW k \in Clients, WriteEnds(k)
    PROVE  IInv'
<1>1. cl[k] \in Client /\ ClientInv(k)
  BY DEF IInv, TypeInv
<1>2. ASSUME WriteEnds(k), cl[k].quit, Update(k, [cl[k] EXCEPT !.writer = "closing"])
      PROVE  IInv'
  <2> DEFINE r == [cl[k] EXCEPT !.writer = "closing"]
  <2>1. r \in Client
    BY <1>1 DEF Client, Pc
  <2>2. cl'[k] = r /\ (ClientInv(k)' => IInv')
    BY <1>2, <2>1, QuietStep DEF WriteEnds
  <2>3. ClientInv(k)'
    BY <1>1, <1>2, <2>2, Quiet DEF ClientInv, Fresh, Announcing, WillReport, Order, Kept, Client, NewClient, WriteEnds
  <2> QED
    BY <2>2, <2>3
<1>3. ASSUME WriteEnds(k), cl[k].connected, Update(k, [BeginTransportShutdown(cl[k]) EXCEPT !.writer = "failing"])
      PROVE  IInv'
  <2> DEFINE r == [BeginTransportShutdown(cl[k]) EXCEPT !.writer = "failing"]
  <2>1. r \in Client
    BY <1>1, ShutdownTyped DEF Client, Pc
  <2>2. cl'[k] = r /\ (ClientInv(k)' => IInv')
    BY <1>3, <2>1, QuietStep DEF WriteEnds
  <2>3. ClientInv(k)'
    BY <1>1, <1>3, <2>2, Quiet DEF ClientInv, Fresh, Announcing, WillReport, Order, Kept, Client, NewClient, BeginTransportShutdown, WriteEnds
  <2> QED
    BY <2>2, <2>3
<1> QED
  BY <1>2, <1>3 DEF WriteEnds

\* The tool closes or breaks the connection.
LEMMA PeerLeavesPreserves ==
    ASSUME IInv, NEW k \in Clients, PeerLeaves(k)
    PROVE  IInv'
<1>1. cl[k] \in Client /\ ClientInv(k)
  BY DEF IInv, TypeInv
<1>2. ASSUME PeerLeaves(k), Update(k, [cl[k] EXCEPT !.sock = "eof"])
      PROVE  IInv'
  <2> DEFINE r == [cl[k] EXCEPT !.sock = "eof"]
  <2>1. r \in Client
    BY <1>1 DEF Client, Pc
  <2>2. cl'[k] = r /\ (ClientInv(k)' => IInv')
    BY <1>2, <2>1, QuietStep DEF PeerLeaves
  <2>3. ClientInv(k)'
    BY <1>1, <1>2, <2>2, Quiet DEF ClientInv, Fresh, Announcing, WillReport, Order, Kept, Client, NewClient, PeerLeaves
  <2> QED
    BY <2>2, <2>3
<1>3. ASSUME PeerLeaves(k), Update(k, [cl[k] EXCEPT !.sock = "broken"])
      PROVE  IInv'
  <2> DEFINE r == [cl[k] EXCEPT !.sock = "broken"]
  <2>1. r \in Client
    BY <1>1 DEF Client, Pc
  <2>2. cl'[k] = r /\ (ClientInv(k)' => IInv')
    BY <1>3, <2>1, QuietStep DEF PeerLeaves
  <2>3. ClientInv(k)'
    BY <1>1, <1>3, <2>2, Quiet DEF ClientInv, Fresh, Announcing, WillReport, Order, Kept, Client, NewClient, PeerLeaves
  <2> QED
    BY <2>2, <2>3
<1> QED
  BY <1>2, <1>3 DEF PeerLeaves

\* Stop() goes on only with threads that have reported.
LEMMA JoinThreadsPreserves ==
    ASSUME IInv, NEW k \in Clients, JoinThreads(k)
    PROVE  IInv'
<1>1. cl[k] \in Client /\ ClientInv(k)
  BY DEF IInv, TypeInv
<1>2. ASSUME JoinThreads(k), cl[k].stop = "writer", cl[k].writer \in {"off", "queued", "done"}, Update(k, [cl[k] EXCEPT !.stop = "reader", !.writer = "done"])
      PROVE  IInv'
  <2> DEFINE r == [cl[k] EXCEPT !.stop = "reader", !.writer = "done"]
  <2>1. r \in Client
    BY <1>1, Zenon DEF Client, Pc
  <2>2. cl'[k] = r /\ (ClientInv(k)' => IInv')
    BY <1>2, <2>1, QuietStep DEF JoinThreads
  <2>3. ClientInv(k)'
    BY <1>1, <1>2, <2>2, Quiet DEF ClientInv, Fresh, Announcing, WillReport, Order, Kept, Client, NewClient, JoinThreads
  <2> QED
    BY <2>2, <2>3
<1>3. ASSUME JoinThreads(k), cl[k].stop = "reader", cl[k].reader \in {"off", "queued", "done"}, Update(k, [cl[k] EXCEPT !.stop = "done", !.reader = "done", !.start = "done"])
      PROVE  IInv'
  <2> DEFINE r == [cl[k] EXCEPT !.stop = "done", !.reader = "done", !.start = "done"]
  <2>1. r \in Client
    BY <1>1, Zenon DEF Client, Pc
  <2>2. cl'[k] = r /\ (ClientInv(k)' => IInv')
    BY <1>3, <2>1, QuietStep DEF JoinThreads
  <2>3. ClientInv(k)'
    BY <1>1, <1>3, <2>2, Quiet DEF ClientInv, Fresh, Announcing, WillReport, Order, Kept, Client, NewClient, JoinThreads
  <2> QED
    BY <2>2, <2>3
<1> QED
  BY <1>2, <1>3 DEF JoinThreads

\* StartInternal() submits the two threads.
LEMMA StartInternalPreserves ==
    ASSUME IInv, NEW k \in Clients, StartInternal(k)
    PROVE  IInv'
<1> DEFINE p == IF cl[k].reader = "off" THEN "queued" ELSE cl[k].reader
           q == IF cl[k].writer = "off" THEN "queued" ELSE cl[k].writer
           r == [cl[k] EXCEPT !.start = "done", !.stopping = FALSE, !.failed = FALSE,
                              !.closed = FALSE, !.reader = p, !.writer = q]
<1>1. cl[k] \in Client /\ ClientInv(k)
  BY DEF IInv, TypeInv
<1>2. p \in Pc /\ q \in Pc
  BY <1>1 DEF Client, Pc
<1>3. r \in Client
  <2> HIDE DEF p, q
  <2> QED
    BY <1>1, <1>2, Zenon DEF Client
<1>4. cl'[k] = r /\ (ClientInv(k)' => IInv')
  BY <1>3, QuietStep DEF StartInternal
<1>5. ClientInv(k)'
  BY <1>1, <1>4, Quiet
     DEF StartInternal, ClientInv, Fresh, Announcing, WillReport, Order, Kept, Client, NewClient
<1> QED
  BY <1>4, <1>5

\* The same for a step that reports.
LEMMA ReportStep ==
    ASSUME IInv, NEW k \in Clients, NEW r \in Client, Update(k, r), ClientOnly,
           NEW kind \in {"open", "close", "error"}, Post(kind, k)
    PROVE  /\ cl'[k] = r /\ (ClientInv(k)' => IInv')
           /\ OpenIsQueued(k)' <=> OpenIsQueued(k) \/ kind = "open"
           /\ EndIsQueued(k)' <=> EndIsQueued(k) \/ kind # "open"
           /\ UNCHANGED <<usb, temp>>
           /\ (In(cleanQueue, k)' <=> In(cleanQueue, k)) /\ (In(toStop, k)' <=> In(toStop, k))
<1>1. cl'[k] = r
  BY DEF Update, IInv, TypeInv
<1>2. ReportsFor(k)
  BY DEF ReportsFor
<1>3. /\ OpenIsQueued(k)' <=> OpenIsQueued(k) \/ kind = "open"
      /\ EndIsQueued(k)' <=> EndIsQueued(k) \/ kind # "open"
  BY Posted DEF IInv, TypeInv
<1>4. UNCHANGED <<usb, temp, cleanQueue, toStop>>
  BY DEF ClientOnly, cleanVars, serverVars
<1> QED
  BY <1>1, <1>2, <1>3, <1>4, ClientFrame DEF In

\* OnOpen() is queued for the executor.
LEMMA AnnounceOpenPreserves ==
    ASSUME IInv, NEW k \in Clients, AnnounceOpen(k)
    PROVE  IInv'
<1> DEFINE r == [cl[k] EXCEPT !.reader = "frames"]
<1>1. cl[k] \in Client /\ ClientInv(k)
  BY DEF IInv, TypeInv
<1>2. r \in Client
  BY <1>1 DEF Client, Pc
<1>3. /\ cl'[k] = r /\ (ClientInv(k)' => IInv')
      /\ OpenIsQueued(k)' /\ (EndIsQueued(k)' <=> EndIsQueued(k)) /\ UNCHANGED <<usb, temp>>
      /\ (In(cleanQueue, k)' <=> In(cleanQueue, k)) /\ (In(toStop, k)' <=> In(toStop, k))
  BY <1>2, ReportStep DEF AnnounceOpen
<1>4. ClientInv(k)'
  BY <1>1, <1>3
     DEF AnnounceOpen, ClientInv, Fresh, Announcing, WillReport, Order, Kept, Client, NewClient
<1> QED
  BY <1>3, <1>4

\* NotifyErrorOnce() of either thread.
LEMMA NotifyErrorOncePreserves ==
    ASSUME IInv, NEW k \in Clients, NEW t \in {"reader", "writer"}, NotifyErrorOnce(k, t)
    PROVE  IInv'
<1> DEFINE r == [cl[k] EXCEPT !.failed = TRUE, ![t] = "closing"]
<1>1. cl[k] \in Client /\ ClientInv(k)
  BY DEF IInv, TypeInv
<1>2. r \in Client
  <2>1. CASE t = "reader"
    BY <2>1, <1>1, Zenon DEF Client, Pc
  <2>2. CASE t = "writer"
    BY <2>2, <1>1, Zenon DEF Client, Pc
  <2> QED
    BY <2>1, <2>2
<1>3. /\ cl'[k] = r /\ (ClientInv(k)' => IInv')
      /\ (OpenIsQueued(k)' <=> OpenIsQueued(k)) /\ (EndIsQueued(k) => EndIsQueued(k)')
      /\ UNCHANGED <<usb, temp>>
      /\ (In(cleanQueue, k)' <=> In(cleanQueue, k)) /\ (In(toStop, k)' <=> In(toStop, k))
  <2>1. CASE cl[k].failed
    BY <2>1, <1>2, QuietStep, Quiet DEF NotifyErrorOnce
  <2>2. CASE ~cl[k].failed
    BY <2>2, <1>2, ReportStep DEF NotifyErrorOnce
  <2> QED
    BY <2>1, <2>2
<1>4. ClientInv(k)'
  <2>1. CASE t = "reader"
    BY <2>1, <1>1, <1>3
       DEF NotifyErrorOnce, ClientInv, Fresh, Announcing, WillReport, Order, Kept, Client, NewClient
  <2>2. CASE t = "writer"
    BY <2>2, <1>1, <1>3
       DEF NotifyErrorOnce, ClientInv, Fresh, Announcing, WillReport, Order, Kept, Client, NewClient
  <2> QED
    BY <2>1, <2>2
<1> QED
  BY <1>3, <1>4

\* NotifyCloseOnce() takes the flag of who reports.
LEMMA ReportClosedPreserves ==
    ASSUME IInv, NEW k \in Clients, NEW t \in {"reader", "writer"}, ReportClosed(k, t)
    PROVE  IInv'
<1> DEFINE r == IF cl[k].closed
                THEN [cl[k] EXCEPT ![t] = "done", !.quit = @ \/ t = "reader"]
                ELSE [cl[k] EXCEPT !.closed = TRUE, ![t] = "reporting"]
<1>1. cl[k] \in Client /\ ClientInv(k)
  BY DEF IInv, TypeInv
<1>2. (cl[k].quit \/ t = "reader") \in BOOLEAN
  BY Zenon
<1>3. r \in Client
  <2>1. ASSUME NEW q \in BOOLEAN
        PROVE  /\ [cl[k] EXCEPT !.reader = "done", !.quit = q] \in Client
               /\ [cl[k] EXCEPT !.writer = "done", !.quit = q] \in Client
               /\ [cl[k] EXCEPT !.closed = TRUE, !.reader = "reporting"] \in Client
               /\ [cl[k] EXCEPT !.closed = TRUE, !.writer = "reporting"] \in Client
    BY <1>1, Zenon DEF Client, Pc
  <2>2. CASE t = "reader"
    BY <2>1, <2>2, <1>2
  <2>3. CASE t = "writer"
    BY <2>1, <2>3, <1>2
  <2> QED
    BY <2>2, <2>3
<1>4. cl'[k] = r /\ (ClientInv(k)' => IInv')
  BY <1>3, QuietStep DEF ReportClosed
<1>5. ClientInv(k)'
  <2>1. /\ cl'[k].sock = cl[k].sock /\ cl'[k].start = cl[k].start /\ cl'[k].stop = cl[k].stop
        /\ cl'[k].connected = cl[k].connected /\ cl'[k].closed
        /\ cl[k][t] = "closing" /\ cl'[k][t] = (IF cl[k].closed THEN "done" ELSE "reporting")
        /\ \A u \in {"reader", "writer"} \ {t} : cl'[k][u] = cl[k][u]
    <3>1. CASE t = "reader"
      BY <3>1, <1>1, <1>4 DEF ReportClosed, Client
    <3>2. CASE t = "writer"
      BY <3>2, <1>1, <1>4 DEF ReportClosed, Client
    <3> QED
      BY <3>1, <3>2
  <2>2. cl[k].sock # "none"
    BY <1>1, <2>1 DEF ClientInv, Order, NewClient
  <2>3. UNCHANGED events /\ ClientOnly
    BY DEF ReportClosed
  <2> HIDE DEF r
  <2>4. CASE t = "reader"
    BY <2>1, <2>2, <2>3, <2>4, <1>1, Quiet
       DEF ClientInv, Fresh, Announcing, WillReport, Order, Kept
  <2>5. CASE t = "writer"
    BY <2>1, <2>2, <2>3, <2>5, <1>1, Quiet
       DEF ClientInv, Fresh, Announcing, WillReport, Order, Kept
  <2> QED
    BY <2>4, <2>5
<1> QED
  BY <1>4, <1>5

\* NotifyCloseOnce() reports the end of a connected client.
LEMMA ReportIfConnectedPreserves ==
    ASSUME IInv, NEW k \in Clients, NEW t \in {"reader", "writer"}, ReportIfConnected(k, t)
    PROVE  IInv'
<1> DEFINE r == [cl[k] EXCEPT !.connected = FALSE, ![t] = "done", !.quit = @ \/ t = "reader"]
<1>1. cl[k] \in Client /\ ClientInv(k)
  BY DEF IInv, TypeInv
<1>2. (cl[k].quit \/ t = "reader") \in BOOLEAN
  BY Zenon
<1>3. r \in Client
  <2>1. ASSUME NEW q \in BOOLEAN
        PROVE  /\ [cl[k] EXCEPT !.connected = FALSE, !.reader = "done", !.quit = q] \in Client
               /\ [cl[k] EXCEPT !.connected = FALSE, !.writer = "done", !.quit = q] \in Client
    BY <1>1, Zenon DEF Client, Pc
  <2>2. CASE t = "reader"
    BY <2>1, <2>2, <1>2, Zenon
  <2>3. CASE t = "writer"
    BY <2>1, <2>3, <1>2, Zenon
  <2> QED
    BY <2>2, <2>3
<1>4. /\ cl'[k] = r /\ (ClientInv(k)' => IInv')
      /\ (OpenIsQueued(k)' <=> OpenIsQueued(k))
      /\ (EndIsQueued(k)' <=> EndIsQueued(k) \/ cl[k].connected)
      /\ UNCHANGED <<usb, temp>>
      /\ (In(cleanQueue, k)' <=> In(cleanQueue, k)) /\ (In(toStop, k)' <=> In(toStop, k))
  <2>1. CASE cl[k].connected
    BY <2>1, <1>3, ReportStep DEF ReportIfConnected
  <2>2. CASE ~cl[k].connected
    BY <2>2, <1>3, QuietStep, Quiet DEF ReportIfConnected
  <2> QED
    BY <2>1, <2>2
<1>5. ClientInv(k)'
  <2>1. /\ cl'[k].sock = cl[k].sock /\ cl'[k].start = cl[k].start /\ cl'[k].stop = cl[k].stop
        /\ cl'[k].closed = cl[k].closed /\ cl[k][t] = "reporting" /\ cl'[k][t] = "done"
        /\ \A u \in {"reader", "writer"} \ {t} : cl'[k][u] = cl[k][u]
    <3>1. CASE t = "reader"
      BY <3>1, <1>1, <1>4, Zenon DEF ReportIfConnected, Client
    <3>2. CASE t = "writer"
      BY <3>2, <1>1, <1>4, Zenon DEF ReportIfConnected, Client
    <3> QED
      BY <3>1, <3>2
  <2>2. cl[k].sock # "none"
    BY <1>1, <2>1 DEF ClientInv, Order, NewClient
  <2> HIDE DEF r
  <2>3. CASE t = "reader"
    BY <2>1, <2>2, <2>3, <1>1, <1>4 DEF ClientInv, Fresh, Announcing, WillReport, Order, Kept
  <2>4. CASE t = "writer"
    BY <2>1, <2>2, <2>4, <1>1, <1>4 DEF ClientInv, Fresh, Announcing, WillReport, Order, Kept
  <2> QED
    BY <2>3, <2>4
<1> QED
  BY <1>4, <1>5

\* Any step of a client and of its peer.
LEMMA ClientPreserves ==
    ASSUME IInv, NEW k \in Clients, ClientStep(k) \/ FirstHeader(k) \/ PeerLeaves(k)
    PROVE  IInv'
  BY StartInternalPreserves, TakeTaskPreserves, NoFirstHeaderPreserves, MarkConnectedPreserves,
     AnnounceOpenPreserves, ReadEndsPreserves, WriteEndsPreserves, NotifyErrorOncePreserves,
     ReportClosedPreserves, ReportIfConnectedPreserves, JoinThreadsPreserves,
     FirstHeaderPreserves, PeerLeavesPreserves DEF ClientStep

-----------------------------------------------------------------------------
\* The executor thread, the clean executor and the listen thread.

\* Steps that leave the queues alone.
LEMMA SameQueues ==
    ASSUME UNCHANGED <<events, cleanQueue, toStop>>, NEW j
    PROVE  /\ (OpenIsQueued(j)' <=> OpenIsQueued(j)) /\ (EndIsQueued(j)' <=> EndIsQueued(j))
           /\ (In(cleanQueue, j)' <=> In(cleanQueue, j)) /\ (In(toStop, j)' <=> In(toStop, j))
  BY DEF OpenIsQueued, EndIsQueued, In

\* The executor promotes the temporary client, unless another took its place.
LEMMA HandleOnOpenStatusPreserves ==
    ASSUME IInv, HandleOnOpenStatus
    PROVE  IInv'
<1> DEFINE k == Head(events).client
<1>1. /\ exec = "idle" /\ events # <<>> /\ Head(events).kind = "open" /\ events' = Tail(events)
      /\ UNCHANGED <<cl, temp, toStop, exec, running, serving>>
      /\ IF temp = k
         THEN /\ usb' = temp /\ told' = "open"
              /\ IF usb \in {None, temp} THEN UNCHANGED cleanQueue ELSE Schedule(usb)
         ELSE UNCHANGED <<usb, cleanQueue, told>>
  BY DEF HandleOnOpenStatus, NextEvent, EventDone, serverVars
<1>2. TypeInv /\ ListenerKnowsPromotion /\ ServerInv /\ \A j \in Clients : ClientInv(j)
  BY DEF IInv
<1>3. k \in Clients /\ k # None /\ events' \in Seq(Event)
  BY <1>1, <1>2, Taken, NoneIsNoClient DEF TypeInv, Event
<1>4. OpenIsQueued(k) /\ \A j \in Clients : /\ OpenIsQueued(j)' => OpenIsQueued(j)
                                            /\ EndIsQueued(j)' <=> EndIsQueued(j)
  BY <1>1, <1>2, <1>3, Taken DEF TypeInv
<1> HIDE DEF k
<1>5. ASSUME NEW j \in Clients
      PROVE  /\ In(cleanQueue, j)' <=> \/ In(cleanQueue, j)
                                       \/ temp = k /\ usb \notin {None, temp} /\ j = usb
             /\ In(toStop, j)' <=> In(toStop, j)
  <2>1. In(toStop, j)' <=> In(toStop, j)
    BY <1>1 DEF In
  <2>2. CASE temp = k /\ usb \notin {None, temp}
    <3>1. cleanQueue' = Append(cleanQueue, usb) /\ usb \in Clients
      BY <1>1, <1>2, <2>2 DEF Schedule, TypeInv
    <3>2. In(Append(cleanQueue, usb), j) <=> In(cleanQueue, j) \/ j = usb
      BY <1>2, <3>1, InAppend DEF TypeInv
    <3> QED
      BY <2>1, <2>2, <3>1, <3>2 DEF In
  <2>3. CASE ~(temp = k /\ usb \notin {None, temp})
    BY <1>1, <2>1, <2>3 DEF In
  <2> QED
    BY <2>2, <2>3
<1>6. TypeInv'
  <2>1. usb \in Clients => Append(cleanQueue, usb) \in Seq(Clients)
    BY <1>2 DEF TypeInv
  <2>2. cleanQueue' \in Seq(Clients)
    BY <1>1, <1>2, <2>1, Zenon DEF TypeInv, Schedule
  <2>3. usb' \in Clients \cup {None}
    BY <1>1, <1>2 DEF TypeInv
  <2> QED
    BY <1>1, <1>2, <1>3, <2>2, <2>3 DEF TypeInv
<1>7. ListenerKnowsPromotion' /\ ServerInv'
  BY <1>1, <1>2, <1>3 DEF ListenerKnowsPromotion, ServerInv
<1>8. ASSUME NEW j \in Clients PROVE ClientInv(j)'
  <2>1. ClientInv(j) /\ j # None
    BY <1>2, NoneIsNoClient
  <2>2. usb = j => cl[j].sock # "none"
    BY <2>1 DEF ClientInv, Order, NewClient
  <2>3. usb' = j => usb = j \/ (temp = j /\ OpenIsQueued(j))
    BY <1>1, <1>4
  <2>4. Fresh(j)' /\ Announcing(j)' /\ WillReport(j)'
    BY <1>1, <1>4, <2>1, <2>3, Zenon DEF ClientInv, Fresh, Announcing, WillReport
  <2>5. Order(j)'
    BY <1>1, <1>4, <1>5, <2>1, <2>2, <2>3 DEF ClientInv, Order, NewClient
  <2>6. Kept(j)'
    BY <1>1, <1>5, <2>1 DEF ClientInv, Kept
  <2> QED
    BY <2>4, <2>5, <2>6 DEF ClientInv
<1> QED
  BY <1>6, <1>7, <1>8 DEF IInv

\* HandleOnEndStatus() and Disconnect(): client k is neither promoted nor
\* temporary any more, and is scheduled.
LEMMA LetGo ==
    ASSUME IInv, NEW k \in Clients, cl[k].sock # "none", events' \in Seq(Event),
           \A j \in Clients : /\ OpenIsQueued(j)' => OpenIsQueued(j)
                              /\ EndIsQueued(j)' => EndIsQueued(j)
                              /\ EndIsQueued(j) => EndIsQueued(j)' \/ j = k,
           usb' = IF usb = k THEN None ELSE usb,
           temp' = IF temp = k THEN None ELSE temp,
           told' = IF usb = k THEN "close" ELSE told,
           Schedule(k), UNCHANGED <<cl, exec, toStop, running, serving>>
    PROVE  IInv'
<1>1. TypeInv /\ ListenerKnowsPromotion /\ ServerInv /\ \A j \in Clients : ClientInv(j)
  BY DEF IInv
<1>2. ASSUME NEW j \in Clients
      PROVE  (In(cleanQueue, j)' <=> In(cleanQueue, j) \/ j = k) /\ (In(toStop, j)' <=> In(toStop, j))
  <2>1. In(Append(cleanQueue, k), j) <=> In(cleanQueue, j) \/ j = k
    BY <1>1, InAppend DEF TypeInv
  <2> QED
    BY <2>1 DEF In, Schedule
<1>3. TypeInv'
  BY <1>1 DEF TypeInv, Schedule
<1>4. ListenerKnowsPromotion' /\ ServerInv'
  BY <1>1, NoneIsNoClient DEF ListenerKnowsPromotion, ServerInv
<1>5. ASSUME NEW j \in Clients PROVE ClientInv(j)'
  <2>1. ClientInv(j) /\ j # None
    BY <1>1, NoneIsNoClient
  <2>2. (usb' = j => usb = j /\ j # k) /\ (temp' = j => temp = j /\ j # k)
    BY <2>1
  <2>3. Fresh(j)' /\ Announcing(j)' /\ WillReport(j)'
    BY <2>1, <2>2, Zenon DEF ClientInv, Fresh, Announcing, WillReport
  <2>4. Order(j)'
    BY <1>2, <2>1, <2>2 DEF ClientInv, Order
  <2>5. Kept(j)'
    BY <1>2, <2>1, <2>2 DEF ClientInv, Kept
  <2> QED
    BY <2>3, <2>4, <2>5 DEF ClientInv
<1> QED
  BY <1>3, <1>4, <1>5 DEF IInv

\* The executor drops the promoted client whose close or error it handles.
LEMMA HandleOnEndStatusPreserves ==
    ASSUME IInv, HandleOnEndStatus
    PROVE  IInv'
<1> DEFINE k == Head(events).client
<1>1. /\ events # <<>> /\ Head(events).kind # "open" /\ events' = Tail(events)
      /\ UNCHANGED <<cl, toStop, exec, running, serving>> /\ Schedule(k)
      /\ usb' = IF usb = k THEN None ELSE usb
      /\ temp' = IF temp = k THEN None ELSE temp
      /\ told' = IF usb = k THEN "close" ELSE told
  BY DEF HandleOnEndStatus, NextEvent, EventDone, serverVars
<1>2. k \in Clients /\ events' \in Seq(Event)
  BY <1>1, Taken DEF IInv, TypeInv, Event
<1>3. /\ EndIsQueued(k)
      /\ \A j \in Clients : /\ OpenIsQueued(j)' => OpenIsQueued(j)
                            /\ EndIsQueued(j)' => EndIsQueued(j)
                            /\ EndIsQueued(j) => EndIsQueued(j)' \/ j = k
  BY <1>1, <1>2, Taken DEF IInv, TypeInv
<1>4. cl[k].sock # "none"
  BY <1>2, <1>3 DEF IInv, ClientInv, Order
<1> HIDE DEF k
<1> QED
  BY <1>1, <1>2, <1>3, <1>4, LetGo

\* Disconnect() of the core.
LEMMA DisconnectPreserves ==
    ASSUME IInv, Disconnect
    PROVE  IInv'
<1>1. usb \in Clients /\ events' \in Seq(Event) /\ cl[usb].sock # "none"
  <2>1. usb \in Clients /\ UNCHANGED events
    BY DEF Disconnect, IInv, TypeInv
  <2> QED
    BY <2>1 DEF IInv, TypeInv, ClientInv, Order, NewClient
<1>2. \A j \in Clients : /\ OpenIsQueued(j)' => OpenIsQueued(j)
                         /\ EndIsQueued(j)' => EndIsQueued(j)
                         /\ EndIsQueued(j) => EndIsQueued(j)' \/ j = usb
  BY DEF Disconnect, OpenIsQueued, EndIsQueued
<1> QED
  BY <1>1, <1>2, LetGo DEF Disconnect

\* The clients StopServer() takes along are the promoted and the temporary one.
LEMMA HeldClients ==
    ASSUME TypeInv
    PROVE  Held \in Seq(Clients) /\ \A j \in Clients : In(Held, j) <=> j \in {usb, temp}
<1>1. usb = None \/ usb \in Clients
  BY DEF TypeInv
<1>2. temp = None \/ temp \in Clients
  BY DEF TypeInv
<1>3. CASE usb = None /\ temp = None
  BY <1>3, NoneIsNoClient DEF Held, In
<1>4. CASE usb = None /\ temp \in Clients
  BY <1>4, NoneIsNoClient DEF Held, In
<1>5. CASE usb \in Clients /\ temp \in {None, usb}
  BY <1>5, NoneIsNoClient DEF Held, In
<1>6. CASE usb \in Clients /\ temp \in Clients /\ temp # usb
  <2>1. Held = <<usb>> \o <<temp>>
    BY <1>6, NoneIsNoClient DEF Held
  <2>2. <<usb>> \in Seq(Clients) /\ <<temp>> \in Seq(Clients) /\ Len(<<usb>>) = 1 /\ Len(<<temp>>) = 1
        /\ <<usb>>[1] = usb /\ <<temp>>[1] = temp
    BY <1>6
  <2>3. Held \in Seq(Clients) /\ Len(Held) = 2 /\ Held[1] = usb /\ Held[2] = temp
    BY <2>1, <2>2, ConcatProperties
  <2> QED
    BY <2>3 DEF In
<1> QED
  BY <1>1, <1>2, <1>3, <1>4, <1>5, <1>6

\* StopServer() takes its clients along, when no other can come.
LEMMA DropClientsPreserves ==
    ASSUME IInv, DropClients
    PROVE  IInv'
<1>1. /\ exec = "wait" /\ exec' = "stop" /\ ~serving /\ usb' = None /\ temp' = None /\ told' = "close"
      /\ toStop' = Held /\ UNCHANGED <<cl, events, cleanQueue, running, serving>>
  BY DEF DropClients, Drop, cleanVars
<1>2. TypeInv /\ ServerInv /\ toStop = <<>>
  BY <1>1 DEF IInv, ServerInv
<1>3. toStop' \in Seq(Clients) /\ \A j \in Clients : In(toStop, j)' <=> j \in {usb, temp}
  <2>1. \A j : In(toStop, j)' <=> In(Held, j)
    BY <1>1 DEF In
  <2> QED
    BY <1>1, <1>2, <2>1, HeldClients
<1>4. TypeInv' /\ ListenerKnowsPromotion' /\ ServerInv'
  BY <1>1, <1>2, <1>3 DEF TypeInv, ListenerKnowsPromotion, ServerInv
<1>5. ASSUME NEW j \in Clients PROVE ClientInv(j)'
  <2>1. ClientInv(j) /\ j # None /\ ~In(toStop, j)
    BY <1>2, NoneIsNoClient DEF IInv, In
  <2>2. /\ (OpenIsQueued(j)' <=> OpenIsQueued(j)) /\ (EndIsQueued(j)' <=> EndIsQueued(j))
        /\ (In(cleanQueue, j)' <=> In(cleanQueue, j))
    BY <1>1 DEF OpenIsQueued, EndIsQueued, In
  <2>3. usb = j => cl[j].sock # "none"
    BY <2>1 DEF ClientInv, Order, NewClient
  <2>4. Fresh(j)' /\ Announcing(j)' /\ WillReport(j)'
    BY <1>1, <2>1 DEF Fresh, Announcing, WillReport
  <2>5. Order(j)' /\ Kept(j)'
    BY <1>1, <1>3, <2>1, <2>2, <2>3 DEF ClientInv, Order, Kept
  <2> QED
    BY <2>4, <2>5 DEF ClientInv
<1> QED
  BY <1>4, <1>5 DEF IInv

\* Stop() of a client that is scheduled or dropped.
LEMMA BeginStopEffect ==
    ASSUME IInv, NEW k \in Clients, cl[k].sock # "none", BeginStop(k)
    PROVE  /\ cl' \in [Clients -> Client] /\ \A j \in Clients \ {k} : cl'[j] = cl[j]
           /\ cl'[k].sock # "none" /\ cl'[k].stop # "none"
           /\ cl'[k].start = cl[k].start /\ cl'[k].reader = cl[k].reader
           /\ cl'[k].writer = cl[k].writer /\ cl'[k].connected = cl[k].connected
           /\ cl'[k].closed = cl[k].closed
<1>1. cl \in [Clients -> Client] /\ cl[k] \in Client
  BY DEF IInv, TypeInv
<1>2. CASE cl[k].stop = "none"
  <2> DEFINE r == [BeginTransportShutdown(cl[k]) EXCEPT !.stop = "writer"]
  <2>1. r \in Client
    BY <1>1, ShutdownTyped DEF Client
  <2>2. /\ r.sock = "closed" /\ r.stop = "writer" /\ r.start = cl[k].start /\ r.reader = cl[k].reader
        /\ r.writer = cl[k].writer /\ r.connected = cl[k].connected /\ r.closed = cl[k].closed
    BY <1>1 DEF BeginTransportShutdown, Client
  <2>3. cl' = [cl EXCEPT ![k] = r]
    BY <1>2 DEF BeginStop, Update
  <2> HIDE DEF r
  <2> QED
    BY <1>1, <2>1, <2>2, <2>3
<1>3. CASE cl[k].stop # "none"
  BY <1>1, <1>3 DEF BeginStop
<1> QED
  BY <1>2, <1>3

\* A client that is being stopped is not the temporary one, so the conditions
\* on clients do not depend on what Stop() changes.
LEMMA StopFrame ==
    ASSUME IInv, NEW k \in Clients, cl[k].sock # "none", temp # k, BeginStop(k),
           UNCHANGED <<usb, temp, events>>, NEW j \in Clients,
           cl[j].sock = "none" => (In(cleanQueue, j)' => In(cleanQueue, j))
                                  /\ (In(toStop, j)' => In(toStop, j)),
           temp = j => (In(cleanQueue, j)' => In(cleanQueue, j)) /\ (In(toStop, j)' => In(toStop, j)),
           j # k => (In(cleanQueue, j) => In(cleanQueue, j)') /\ (In(toStop, j) => In(toStop, j)')
    PROVE  ClientInv(j)'
<1>1. ClientInv(j)
  BY DEF IInv
<1>2. (OpenIsQueued(j)' <=> OpenIsQueued(j)) /\ (EndIsQueued(j)' <=> EndIsQueued(j))
  BY DEF OpenIsQueued, EndIsQueued
<1>3. CASE j = k
  BY <1>1, <1>2, <1>3, BeginStopEffect
     DEF ClientInv, Fresh, Announcing, WillReport, Order, Kept
<1>4. CASE j # k
  <2>1. cl'[j] = cl[j]
    BY <1>4, BeginStopEffect
  <2>2. Fresh(j)' /\ Announcing(j)' /\ WillReport(j)'
    BY <1>1, <1>2, <2>1, Zenon DEF ClientInv, Fresh, Announcing, WillReport
  <2>3. Order(j)'
    BY <1>1, <1>2, <2>1, Zenon DEF ClientInv, Order
  <2>4. Kept(j)'
    BY <1>1, <1>4, <2>1, Zenon DEF ClientInv, Kept
  <2> QED
    BY <2>2, <2>3, <2>4 DEF ClientInv
<1> QED
  BY <1>3, <1>4

\* StopServer() stops a client it took along.
LEMMA StopDroppedPreserves ==
    ASSUME IInv, StopDropped
    PROVE  IInv'
<1> DEFINE k == Head(toStop)
<1>1. /\ exec = "stop" /\ toStop # <<>> /\ BeginStop(k)
      /\ UNCHANGED <<usb, temp, events, cleanQueue, running, serving, told>>
      /\ \/ exec' = "join" /\ UNCHANGED toStop
         \/ toStop' = Tail(toStop) /\ UNCHANGED exec
  BY DEF StopDropped, cleanVars
<1>2. TypeInv /\ ListenerKnowsPromotion /\ ServerInv
  BY DEF IInv
<1>3. k \in Clients /\ toStop' \in Seq(Clients)
  <2>1. k \in Clients /\ Tail(toStop) \in Seq(Clients)
    BY <1>1, <1>2, HeadTailProperties DEF TypeInv
  <2> QED
    BY <1>1, <1>2, <2>1, Zenon DEF TypeInv
<1>4. In(toStop, k) /\ \A j \in Clients : (In(toStop, j)' => In(toStop, j))
                                          /\ (j # k /\ In(toStop, j) => In(toStop, j)')
  <2>1. \A j : In(toStop, j) <=> In(Tail(toStop), j) \/ j = k
    BY <1>1, <1>2, InTail DEF TypeInv
  <2>2. CASE UNCHANGED toStop
    BY <2>1, <2>2 DEF In
  <2>3. CASE toStop' = Tail(toStop)
    BY <2>1, <2>3, Zenon DEF In
  <2> QED
    BY <1>1, <2>2, <2>3
<1>5. cl[k].sock # "none" /\ temp # k
  BY <1>3, <1>4 DEF IInv, ClientInv, Order, Kept
<1>6. cl' \in [Clients -> Client]
  BY <1>1, <1>3, <1>5, BeginStopEffect
<1>7. TypeInv' /\ ListenerKnowsPromotion' /\ ServerInv'
  BY <1>1, <1>2, <1>3, <1>6 DEF TypeInv, ListenerKnowsPromotion, ServerInv
<1>8. ASSUME NEW j \in Clients PROVE In(cleanQueue, j)' <=> In(cleanQueue, j)
  BY <1>1 DEF In
<1> HIDE DEF k
<1>9. ASSUME NEW j \in Clients PROVE ClientInv(j)'
  BY <1>1, <1>3, <1>4, <1>5, <1>8, StopFrame
<1> QED
  BY <1>7, <1>9 DEF IInv

\* The clean executor stops the next client in its queue.
LEMMA CleanerStopsPreserves ==
    ASSUME IInv, CleanerStops
    PROVE  IInv'
<1> DEFINE k == Head(cleanQueue)
<1>1. /\ cleanQueue # <<>> /\ BeginStop(k) /\ cleanQueue' = Tail(cleanQueue)
      /\ UNCHANGED <<usb, temp, events, exec, toStop, running, serving, told>>
  BY DEF CleanerStops, serverVars
<1>2. TypeInv /\ ListenerKnowsPromotion /\ ServerInv
  BY DEF IInv
<1>3. k \in Clients /\ cleanQueue' \in Seq(Clients)
  BY <1>1, <1>2 DEF TypeInv
<1>4. In(cleanQueue, k) /\ \A j \in Clients : (In(cleanQueue, j)' => In(cleanQueue, j))
                                              /\ (j # k /\ In(cleanQueue, j) => In(cleanQueue, j)')
  <2>1. \A j : In(cleanQueue, j) <=> In(Tail(cleanQueue), j) \/ j = k
    BY <1>1, <1>2, InTail DEF TypeInv
  <2> QED
    BY <1>1, <2>1, Zenon DEF In
<1>5. cl[k].sock # "none" /\ temp # k
  BY <1>3, <1>4 DEF IInv, ClientInv, Order, Kept
<1>6. cl' \in [Clients -> Client]
  BY <1>1, <1>3, <1>5, BeginStopEffect
<1>7. TypeInv' /\ ListenerKnowsPromotion' /\ ServerInv'
  BY <1>1, <1>2, <1>3, <1>6 DEF TypeInv, ListenerKnowsPromotion, ServerInv
<1>8. ASSUME NEW j \in Clients PROVE In(toStop, j)' <=> In(toStop, j)
  BY <1>1 DEF In
<1> HIDE DEF k
<1>9. ASSUME NEW j \in Clients PROVE ClientInv(j)'
  BY <1>1, <1>3, <1>4, <1>5, <1>8, StopFrame
<1> QED
  BY <1>7, <1>9 DEF IInv

\* StopServer() goes on when the client it joined has stopped.
LEMMA StopServerGoesOnPreserves ==
    ASSUME IInv, StopServerGoesOn
    PROVE  IInv'
<1>1. UNCHANGED <<cl, usb, temp, events, cleanQueue, running, serving, told>>
  BY DEF StopServerGoesOn, clientVars, cleanVars
<1>2. TypeInv /\ ListenerKnowsPromotion /\ ServerInv
  BY DEF IInv
<1>3. /\ toStop' \in Seq(Clients)
      /\ \A j \in Clients : /\ In(toStop, j)' => In(toStop, j)
                            /\ In(toStop, j) => In(toStop, j)' \/ cl[j].stop # "none"
  <2>1. CASE exec = "join" /\ cl[Head(toStop)].stop = "done" /\ toStop' = Tail(toStop)
    <3>1. toStop # <<>> /\ toStop' \in Seq(Clients)
      BY <1>2, <2>1 DEF TypeInv, ServerInv
    <3>2. \A j : In(toStop, j) <=> In(Tail(toStop), j) \/ j = Head(toStop)
      BY <1>2, <3>1, InTail DEF TypeInv
    <3> QED
      BY <2>1, <3>1, <3>2, Zenon DEF In
  <2>2. CASE UNCHANGED toStop
    BY <1>2, <2>2 DEF In, TypeInv
  <2> QED
    BY <2>1, <2>2 DEF StopServerGoesOn
<1>4. TypeInv' /\ ListenerKnowsPromotion' /\ ServerInv'
  BY <1>1, <1>2, <1>3 DEF TypeInv, ListenerKnowsPromotion, ServerInv, StopServerGoesOn
<1>5. ASSUME NEW j \in Clients PROVE ClientInv(j)'
  <2>1. ClientInv(j)
    BY DEF IInv
  <2>2. /\ (OpenIsQueued(j)' <=> OpenIsQueued(j)) /\ (EndIsQueued(j)' <=> EndIsQueued(j))
        /\ (In(cleanQueue, j)' <=> In(cleanQueue, j))
    BY <1>1 DEF OpenIsQueued, EndIsQueued, In
  <2> QED
    BY <1>1, <1>3, <2>1, <2>2 DEF ClientInv, Fresh, Announcing, WillReport, Order, Kept
<1> QED
  BY <1>4, <1>5 DEF IInv

\* accept() brings a client, which supersedes a temporary one.
LEMMA AcceptPreserves ==
    ASSUME IInv, NEW k \in Clients, Accept(k)
    PROVE  IInv'
<1> DEFINE r == [cl[k] EXCEPT !.sock = "open", !.start = "submitted"]
<1>1. /\ (running \/ serving) /\ cl[k].sock = "none" /\ cl' = [cl EXCEPT ![k] = r]
      /\ temp' = k /\ IF temp = None THEN UNCHANGED cleanQueue ELSE Schedule(temp)
      /\ serving' = FALSE /\ UNCHANGED <<usb, events, toStop, told, exec, running>>
  BY DEF Accept, TakeClient, Update
<1>2. TypeInv /\ ListenerKnowsPromotion /\ ServerInv /\ \A j \in Clients : ClientInv(j)
  BY DEF IInv
<1>3. cl[k] = NewClient /\ temp # k /\ ~EndIsQueued(k) /\ ~In(cleanQueue, k) /\ ~In(toStop, k)
  BY <1>1, <1>2 DEF ClientInv, Order
<1>4. r \in Client
  <2>1. cl[k] \in Client
    BY <1>2 DEF TypeInv
  <2> QED
    BY <2>1 DEF Client
<1>5. /\ cl' \in [Clients -> Client] /\ cl'[k] = r /\ \A j \in Clients \ {k} : cl'[j] = cl[j]
  BY <1>1, <1>2, <1>4 DEF TypeInv
<1>6. /\ cleanQueue' \in Seq(Clients)
      /\ \A j \in Clients : /\ (In(cleanQueue, j)' <=> In(cleanQueue, j) \/ j = temp)
                            /\ (In(toStop, j)' <=> In(toStop, j))
  <2>1. CASE temp = None
    BY <1>1, <1>2, <2>1, NoneIsNoClient DEF In, TypeInv
  <2>2. CASE temp \in Clients
    <3>1. cleanQueue' = Append(cleanQueue, temp)
      BY <1>1, <2>2, NoneIsNoClient DEF Schedule
    <3>2. \A j \in Clients : In(Append(cleanQueue, temp), j) <=> In(cleanQueue, j) \/ j = temp
      BY <1>2, <2>2, InAppend DEF TypeInv
    <3> QED
      BY <1>1, <1>2, <2>2, <3>1, <3>2 DEF In, TypeInv
  <2> QED
    BY <1>2, <2>1, <2>2 DEF TypeInv
<1>7. TypeInv' /\ ListenerKnowsPromotion' /\ ServerInv'
  BY <1>1, <1>2, <1>5, <1>6 DEF TypeInv, ListenerKnowsPromotion, ServerInv
<1>8. ASSUME NEW j \in Clients PROVE ClientInv(j)'
  <2>1. ClientInv(j)
    BY <1>2
  <2>2. (OpenIsQueued(j)' <=> OpenIsQueued(j)) /\ (EndIsQueued(j)' <=> EndIsQueued(j))
    BY <1>1 DEF OpenIsQueued, EndIsQueued
  <2>3. CASE j = k
    <3>1. /\ r.sock = "open" /\ r.start = "submitted" /\ r.stop = "none" /\ r.reader = "off"
          /\ r.writer = "off" /\ ~r.quit /\ ~r.connected /\ ~r.closed /\ cl[k].reader = "off"
      BY <1>3 DEF NewClient
    <3> HIDE DEF r
    <3> QED
      BY <1>1, <1>3, <1>5, <1>6, <2>1, <2>2, <2>3, <3>1
         DEF ClientInv, Fresh, Announcing, WillReport, Order, Kept
  <2>4. CASE j # k
    <3>1. cl'[j] = cl[j] /\ temp' # j
      BY <1>1, <1>5, <2>4
    <3> QED
      BY <1>1, <1>6, <2>1, <2>2, <3>1 DEF ClientInv, Fresh, Announcing, WillReport, Order, Kept
  <2> QED
    BY <2>3, <2>4
<1> QED
  BY <1>7, <1>8 DEF IInv

\* Calls of the core, and the clean executor between two clients.
LEMMA OtherPreserves ==
    ASSUME IInv, CleanerDone \/ AcceptFails \/ StartServer \/ StopServer \/ UNCHANGED vars
    PROVE  IInv'
<1>1. UNCHANGED <<cl, usb, temp, events, cleanQueue, toStop, told>>
  BY DEF CleanerDone, AcceptFails, StartServer, StopServer, vars, clientVars, cleanVars, serverVars
<1>2. ServerInv'
  BY DEF IInv, ServerInv, CleanerDone, AcceptFails, StartServer, StopServer, vars, clientVars,
         cleanVars, serverVars
<1>3. TypeInv' /\ ListenerKnowsPromotion'
  BY <1>1 DEF IInv, TypeInv, ListenerKnowsPromotion
<1>4. ASSUME NEW j \in Clients PROVE ClientInv(j)'
  BY <1>1, SameQueues DEF IInv, ClientInv, Fresh, Announcing, WillReport, Order, Kept
<1> QED
  BY <1>2, <1>3, <1>4 DEF IInv

\* IInv holds in every reachable state.
THEOREM Invariance == Spec => []IInv
<1>1. Init => IInv
  <2> SUFFICES ASSUME Init PROVE IInv
    OBVIOUS
  <2>1. NewClient \in Client
    <3>1. FALSE \in BOOLEAN
      BY Zenon
    <3> QED
      BY <3>1, Zenon DEF NewClient, Client, Pc
  <2>2. TypeInv
    BY <2>1 DEF Init, TypeInv
  <2>3. ListenerKnowsPromotion /\ ServerInv
    BY DEF Init, ListenerKnowsPromotion, ServerInv
  <2>4. ASSUME NEW j \in Clients PROVE ClientInv(j)
    <3>1. cl[j] = NewClient /\ j # None /\ usb = None /\ temp = None
      BY NoneIsNoClient DEF Init
    <3>2. ~OpenIsQueued(j) /\ ~EndIsQueued(j) /\ ~In(cleanQueue, j) /\ ~In(toStop, j)
      BY DEF Init, OpenIsQueued, EndIsQueued, In
    <3>3. NewClient.start = "none" /\ NewClient.reader = "off" /\ NewClient.sock = "none"
      BY DEF NewClient
    <3> QED
      BY <3>1, <3>2, <3>3 DEF ClientInv, Fresh, Announcing, WillReport, Order, Kept
  <2> QED
    BY <2>2, <2>3, <2>4 DEF IInv
<1>2. IInv /\ [Next]_vars => IInv'
  BY ClientPreserves, HandleOnOpenStatusPreserves, HandleOnEndStatusPreserves, DisconnectPreserves,
     DropClientsPreserves, StopDroppedPreserves, StopServerGoesOnPreserves, CleanerStopsPreserves,
     AcceptPreserves, OtherPreserves DEF Next, ExecutorStep, CleanerStep
<1> QED
  BY <1>1, <1>2, PTL DEF Spec

\* The core's last report is "open" exactly while a client is promoted, for
\* any number of connections and calls (HandleOnOpenStatus(),
\* HandleOnCloseStatus(), HandleOnErrorStatus()).
THEOREM ListenerIsInformed == Spec => []ListenerKnowsPromotion
<1>1. IInv => ListenerKnowsPromotion
  BY DEF IInv
<1> QED
  BY <1>1, Invariance, PTL

\* A promoted client whose threads have both ended has its close or error in
\* the executor's queue, however its reader, its writer, its Stop(), newer
\* connections and the core's calls interleave (NotifyCloseOnce() against
\* HandleOnOpenStatus()).
THEOREM NoGhosts == Spec => []NoGhostIsPromoted
<1>1. IInv => NoGhostIsPromoted
  <2> SUFFICES ASSUME IInv, usb # None, Over(usb) PROVE EndIsQueued(usb)
    BY DEF NoGhostIsPromoted
  <2>1. usb \in Clients
    BY DEF IInv, TypeInv
  <2>2. WillReport(usb)
    BY <2>1 DEF IInv, ClientInv
  <2> QED
    BY <2>1, <2>2 DEF WillReport, Over
<1> QED
  BY <1>1, Invariance, PTL

\* When StopServer() has returned every accepted client has been stopped or
\* is in the queue of the clean executor, those included that were accepted
\* while it waited for the listen thread.
THEOREM StopForgetsNoClient == Spec => []StopServerLeavesNoClient
<1>1. IInv => StopServerLeavesNoClient
  <2> SUFFICES ASSUME IInv, exec = "idle", ~running, NEW k \in Clients, cl[k].sock # "none"
               PROVE  cl[k].stop # "none" \/ In(cleanQueue, k)
    BY DEF StopServerLeavesNoClient, In
  <2>1. usb = None /\ temp = None /\ toStop = <<>>
    BY DEF IInv, ServerInv
  <2>2. ~In(toStop, k) /\ k # None
    BY <2>1, NoneIsNoClient DEF In
  <2> QED
    BY <2>1, <2>2 DEF IInv, ClientInv, Kept
<1> QED
  BY <1>1, Invariance, PTL
=============================================================================
