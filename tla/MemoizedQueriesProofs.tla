----------------------- MODULE MemoizedQueriesProofs -----------------------
(***************************************************************************)
(* Proofs about MemoizedQueries, for any sets of requesters and runtimes,  *)
(* any validity period and any number of messages.                         *)
(***************************************************************************)
EXTENDS MemoizedQueries, SequenceTheorems, TLAPS

\* The validity period is a natural number wherever ages are compared.
USE ValidityNat

Ages == {None} \cup 0..(Validity + 1)
Notification == [version : Nat, age : Ages]

TableTypeOK ==
    /\ notifications \in [Runtimes -> Notification]
    /\ pendingQueries \in [Runtimes -> Ages]
    /\ retryTimer \in [Runtimes -> Ages]
    /\ quiet \in [Runtimes -> Ages]

PeersTypeOK ==
    /\ attached \in BOOLEAN
    /\ status \in [Runtimes -> {"new", "open", "dying", "hidden", "dropped", "gone"}]
    /\ version \in [Runtimes -> Nat]
    /\ wire \in [Runtimes -> Seq(Nat)]
    /\ view \in [Requesters -> [Runtimes -> Nat]]
    /\ waiting \subseteq Requesters \X Runtimes

\* A pending query has its timer and dates from the last send; only a
\* registered runtime has one, and one that has none was sent nothing within
\* the validity period.  While ownership is lost no USB runtime is registered.
QueryInv ==
    \A c \in Runtimes :
        /\ retryTimer[c] = pendingQueries[c]
        /\ pendingQueries[c] # None => quiet[c] = pendingQueries[c] /\ Registered(c)
        /\ pendingQueries[c] = None /\ Registered(c)
             => quiet[c] \in {None} \cup Validity..(Validity + 1)
        /\ status[c] \in {"new", "hidden"} => quiet[c] = None
        /\ c \in UsbRuntimes /\ ~attached => ~Registered(c)

\* Requesters wait for registered runtimes only, and while the socket is open
\* for one that a query is pending for.
WaitersInv ==
    \A r \in Requesters, c \in Runtimes :
        <<r, c>> \in waiting => Registered(c) /\ (status[c] = "open" => pendingQueries[c] # None)

Ascending(s) == \A i, j \in 1..Len(s) : i <= j => s[i] <= s[j]
BelowAll(v, s) == \A i \in 1..Len(s) : v <= s[i]
AllBelow(s, v) == \A i \in 1..Len(s) : s[i] <= v

\* A runtime of version v with the versions w on the wire, of which n is cached
\* and s was seen by a requester: nobody is ahead of those before them.
Orderly(w, v, n, s) ==
    /\ Ascending(w) /\ AllBelow(w, v)
    /\ s <= v /\ BelowAll(s, w)
    /\ n.age # None => n.version <= v /\ BelowAll(n.version, w) /\ s <= n.version
OrderInv ==
    \A r \in Requesters, c \in Runtimes :
        Orderly(wire[c], version[c], notifications[c], view[r][c])

MemoInv == TableTypeOK /\ PeersTypeOK /\ QueryInv /\ WaitersInv /\ OrderInv

\* The oldest version on the wire is taken off.
LEMMA TailAscends ==
    ASSUME NEW s \in Seq(Nat), s # <<>>, Ascending(s)
    PROVE  /\ Head(s) \in Nat /\ Tail(s) \in Seq(Nat)
           /\ Ascending(Tail(s)) /\ BelowAll(Head(s), Tail(s))
           /\ \A v \in Nat : BelowAll(v, s) => v <= Head(s) /\ BelowAll(v, Tail(s))
           /\ \A v \in Nat : AllBelow(s, v) => Head(s) <= v /\ AllBelow(Tail(s), v)
<1>1. /\ Len(s) \in Nat \ {0} /\ Head(s) = s[1] /\ Tail(s) \in Seq(Nat)
      /\ Len(Tail(s)) = Len(s) - 1
      /\ \A i \in 1..Len(Tail(s)) : Tail(s)[i] = s[i + 1]
      /\ \A i \in 1..Len(s) : s[i] \in Nat
  OBVIOUS
<1>2. \A i \in 1..Len(Tail(s)) : i + 1 \in 1..Len(s) /\ Tail(s)[i] = s[i + 1]
  BY <1>1
<1>3. 1 \in 1..Len(s)
  BY <1>1
<1> HIDE DEF Ascending
<1>4. \A i, j \in 1..Len(Tail(s)) : i <= j => Tail(s)[i] <= Tail(s)[j]
  <2> SUFFICES ASSUME NEW i \in 1..Len(Tail(s)), NEW j \in 1..Len(Tail(s)), i <= j
               PROVE  Tail(s)[i] <= Tail(s)[j]
    OBVIOUS
  <2>1. i + 1 <= j + 1 /\ i + 1 \in 1..Len(s) /\ j + 1 \in 1..Len(s)
    BY <1>1, <1>2
  <2>2. s[i + 1] <= s[j + 1]
    BY <2>1 DEF Ascending
  <2> QED
    BY <1>2, <2>2
<1>5. \A i \in 1..Len(Tail(s)) : s[1] <= s[i + 1]
  <2> SUFFICES ASSUME NEW i \in 1..Len(Tail(s)) PROVE s[1] <= s[i + 1]
    OBVIOUS
  <2>1. 1 <= i + 1 /\ i + 1 \in 1..Len(s)
    BY <1>1, <1>2
  <2> QED
    BY <1>3, <2>1 DEF Ascending
<1> QED
  BY <1>1, <1>2, <1>3, <1>4, <1>5 DEF Ascending, BelowAll, AllBelow

\* A version not older than the others is sent.
LEMMA AppendAscends ==
    ASSUME NEW s \in Seq(Nat), NEW n \in Nat, Ascending(s), AllBelow(s, n)
    PROVE  /\ Append(s, n) \in Seq(Nat)
           /\ Ascending(Append(s, n)) /\ AllBelow(Append(s, n), n)
           /\ \A v \in Nat : BelowAll(v, s) /\ v <= n => BelowAll(v, Append(s, n))
<1> DEFINE t == Append(s, n)
<1>1. /\ Len(s) \in Nat /\ t \in Seq(Nat) /\ Len(t) = Len(s) + 1 /\ t[Len(s) + 1] = n
      /\ \A i \in 1..Len(s) : t[i] = s[i] /\ s[i] \in Nat
  OBVIOUS
<1> HIDE DEF t
<1>2. \A i \in 1..Len(t) : \/ i \in 1..Len(s) /\ t[i] = s[i] /\ s[i] \in Nat
                           \/ i = Len(s) + 1 /\ t[i] = n
  BY <1>1
<1>3. AllBelow(t, n)
  BY <1>2 DEF AllBelow
<1>4. Ascending(t)
  <2> SUFFICES ASSUME NEW i \in 1..Len(t), NEW j \in 1..Len(t), i <= j PROVE t[i] <= t[j]
    BY DEF Ascending
  <2>1. CASE j = Len(s) + 1
    BY <1>2, <1>3, <2>1, <1>1 DEF AllBelow
  <2>2. CASE j \in 1..Len(s)
    <3>1. i \in 1..Len(s)
      BY <1>1, <2>2
    <3> QED
      BY <1>1, <2>2, <3>1 DEF Ascending
  <2> QED
    BY <1>2, <2>1, <2>2
<1>5. \A v \in Nat : BelowAll(v, s) /\ v <= n => BelowAll(v, t)
  BY <1>2 DEF BelowAll
<1> QED
  BY <1>1, <1>3, <1>4, <1>5 DEF t

\* A tick of the clock: nothing that has an age loses it, or is new again, and
\* what has expired stays expired.
LEMMA OlderAge ==
    ASSUME NEW a \in Ages
    PROVE  /\ Older(a) \in Ages
           /\ Older(a) = None <=> a = None
           /\ Older(a) # 0
           /\ a \in Validity..(Validity + 1) => Older(a) \in Validity..(Validity + 1)
  BY DEF Ages, Older, None

\* Ages are capped one tick beyond the validity period.
LEMMA TablePreserved ==
    ASSUME TableTypeOK, PeersTypeOK, [Next]_vars
    PROVE  TableTypeOK'
<1>1. None \in Ages /\ 0 \in Ages /\ NoNotification \in Notification
  BY DEF Notification, Ages, NoNotification
<1>2. ASSUME NEW S, ClearPending(S)
      PROVE  pendingQueries' \in [Runtimes -> Ages] /\ retryTimer' \in [Runtimes -> Ages]
  BY <1>1, <1>2 DEF TableTypeOK, ClearPending
<1>3. ASSUME NEW S, ClearClients(S), quiet' \in [Runtimes -> Ages] PROVE TableTypeOK'
  <2>1. notifications' \in [Runtimes -> Notification]
    BY <1>1, <1>3 DEF TableTypeOK, ClearClients
  <2> QED
    BY <1>2, <1>3, <2>1 DEF TableTypeOK, ClearClients
<1>4. CASE UNCHANGED <<tableVars, quiet>>
  BY <1>4 DEF TableTypeOK, tableVars
<1>5. ASSUME NEW c \in Runtimes, Retry(c) \/ \E r \in Requesters : QueryForward(r, c)
      PROVE  TableTypeOK'
  BY <1>1, <1>5 DEF TableTypeOK, QueryForward, Retry, Send
<1>6. ASSUME NEW c \in Runtimes, RetryFails(c) \/ \E r \in Requesters : QueryFails(r, c)
      PROVE  TableTypeOK'
  BY <1>2, <1>6 DEF TableTypeOK, QueryFails, RetryFails
<1>7. ASSUME NEW c \in Runtimes, HandleNotification(c) PROVE TableTypeOK'
  <2>1. CASE RecordNotification(c) /\ quiet' = [quiet EXCEPT ![c] = None]
    <3>1. [version |-> Head(wire[c]), age |-> 0] \in Notification
      BY <1>1, <1>7, HeadTailProperties DEF Notification, PeersTypeOK, HandleNotification
    <3>2. notifications' \in [Runtimes -> Notification]
      BY <2>1, <3>1 DEF TableTypeOK, RecordNotification
    <3> QED
      BY <1>1, <1>2, <2>1, <3>2 DEF TableTypeOK, RecordNotification
  <2> QED
    BY <1>4, <1>7, <2>1 DEF HandleNotification
<1>8. ASSUME NEW c \in Runtimes, HandleDisconnected(c) PROVE TableTypeOK'
  BY <1>3, <1>4, <1>8 DEF TableTypeOK, HandleDisconnected
<1>9. CASE HandleOwnershipLost
  <2>1. quiet' \in [Runtimes -> Ages]
    BY <1>1, <1>9 DEF HandleOwnershipLost
  <2> QED
    BY <1>3, <1>9, <2>1 DEF HandleOwnershipLost
<1>10. CASE Tick
  <2>1. \A a \in Ages : Older(a) \in Ages
    BY OlderAge
  <2>2. \A n \in Notification :
          [n EXCEPT !.age = Older(@)] \in Notification
    BY <2>1 DEF Notification
  <2>3. notifications' \in [Runtimes -> Notification]
    BY <1>10, <2>2 DEF TableTypeOK, Tick
  <2>4. /\ pendingQueries' \in [Runtimes -> Ages]
        /\ retryTimer' \in [Runtimes -> Ages]
        /\ quiet' \in [Runtimes -> Ages]
    BY <1>10, <2>1 DEF TableTypeOK, Tick
  <2> QED
    BY <2>3, <2>4 DEF TableTypeOK
<1> QED
  BY <1>4, <1>5, <1>6, <1>7, <1>8, <1>9, <1>10 DEF Next, QueryCached, QueryPending,
     AnswerQuery, IgnoreQuery, SessionsChange, Connect, SocketFails, HandleOwnershipAttached,
     vars

\* The state of runtimes and requesters keeps its type.
LEMMA PeersPreserved ==
    ASSUME TableTypeOK, PeersTypeOK, [Next]_vars
    PROVE  PeersTypeOK'
<1>1. CASE /\ UNCHANGED <<attached, status, version, wire, view>>
           /\ waiting' \subseteq Requesters \X Runtimes
  BY <1>1 DEF PeersTypeOK
<1>2. ASSUME NEW r \in Requesters, NEW c \in Runtimes,
             QueryPending(r, c) \/ QueryForward(r, c) \/ QueryFails(r, c)
      PROVE  PeersTypeOK'
  BY <1>1, <1>2 DEF PeersTypeOK, QueryPending, QueryForward, QueryFails, runtimeVars, requesterVars
<1>3. ASSUME NEW r \in Requesters, NEW c \in Runtimes, QueryCached(r, c) PROVE PeersTypeOK'
  <2>1. notifications[c].version \in Nat
    BY DEF Notification, TableTypeOK
  <2> QED
    BY <1>3, <2>1 DEF PeersTypeOK, QueryCached, runtimeVars
<1>4. ASSUME NEW c \in Runtimes, Retry(c) \/ RetryFails(c) \/ IgnoreQuery(c) PROVE PeersTypeOK'
  BY <1>1, <1>4 DEF PeersTypeOK, Retry, RetryFails, IgnoreQuery, runtimeVars, requesterVars
<1>5. ASSUME NEW c \in Runtimes, HandleNotification(c) PROVE PeersTypeOK'
  <2>1. Head(wire[c]) \in Nat /\ Tail(wire[c]) \in Seq(Nat)
    BY <1>5, HeadTailProperties DEF PeersTypeOK, HandleNotification
  <2>2. \A r \in Requesters : [view[r] EXCEPT ![c] = Head(wire[c])] \in [Runtimes -> Nat]
    BY <2>1 DEF PeersTypeOK
  <2>3. view' \in [Requesters -> [Runtimes -> Nat]] /\ waiting' \subseteq waiting
    <3>1. CASE UNCHANGED <<view, waiting>>
      BY <3>1 DEF PeersTypeOK
    <3>2. CASE view' = [r \in Requesters |-> [view[r] EXCEPT ![c] = Head(wire[c])]]
      BY <1>5, <2>2, <3>2 DEF HandleNotification, requesterVars
    <3> QED
      BY <1>5, <3>1, <3>2 DEF HandleNotification, requesterVars
  <2>4. wire' \in [Runtimes -> Seq(Nat)]
    BY <1>5, <2>1 DEF PeersTypeOK, HandleNotification
  <2> QED
    BY <1>5, <2>3, <2>4 DEF PeersTypeOK, HandleNotification
<1>6. ASSUME NEW c \in Runtimes, AnswerQuery(c) \/ SessionsChange(c) PROVE PeersTypeOK'
  <2>1. \A n \in Nat : Append(wire[c], n) \in Seq(Nat)
    BY AppendProperties DEF PeersTypeOK
  <2>2. version[c] \in Nat /\ version[c] + 1 \in Nat
    BY DEF PeersTypeOK
  <2>3. version' \in [Runtimes -> Nat]
    BY <1>6, <2>2, Zenon DEF PeersTypeOK, AnswerQuery, SessionsChange
  <2>4. \E n \in Nat : wire' = [wire EXCEPT ![c] = Append(@, n)]
    BY <1>6, <2>2 DEF AnswerQuery, SessionsChange, Emit
  <2>5. wire' \in [Runtimes -> Seq(Nat)]
    BY <2>1, <2>4 DEF PeersTypeOK
  <2> QED
    BY <1>6, <2>3, <2>5 DEF PeersTypeOK, AnswerQuery, SessionsChange, requesterVars
<1>7. ASSUME NEW c \in Runtimes, Connect(c) \/ SocketFails(c) PROVE PeersTypeOK'
  <2>1. status' \in [Runtimes -> {"new", "open", "dying", "hidden", "dropped", "gone"}]
    BY <1>7, Zenon DEF PeersTypeOK, Connect, SocketFails
  <2> QED
    BY <1>7, <2>1 DEF PeersTypeOK, Connect, SocketFails, runtimeVars, requesterVars
<1>8. ASSUME NEW c \in Runtimes, HandleDisconnected(c) PROVE PeersTypeOK'
  <2>1. wire' \in [Runtimes -> Seq(Nat)]
    BY <1>8, EmptySeq DEF PeersTypeOK, HandleDisconnected
  <2> QED
    BY <1>8, <2>1 DEF PeersTypeOK, HandleDisconnected
<1>9. CASE HandleOwnershipLost \/ HandleOwnershipAttached
  <2>1. status' \in [Runtimes -> {"new", "open", "dying", "hidden", "dropped", "gone"}]
    BY <1>9 DEF PeersTypeOK, HandleOwnershipLost, HandleOwnershipAttached
  <2>2. attached' \in BOOLEAN /\ waiting' \subseteq waiting
    BY <1>9, Zenon DEF HandleOwnershipLost, HandleOwnershipAttached, requesterVars
  <2> QED
    BY <1>9, <2>1, <2>2 DEF PeersTypeOK, HandleOwnershipLost, HandleOwnershipAttached,
       runtimeVars, requesterVars
<1>10. CASE Tick \/ UNCHANGED vars
  BY <1>1, <1>10 DEF PeersTypeOK, Tick, vars, runtimeVars, requesterVars
<1> QED
  BY <1>2, <1>3, <1>4, <1>5, <1>6, <1>7, <1>8, <1>9, <1>10 DEF Next

\* The table of pending queries, its timers and the last send stay in step.
LEMMA QueryPreserved ==
    ASSUME TableTypeOK, PeersTypeOK, QueryInv, [Next]_vars
    PROVE  QueryInv'
<1>1. CASE UNCHANGED <<tableVars, attached, status, quiet>>
  BY <1>1 DEF QueryInv, Registered, tableVars
<1>2. ASSUME NEW r \in Requesters, NEW c \in Runtimes, QueryForward(r, c) PROVE QueryInv'
  BY <1>2 DEF TableTypeOK, PeersTypeOK, QueryInv, Registered, Ages, None, IsPending,
     QueryForward, Send, tableVars, runtimeVars, requesterVars, Runtimes
<1>3. ASSUME NEW r \in Requesters, NEW c \in Runtimes, QueryFails(r, c) PROVE QueryInv'
  BY <1>3 DEF TableTypeOK, PeersTypeOK, QueryInv, Registered, Ages, None, IsPending,
     QueryFails, ClearPending, tableVars, runtimeVars, requesterVars, Runtimes
<1>4. ASSUME NEW c \in Runtimes, Retry(c) PROVE QueryInv'
  BY <1>4 DEF TableTypeOK, PeersTypeOK, QueryInv, Registered, Ages, None, IsPending, Retry,
     Send, tableVars, runtimeVars, requesterVars, Runtimes
<1>5. ASSUME NEW c \in Runtimes, RetryFails(c) PROVE QueryInv'
  BY <1>5 DEF TableTypeOK, PeersTypeOK, QueryInv, Registered, Ages, None, IsPending,
     RetryFails, ClearPending, tableVars, runtimeVars, requesterVars, Runtimes
<1>6. ASSUME NEW c \in Runtimes, HandleNotification(c) PROVE QueryInv'
  <2>1. CASE UNCHANGED <<tableVars, quiet>>
    BY <1>6, <2>1 DEF QueryInv, Registered, HandleNotification, tableVars
  <2>2. CASE RecordNotification(c) /\ quiet' = [quiet EXCEPT ![c] = None]
    <3>1. \A d \in Runtimes :
            /\ pendingQueries'[d] = IF d = c THEN None ELSE pendingQueries[d]
            /\ retryTimer'[d] = IF d = c THEN None ELSE retryTimer[d]
            /\ quiet'[d] = IF d = c THEN None ELSE quiet[d]
      BY <2>2 DEF TableTypeOK, RecordNotification, ClearPending
    <3>2. UNCHANGED <<status, attached>>
      BY <1>6 DEF HandleNotification
    <3> QED
      BY <3>1, <3>2 DEF QueryInv, Registered
  <2> QED
    BY <1>6, <2>1, <2>2 DEF HandleNotification
<1>7. ASSUME NEW c \in Runtimes, Connect(c) PROVE QueryInv'
  BY <1>7, KindsDisjoint DEF TableTypeOK, PeersTypeOK, QueryInv, Registered, Ages, None,
     IsPending, Connect, tableVars, runtimeVars, requesterVars, Runtimes
<1>8. ASSUME NEW c \in Runtimes, SocketFails(c) PROVE QueryInv'
  BY <1>8 DEF TableTypeOK, PeersTypeOK, QueryInv, Registered, Ages, None, IsPending,
     SocketFails, tableVars, runtimeVars, requesterVars, Runtimes
<1>9. ASSUME NEW c \in Runtimes, HandleDisconnected(c) PROVE QueryInv'
  BY <1>9 DEF TableTypeOK, PeersTypeOK, QueryInv, Registered, Ages, None, IsPending,
     HandleDisconnected, ClearClients, ClearPending, tableVars, runtimeVars, requesterVars,
     Runtimes
<1>10. CASE HandleOwnershipLost
  BY <1>10 DEF TableTypeOK, PeersTypeOK, QueryInv, Registered, Ages, None, IsPending,
     HandleOwnershipLost, ClearClients, ClearPending, tableVars, runtimeVars, requesterVars,
     Runtimes
<1>11. CASE HandleOwnershipAttached
  BY <1>11 DEF TableTypeOK, PeersTypeOK, QueryInv, Registered, Ages, None, IsPending,
     HandleOwnershipAttached, tableVars, runtimeVars, requesterVars, Runtimes
<1>12. CASE Tick
  <2>1. \A c \in Runtimes : pendingQueries[c] \in Ages /\ quiet[c] \in Ages
    BY DEF TableTypeOK
  <2>2. \A a \in Ages : /\ Older(a) = None <=> a = None
                       /\ a \in Validity..(Validity + 1) => Older(a) \in Validity..(Validity + 1)
    BY OlderAge
  <2>3. Older(None) = None
    BY DEF Older
  <2> QED
    BY <1>12, <2>1, <2>2, <2>3 DEF QueryInv, Registered, Tick, tableVars, runtimeVars, requesterVars
<1> QED
  BY <1>1, <1>2, <1>3, <1>4, <1>5, <1>6, <1>7, <1>8, <1>9, <1>10, <1>11, <1>12
     DEF Next, QueryCached, QueryPending, AnswerQuery, IgnoreQuery, SessionsChange, vars

\* A query that ends leaves nobody waiting for a runtime whose socket is open.
LEMMA WaitersPreserved ==
    ASSUME TableTypeOK, PeersTypeOK, QueryInv, WaitersInv, [Next]_vars
    PROVE  WaitersInv'
<1>1. CASE UNCHANGED <<tableVars, status>> /\ waiting' \subseteq waiting
  BY <1>1 DEF WaitersInv, Registered, tableVars
<1>2. ASSUME NEW r \in Requesters, NEW c \in Runtimes, QueryPending(r, c) PROVE WaitersInv'
  BY <1>2 DEF TableTypeOK, PeersTypeOK, WaitersInv, Registered, IsPending, None,
     QueryPending, tableVars, runtimeVars, requesterVars, Runtimes
<1>3. ASSUME NEW r \in Requesters, NEW c \in Runtimes, QueryForward(r, c) PROVE WaitersInv'
  BY <1>3 DEF TableTypeOK, PeersTypeOK, WaitersInv, Registered, IsPending, None,
     QueryForward, Send, tableVars, runtimeVars, requesterVars, Runtimes
<1>4. ASSUME NEW r \in Requesters, NEW c \in Runtimes, QueryFails(r, c) PROVE WaitersInv'
  BY <1>4 DEF TableTypeOK, PeersTypeOK, WaitersInv, Registered, IsPending, None, QueryFails,
     ClearPending, tableVars, runtimeVars, requesterVars, Runtimes
<1>5. ASSUME NEW c \in Runtimes, Retry(c) PROVE WaitersInv'
  BY <1>5 DEF TableTypeOK, PeersTypeOK, WaitersInv, Registered, IsPending, None, Retry,
     Send, tableVars, runtimeVars, requesterVars, Runtimes
<1>6. ASSUME NEW c \in Runtimes, RetryFails(c) PROVE WaitersInv'
  BY <1>6 DEF TableTypeOK, PeersTypeOK, WaitersInv, Registered, IsPending, None, RetryFails,
     ClearPending, tableVars, runtimeVars, requesterVars, Runtimes
<1>7. ASSUME NEW c \in Runtimes, HandleNotification(c) PROVE WaitersInv'
  <2>1. UNCHANGED status /\ waiting' \subseteq waiting
    BY <1>7 DEF HandleNotification, requesterVars
  <2>2. CASE UNCHANGED tableVars
    BY <2>1, <2>2 DEF WaitersInv, Registered, tableVars
  <2>3. CASE RecordNotification(c) /\ waiting' = waiting \ (Requesters \X {c})
    <3>1. \A d \in Runtimes \ {c} : pendingQueries'[d] = pendingQueries[d]
      BY <2>3 DEF RecordNotification, ClearPending
    <3> QED
      BY <2>1, <2>3, <3>1 DEF WaitersInv, Registered
  <2> QED
    BY <1>7, <2>2, <2>3 DEF HandleNotification
<1>8. ASSUME NEW c \in Runtimes, Connect(c) PROVE WaitersInv'
  BY <1>8 DEF TableTypeOK, PeersTypeOK, WaitersInv, Registered, IsPending, None, Connect,
     tableVars, runtimeVars, requesterVars, Runtimes
<1>9. ASSUME NEW c \in Runtimes, SocketFails(c) PROVE WaitersInv'
  BY <1>9 DEF TableTypeOK, PeersTypeOK, WaitersInv, Registered, IsPending, None,
     SocketFails, tableVars, runtimeVars, requesterVars, Runtimes
<1>10. ASSUME NEW c \in Runtimes, HandleDisconnected(c) PROVE WaitersInv'
  BY <1>10 DEF TableTypeOK, PeersTypeOK, WaitersInv, Registered, IsPending, None,
     HandleDisconnected, ClearClients, ClearPending, tableVars, runtimeVars, requesterVars,
     Runtimes
<1>11. CASE HandleOwnershipLost
  BY <1>11 DEF TableTypeOK, PeersTypeOK, WaitersInv, Registered, IsPending, None,
     HandleOwnershipLost, ClearClients, ClearPending, tableVars, runtimeVars, requesterVars,
     Runtimes
<1>12. CASE HandleOwnershipAttached
  BY <1>12 DEF TableTypeOK, PeersTypeOK, WaitersInv, Registered, IsPending, None,
     HandleOwnershipAttached, tableVars, runtimeVars, requesterVars, Runtimes
<1>13. CASE Tick
  <2>1. \A c \in Runtimes : pendingQueries[c] \in Ages
    BY DEF TableTypeOK
  <2>2. \A a \in Ages : Older(a) = None <=> a = None
    BY OlderAge
  <2> QED
    BY <1>13, <2>1, <2>2 DEF WaitersInv, Registered, Tick, tableVars, runtimeVars, requesterVars
<1> QED
  BY <1>1, <1>2, <1>3, <1>4, <1>5, <1>6, <1>7, <1>8, <1>9, <1>10, <1>11, <1>12, <1>13
     DEF Next, QueryCached, AnswerQuery, IgnoreQuery, SessionsChange, vars, requesterVars

\* Facts about Orderly, one for each way in which its arguments change.
LEMMA CachedAnswerIsOrderly ==
    ASSUME NEW w \in Seq(Nat), NEW v \in Nat, NEW n \in Notification, NEW s \in Nat,
           Orderly(w, v, n, s), n.age # None
    PROVE  Orderly(w, v, n, n.version) /\ n.version >= s
<1>1. n.version \in Nat
  BY DEF Notification
<1> QED
  BY <1>1 DEF Orderly

\* A session list arrives: cached and shown, it is newer than what was seen.
LEMMA ReceiptIsOrderly ==
    ASSUME NEW w \in Seq(Nat), NEW v \in Nat, NEW n \in Notification, NEW s \in Nat,
           Orderly(w, v, n, s), w # <<>>
    PROVE  /\ Orderly(Tail(w), v, n, s)
           /\ Orderly(Tail(w), v, [version |-> Head(w), age |-> 0], Head(w))
           /\ Head(w) >= s
<1>1. /\ Head(w) \in Nat /\ Ascending(Tail(w)) /\ BelowAll(Head(w), Tail(w))
      /\ \A x \in Nat : BelowAll(x, w) => x <= Head(w) /\ BelowAll(x, Tail(w))
      /\ \A x \in Nat : AllBelow(w, x) => Head(w) <= x /\ AllBelow(Tail(w), x)
  BY TailAscends DEF Orderly
<1>2. n.version \in Nat
  BY DEF Notification
<1>3. Orderly(Tail(w), v, n, s) /\ Head(w) >= s
  BY <1>1, <1>2 DEF Orderly
<1>4. Orderly(Tail(w), v, [version |-> Head(w), age |-> 0], Head(w))
  BY <1>1 DEF Orderly
<1> QED
  BY <1>3, <1>4

\* A runtime sends a list that is at least as new as its last.
LEMMA EmissionIsOrderly ==
    ASSUME NEW w \in Seq(Nat), NEW v \in Nat, NEW n \in Notification, NEW s \in Nat,
           Orderly(w, v, n, s), NEW x \in Nat, x >= v
    PROVE  Orderly(Append(w, x), x, n, s)
<1>1. n.version \in Nat
  BY DEF Notification
<1>2. AllBelow(w, x)
  <2>1. \A i \in 1..Len(w) : w[i] \in Nat
    OBVIOUS
  <2> QED
    BY <2>1 DEF Orderly, AllBelow
<1>3. /\ Ascending(Append(w, x)) /\ AllBelow(Append(w, x), x)
      /\ \A y \in Nat : BelowAll(y, w) /\ y <= x => BelowAll(y, Append(w, x))
  BY <1>2, AppendAscends DEF Orderly
<1> QED
  BY <1>1, <1>3 DEF Orderly

\* Dropping the cache entry or the frames under way puts nothing ahead.
LEMMA ForgettingIsOrderly ==
    ASSUME NEW w, NEW v, NEW n, NEW s, Orderly(w, v, n, s)
    PROVE  /\ Orderly(w, v, NoNotification, s)
           /\ Orderly(<<>>, v, n, s)
           /\ Orderly(<<>>, v, NoNotification, s)
  BY DEF Orderly, NoNotification, Ascending, AllBelow, BelowAll

\* Time passes for the cache entry, whose version stays.
LEMMA AgeingIsOrderly ==
    ASSUME NEW w, NEW v, NEW n \in Notification, NEW s, Orderly(w, v, n, s)
    PROVE  Orderly(w, v, [n EXCEPT !.age = Older(@)], s)
  BY DEF Orderly, Notification, Older

\* A step keeps the order of a runtime's versions, and shows no requester an
\* older one than it has seen.
LEMMA OrderPreserved ==
    ASSUME TableTypeOK, PeersTypeOK, OrderInv, [Next]_vars
    PROVE  OrderInv' /\ \A r \in Requesters, c \in Runtimes : view'[r][c] >= view[r][c]
<1> SUFFICES ASSUME NEW r \in Requesters, NEW c \in Runtimes
             PROVE  /\ Orderly(wire'[c], version'[c], notifications'[c], view'[r][c])
                    /\ view'[r][c] >= view[r][c]
  BY DEF OrderInv
<1> DEFINE w == wire[c]
           v == version[c]
           n == notifications[c]
           s == view[r][c]
           Goal == /\ Orderly(wire'[c], version'[c], notifications'[c], view'[r][c])
                   /\ view'[r][c] >= s
<1>1. w \in Seq(Nat) /\ v \in Nat /\ n \in Notification /\ s \in Nat /\ s >= s
  BY DEF TableTypeOK, PeersTypeOK, Notification
<1>2. Orderly(w, v, n, s)
  BY DEF OrderInv
<1>3. CASE wire'[c] = w /\ version'[c] = v /\ notifications'[c] = n /\ view'[r][c] = s
  BY <1>1, <1>2, <1>3
<1>4. ASSUME NEW q \in Requesters, NEW d \in Runtimes, QueryCached(q, d) PROVE Goal
  <2>1. /\ wire'[c] = w /\ version'[c] = v /\ notifications'[c] = n
        /\ view'[r][c] = IF q = r /\ d = c THEN n.version ELSE s
    BY <1>4 DEF QueryCached, tableVars, runtimeVars, PeersTypeOK
  <2>2. CASE q = r /\ d = c
    <3>1. n.age # None
      BY <1>4, <2>2 DEF QueryCached, IsFresh
    <3>2. Orderly(w, v, n, n.version) /\ n.version >= s
      BY <1>1, <1>2, <3>1, CachedAnswerIsOrderly
    <3> QED
      BY <2>1, <2>2, <3>2
  <2> QED
    BY <1>3, <2>1, <2>2
<1>5. ASSUME NEW d \in Runtimes, HandleNotification(d) PROVE Goal
  <2>1. CASE d # c
    <3>1. wire'[c] = w /\ version'[c] = v /\ notifications'[c] = n /\ view'[r][c] = s
      BY <1>5, <2>1 DEF HandleNotification, RecordNotification, tableVars, requesterVars,
         TableTypeOK, PeersTypeOK
    <3> QED
      BY <1>3, <3>1
  <2>2. CASE d = c
    <3>1. w # <<>> /\ wire'[c] = Tail(w) /\ version'[c] = v
      BY <1>5, <2>2 DEF HandleNotification, PeersTypeOK
    <3>2. /\ Orderly(Tail(w), v, n, s)
          /\ Orderly(Tail(w), v, [version |-> Head(w), age |-> 0], Head(w))
          /\ Head(w) >= s
      BY <1>1, <1>2, <3>1, ReceiptIsOrderly
    <3>3. CASE notifications' = notifications /\ view' = view
      BY <1>1, <3>1, <3>2, <3>3
    <3>4. CASE /\ RecordNotification(c)
               /\ view' = [q \in Requesters |-> [view[q] EXCEPT ![c] = Head(w)]]
      <4>1. notifications'[c] = [version |-> Head(w), age |-> 0] /\ view'[r][c] = Head(w)
        BY <3>4 DEF RecordNotification, TableTypeOK, PeersTypeOK
      <4> QED
        BY <3>1, <3>2, <4>1
    <3> QED
      BY <1>5, <2>2, <3>3, <3>4 DEF HandleNotification, tableVars, requesterVars
  <2> QED
    BY <2>1, <2>2
<1>6. ASSUME NEW d \in Runtimes, AnswerQuery(d) \/ SessionsChange(d) PROVE Goal
  <2>1. notifications'[c] = n /\ view'[r][c] = s
    BY <1>6 DEF AnswerQuery, SessionsChange, tableVars, requesterVars
  <2>2. CASE d # c
    <3>1. wire'[c] = w /\ version'[c] = v
      BY <1>6, <2>2 DEF AnswerQuery, SessionsChange, Emit, PeersTypeOK
    <3> QED
      BY <1>3, <2>1, <3>1
  <2>3. CASE d = c
    <3>1. \E x \in Nat : x >= v /\ version'[c] = x /\ wire'[c] = Append(w, x)
      <4>1. /\ v >= v /\ v + 1 >= v /\ v + 1 \in Nat
        BY <1>1
      <4>2. CASE AnswerQuery(d)
        <5>1. version'[c] = v /\ wire'[c] = Append(w, v)
          BY <2>3, <4>2 DEF AnswerQuery, Emit, PeersTypeOK
        <5> QED
          BY <1>1, <4>1, <5>1
      <4>3. CASE SessionsChange(d)
        <5>1. version'[c] = v + 1 /\ wire'[c] = Append(w, v + 1)
          BY <2>3, <4>3 DEF SessionsChange, Emit, PeersTypeOK
        <5> QED
          BY <4>1, <5>1
      <4> QED
        BY <1>6, <4>2, <4>3
    <3>2. PICK x \in Nat : x >= v /\ version'[c] = x /\ wire'[c] = Append(w, x)
      BY <3>1
    <3>3. Orderly(Append(w, x), x, n, s)
      BY <1>1, <1>2, <3>2, EmissionIsOrderly
    <3> QED
      BY <1>1, <2>1, <3>2, <3>3
  <2> QED
    BY <2>2, <2>3
<1>7. ASSUME NEW d \in Runtimes, HandleDisconnected(d) PROVE Goal
  <2>1. /\ version'[c] = v /\ view'[r][c] = s
        /\ wire'[c] \in {w, <<>>} /\ notifications'[c] \in {n, NoNotification}
    BY <1>7 DEF HandleDisconnected, ClearClients, tableVars, PeersTypeOK
  <2> QED
    BY <1>1, <1>2, <2>1, ForgettingIsOrderly
<1>8. CASE HandleOwnershipLost
  <2>1. /\ wire'[c] = w /\ version'[c] = v /\ view'[r][c] = s
        /\ notifications'[c] = NoNotification
    BY <1>8 DEF HandleOwnershipLost, ClearClients, runtimeVars
  <2> QED
    BY <1>1, <1>2, <2>1, ForgettingIsOrderly
<1>9. CASE Tick
  <2>1. /\ wire'[c] = w /\ version'[c] = v /\ view'[r][c] = s
        /\ notifications'[c] = [n EXCEPT !.age = Older(@)]
    BY <1>9 DEF Tick, runtimeVars, requesterVars
  <2> QED
    BY <1>1, <1>2, <2>1, AgeingIsOrderly
<1>10. ASSUME NEW d \in Runtimes,
             \/ \E q \in Requesters : QueryPending(q, d) \/ QueryForward(q, d) \/ QueryFails(q, d)
             \/ Retry(d) \/ RetryFails(d) \/ IgnoreQuery(d) \/ Connect(d) \/ SocketFails(d)
       PROVE Goal
  <2>1. UNCHANGED <<wire, version, notifications, view>>
    BY <1>10 DEF QueryPending, QueryForward, QueryFails, Retry, RetryFails, IgnoreQuery,
       Connect, SocketFails, tableVars, runtimeVars, requesterVars
  <2> QED
    BY <1>3, <2>1
<1>11. CASE HandleOwnershipAttached \/ UNCHANGED vars
  BY <1>3, <1>11 DEF HandleOwnershipAttached, vars, tableVars, runtimeVars, requesterVars
<1>12. Goal <=> /\ Orderly(wire'[c], version'[c], notifications'[c], view'[r][c])
                /\ view'[r][c] >= view[r][c]
  OBVIOUS
<1> HIDE DEF Goal
<1> QED
  BY <1>4, <1>5, <1>6, <1>7, <1>8, <1>9, <1>10, <1>11, <1>12 DEF Next

\* At the start nothing is cached, pending or awaited.
LEMMA InitMemo ==
    ASSUME Init
    PROVE  MemoInv
<1>1. None \in Ages /\ NoNotification \in Notification
  BY DEF Notification, Ages, NoNotification
<1>2. TableTypeOK /\ PeersTypeOK
  BY <1>1, EmptySeq DEF Init, TableTypeOK, PeersTypeOK
<1>3. QueryInv /\ WaitersInv
  BY DEF Init, QueryInv, WaitersInv, Registered
<1>4. OrderInv
  BY DEF Init, OrderInv, Orderly, Ascending, BelowAll, AllBelow, NoNotification
<1> QED
  BY <1>2, <1>3, <1>4 DEF MemoInv

\* MemoInv holds in every reachable state.
THEOREM MemoInvariance == Spec => []MemoInv
<1>1. Init => MemoInv
  BY InitMemo
<1>2. MemoInv /\ [Next]_vars => MemoInv'
  BY TablePreserved, PeersPreserved, QueryPreserved, WaitersPreserved, OrderPreserved DEF MemoInv
<1> QED
  BY <1>1, <1>2, PTL DEF Spec

\* A requester whose query was accepted without an answer is never forgotten
\* while the runtime's socket is open: a query is pending, whatever expires,
\* fails, is retried or is lost and attached again meanwhile.
THEOREM NoWaiterIsForgotten == Spec => []WaitersAreServed
<1>1. MemoInv => WaitersAreServed
  BY DEF MemoInv, PeersTypeOK, WaitersInv, WaitersAreServed
<1> QED
  BY <1>1, MemoInvariance, PTL

\* However many requesters ask, two queries to a runtime are at least the
\* validity period apart, unless the first was answered or given up.
THEOREM QueriesAreSpaced == Spec => SendsAreSpaced
<1> DEFINE Spaced == \A c \in Runtimes : quiet'[c] = 0 /\ quiet[c] # 0
                       => quiet[c] \in {None} \cup Validity..(Validity + 1)
<1>1. ASSUME MemoInv, [Next]_vars PROVE Spaced
  <2>1. CASE UNCHANGED quiet
    BY <2>1
  <2>2. ASSUME NEW c \in Runtimes, Send(c),
               retryTimer[c] >= Validity \/ (Registered(c) /\ ~IsPending(c))
        PROVE  Spaced
    BY <1>1, <2>2 DEF MemoInv, TableTypeOK, QueryInv, Send, IsPending, Ages, None
  <2>3. CASE Tick
    BY <1>1, <2>3, OlderAge DEF MemoInv, TableTypeOK, Tick
  <2>4. CASE HandleOwnershipLost
    BY <2>4 DEF HandleOwnershipLost, None
  <2>5. ASSUME NEW c \in Runtimes, quiet' = [quiet EXCEPT ![c] = None] PROVE Spaced
    BY <1>1, <2>5 DEF MemoInv, TableTypeOK, None
  <2>6. ASSUME NEW r \in Requesters, NEW c \in Runtimes,
               \/ QueryCached(r, c) \/ QueryPending(r, c) \/ QueryForward(r, c) \/ QueryFails(r, c)
        PROVE  Spaced
    BY <2>1, <2>2, <2>6 DEF QueryCached, QueryPending, QueryForward, QueryFails
  <2>7. ASSUME NEW c \in Runtimes, Retry(c) \/ RetryFails(c) \/ HandleNotification(c) PROVE Spaced
    BY <2>1, <2>2, <2>5, <2>7 DEF Retry, RetryFails, HandleNotification
  <2>8. ASSUME NEW c \in Runtimes,
               \/ AnswerQuery(c) \/ IgnoreQuery(c) \/ SessionsChange(c) \/ Connect(c)
               \/ SocketFails(c) \/ HandleDisconnected(c)
        PROVE  Spaced
    BY <2>1, <2>8 DEF AnswerQuery, IgnoreQuery, SessionsChange, Connect, SocketFails,
       HandleDisconnected
  <2>9. CASE HandleOwnershipAttached \/ UNCHANGED vars
    BY <2>1, <2>9 DEF HandleOwnershipAttached, vars
  <2> HIDE DEF Spaced
  <2> QED
    BY <1>1, <2>3, <2>4, <2>6, <2>7, <2>8, <2>9 DEF Next
<1> QED
  BY <1>1, MemoInvariance, PTL DEF Spec, SendsAreSpaced

\* No requester is shown an older session list than it has seen, from the
\* cache or by a broadcast.
THEOREM ViewsAdvance == Spec => ViewsNeverGoBack
<1>1. MemoInv /\ [Next]_vars => \A r \in Requesters, c \in Runtimes : view'[r][c] >= view[r][c]
  BY OrderPreserved DEF MemoInv
<1> QED
  BY <1>1, MemoInvariance, PTL DEF Spec, ViewsNeverGoBack
=============================================================================
