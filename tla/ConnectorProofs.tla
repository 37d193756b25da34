-------------------------- MODULE ConnectorProofs --------------------------
(***************************************************************************)
(* Proofs about what a Connector process does to get a daemon and to show  *)
(* it: DaemonSpawn, for any number of Connector processes, calls, daemons  *)
(* and faults, and ConnectorMirror, for any finite sets of devices and     *)
(* runtimes and any number of frames, calls and losses.                    *)
(***************************************************************************)
EXTENDS DaemonSpawn, ConnectorMirror, TLAPS

Labels == {"idle", "dead", "judge", "compare", "remove", "acquire", "write", "probe", "find",
           "ask", "term", "kill", "clean", "spawn", "ready", "releaseCompare", "releaseRemove"}

TypeOK ==
    /\ pc \in [Managers -> Labels]
    /\ attempt \in [Managers -> Nat]
    /\ \A m \in Managers : attempt[m] <= MaxCalls[m] /\ (attempt[m] = 0 => pc[m] = "idle")
    /\ held \in [Managers -> Tokens \cup {None}]
    /\ \A m \in Managers : held[m] # None => held[m][1] = m
    /\ lock \in [dir : Tokens \cup {None}, owner : Tokens \cup {None}]
    /\ stolen \in BOOLEAN
    /\ DOMAIN daemon = Daemons
    /\ DOMAIN pids = Managers

\* As long as no living process lost its lock: who writes owner.json or is
\* past acquire() made the directory, and owner.json names its maker.
LockInv ==
    ~stolen =>
        /\ \A m \in Managers : m \in Critical \/ pc[m] = "write" => lock.dir # None /\ lock.dir[1] = m
        /\ lock.owner # None => lock.dir # None /\ lock.owner[1] = lock.dir[1]

\* ... and then there is at most one daemon process: what is stopped are all
\* that run, and nobody else spawns in the meantime.
DaemonInv ==
    ~stolen =>
        /\ \A d, e \in Daemons : Running(d) /\ Running(e) => d = e
        /\ \A d \in Daemons : daemon[d] = "serving" => endpoint = d
        /\ \A m \in Managers : pc[m] \in {"ask", "term", "kill"} =>
              \A d \in Daemons : Running(d) => d \in pids[m]
        /\ \A m \in Managers : pc[m] \in {"clean", "spawn"} => \A d \in Daemons : ~Running(d)

IInv == TypeOK /\ LockInv /\ DaemonInv

\* The token of a call under way.
LEMMA TokenOf ==
    ASSUME TypeOK, NEW m \in Managers, attempt[m] # 0
    PROVE  Me(m) \in Tokens /\ Me(m)[1] = m /\ Me(m) # None /\ Me(m) \in Daemons
<1>1. attempt[m] \in 1..MaxCalls[m]
  BY BoundedCalls DEF TypeOK
<1>2. Me(m) \in {m} \X (1..MaxCalls[m])
  BY <1>1 DEF Me
<1>3. Me(m) \in Tokens
  BY <1>2 DEF Tokens
<1> QED
  BY <1>3, NoneIsNoToken DEF Me, Daemons

\* Where a probe leads.
LEMMA Probed ==
    ASSUME NEW m \in Managers, Probe(m)
    PROVE  /\ pc[m] = "probe"
           /\ \/ m \in Debug /\ Goto(m, "find")
              \/ m \notin Debug /\ (Goto(m, "idle") \/ Goto(m, "judge"))
           /\ UNCHANGED <<attempt, saw, pids, held, lockVars, daemonVars, faults>>
  BY Zenon DEF Probe, Return

\* Every step keeps the types.
LEMMA TypePreserved == TypeOK /\ [Next]_vars => TypeOK'
<1> SUFFICES ASSUME TypeOK, [Next]_vars PROVE TypeOK'
  OBVIOUS
<1> USE NoneIsNoToken DEF TypeOK, Labels, managerVars, lockVars, daemonVars
<1>1. ASSUME NEW m \in Managers, EnsureDaemon(m) PROVE TypeOK'
  BY <1>1, BoundedCalls DEF EnsureDaemon, NoLockYet, Goto
<1>2. ASSUME NEW m \in Managers, Probe(m) PROVE TypeOK'
  <2>1. /\ pc[m] = "probe"
        /\ \/ m \in Debug /\ Goto(m, "find")
           \/ m \notin Debug /\ (Goto(m, "idle") \/ Goto(m, "judge"))
        /\ UNCHANGED <<attempt, saw, pids, held, lockVars, daemonVars, faults>>
    BY <1>2, Probed
  <2> QED
    BY <2>1 DEF Goto
<1>3. ASSUME NEW m \in Managers, Judge(m) PROVE TypeOK'
  BY <1>3 DEF Judge, Goto
<1>4. ASSUME NEW m \in Managers, Compare(m) PROVE TypeOK'
  BY <1>4 DEF Compare, Goto
<1>5. ASSUME NEW m \in Managers, Remove(m) PROVE TypeOK'
  <2>1. lock' \in [dir : Tokens \cup {None}, owner : Tokens \cup {None}]
    BY <1>5 DEF Remove, RemoveLock, NoLock
  <2>2. stolen' = (stolen \/ (lock.dir # None /\ lock.dir[1] # m /\ Alive(lock.dir[1]))) \/ stolen' = stolen
    BY <1>5, Zenon DEF Remove, RemoveLock
  <2>3. stolen' \in BOOLEAN
    BY <2>2, Zenon
  <2> QED
    BY <1>5, <2>1, <2>3 DEF Remove, Goto
<1>6. ASSUME NEW m \in Managers, Acquire(m) PROVE TypeOK'
  <2>1. attempt[m] # 0
    BY <1>6 DEF Acquire
  <2>2. Me(m) \in Tokens /\ Me(m)[1] = m /\ Me(m) # None /\ Me(m) \in Daemons
    BY <2>1, TokenOf
  <2> QED
    BY <1>6, <2>2 DEF Acquire, GotLock, NoLockYet, Return, Goto
<1>7. ASSUME NEW m \in Managers, WriteOwner(m) PROVE TypeOK'
  <2>1. attempt[m] # 0
    BY <1>7 DEF WriteOwner
  <2>2. Me(m) \in Tokens /\ Me(m)[1] = m /\ Me(m) # None /\ Me(m) \in Daemons
    BY <2>1, TokenOf
  <2> QED
    BY <1>7, <2>2 DEF WriteOwner, GotLock, NoLockYet, Return, Goto
<1>8. ASSUME NEW m \in Managers, FindPids(m) PROVE TypeOK'
  BY <1>8 DEF FindPids, Goto
<1>9. ASSUME NEW m \in Managers, Ask(m) PROVE TypeOK'
  BY <1>9 DEF Ask, Goto
<1>10. ASSUME NEW m \in Managers, Term(m) PROVE TypeOK'
  BY <1>10 DEF Term, Goto
<1>11. ASSUME NEW m \in Managers, Kill(m) PROVE TypeOK'
  BY <1>11 DEF Kill, Goto, Finally
<1>12. ASSUME NEW m \in Managers, Clean(m) PROVE TypeOK'
  BY <1>12 DEF Clean, Goto, Finally
<1>13. ASSUME NEW m \in Managers, spawnDaemon(m) PROVE TypeOK'
  BY <1>13 DEF spawnDaemon, Goto
<1>14. ASSUME NEW m \in Managers, waitUntilReady(m) PROVE TypeOK'
  BY <1>14 DEF waitUntilReady, Finally, Goto
<1>15. ASSUME NEW m \in Managers, ReleaseCompare(m) PROVE TypeOK'
  BY <1>15 DEF ReleaseCompare, Goto
<1>16. ASSUME NEW m \in Managers, ReleaseRemove(m) PROVE TypeOK'
  <2>1. lock' \in [dir : Tokens \cup {None}, owner : Tokens \cup {None}]
    BY <1>16 DEF ReleaseRemove, RemoveLock, NoLock
  <2>2. stolen' = (stolen \/ (lock.dir # None /\ lock.dir[1] # m /\ Alive(lock.dir[1]))) \/ stolen' = stolen
    BY <1>16, Zenon DEF ReleaseRemove, RemoveLock
  <2>3. stolen' \in BOOLEAN
    BY <2>2, Zenon
  <2> QED
    BY <1>16, <2>1, <2>3 DEF ReleaseRemove, Goto
<1>17. ASSUME NEW m \in Managers, ManagerDies(m) PROVE TypeOK'
  BY <1>17 DEF ManagerDies, Goto
<1>18. ASSUME NEW d \in Daemons, Listen(d) PROVE TypeOK'
  BY <1>18 DEF Listen
<1>19. ASSUME NEW d \in Daemons, CloseServer(d) PROVE TypeOK'
  BY <1>19 DEF CloseServer
<1>20. ASSUME NEW d \in Daemons, Exit(d) PROVE TypeOK'
  BY <1>20 DEF Exit
<1>21. ASSUME NEW d \in Daemons, DaemonDies(d) PROVE TypeOK'
  BY <1>21 DEF DaemonDies
<1>22. CASE IdleTimeout
  BY <1>22 DEF IdleTimeout
<1>23. CASE Age
  BY <1>23 DEF Age
<1>24. CASE UNCHANGED vars
  BY <1>24 DEF vars
<1> QED
  BY <1>1, <1>2, <1>3, <1>4, <1>5, <1>6, <1>7, <1>8, <1>9, <1>10, <1>11,
     <1>12, <1>13, <1>14, <1>15, <1>16, <1>17, <1>18, <1>19, <1>20, <1>21,
     <1>22, <1>23, <1>24, Zenon
     DEF Next, Step

\* Every step keeps the lock with its maker.
LEMMA LockPreserved == TypeOK /\ LockInv /\ [Next]_vars => LockInv'
<1> SUFFICES ASSUME TypeOK /\ LockInv, [Next]_vars PROVE LockInv'
  OBVIOUS
<1> USE NoneIsNoToken DEF TypeOK, LockInv, Critical, managerVars, lockVars, daemonVars
<1>1. ASSUME NEW m \in Managers, EnsureDaemon(m) PROVE LockInv'
  BY <1>1 DEF EnsureDaemon, NoLockYet, Goto
<1>2. ASSUME NEW m \in Managers, Probe(m) PROVE LockInv'
  <2>1. /\ pc[m] = "probe"
        /\ \/ m \in Debug /\ Goto(m, "find")
           \/ m \notin Debug /\ (Goto(m, "idle") \/ Goto(m, "judge"))
        /\ UNCHANGED <<attempt, saw, pids, held, lockVars, daemonVars, faults>>
    BY <1>2, Probed
  <2> QED
    BY <2>1 DEF Goto
<1>3. ASSUME NEW m \in Managers, Judge(m) PROVE LockInv'
  BY <1>3 DEF Judge, Goto
<1>4. ASSUME NEW m \in Managers, Compare(m) PROVE LockInv'
  BY <1>4 DEF Compare, Goto
<1>5. ASSUME NEW m \in Managers, Remove(m) PROVE LockInv'
  <2>1. CASE UNCHANGED <<lock, stolen>>
    BY <1>5, <2>1 DEF Remove, Goto
  <2>2. CASE RemoveLock(m)
    <3> SUFFICES ASSUME ~stolen'
                 PROVE  /\ lock'.owner = None
                        /\ \A n \in Managers : n \notin Critical' /\ pc'[n] # "write"
      BY DEF LockInv
    <3>1. ~stolen /\ ~(lock.dir # None /\ lock.dir[1] # m /\ Alive(lock.dir[1])) /\ lock'.owner = None
      BY <2>2, Zenon DEF RemoveLock, NoLock
    <3>2. \A n \in Managers : n \notin Critical /\ pc[n] # "write"
      BY <1>5, <3>1 DEF Remove, Alive
    <3> QED
      BY <1>5, <3>1, <3>2 DEF Remove, Goto
  <2> QED
    BY <1>5, <2>1, <2>2 DEF Remove
<1>6. ASSUME NEW m \in Managers, Acquire(m) PROVE LockInv'
  <2>1. attempt[m] # 0
    BY <1>6 DEF Acquire
  <2>2. Me(m) \in Tokens /\ Me(m)[1] = m /\ Me(m) # None /\ Me(m) \in Daemons
    BY <2>1, TokenOf
  <2> QED
    BY <1>6, <2>2 DEF Acquire, GotLock, NoLockYet, Return, Goto
<1>7. ASSUME NEW m \in Managers, WriteOwner(m) PROVE LockInv'
  <2>1. attempt[m] # 0
    BY <1>7 DEF WriteOwner
  <2>2. Me(m) \in Tokens /\ Me(m)[1] = m /\ Me(m) # None /\ Me(m) \in Daemons
    BY <2>1, TokenOf
  <2> QED
    BY <1>7, <2>2 DEF WriteOwner, GotLock, NoLockYet, Return, Goto
<1>8. ASSUME NEW m \in Managers, FindPids(m) PROVE LockInv'
  BY <1>8 DEF FindPids, Goto
<1>9. ASSUME NEW m \in Managers, Ask(m) PROVE LockInv'
  BY <1>9 DEF Ask, Goto
<1>10. ASSUME NEW m \in Managers, Term(m) PROVE LockInv'
  BY <1>10 DEF Term, Goto
<1>11. ASSUME NEW m \in Managers, Kill(m) PROVE LockInv'
  BY <1>11 DEF Kill, Goto, Finally
<1>12. ASSUME NEW m \in Managers, Clean(m) PROVE LockInv'
  BY <1>12 DEF Clean, Goto, Finally
<1>13. ASSUME NEW m \in Managers, spawnDaemon(m) PROVE LockInv'
  BY <1>13 DEF spawnDaemon, Goto
<1>14. ASSUME NEW m \in Managers, waitUntilReady(m) PROVE LockInv'
  BY <1>14 DEF waitUntilReady, Finally, Goto
<1>15. ASSUME NEW m \in Managers, ReleaseCompare(m) PROVE LockInv'
  BY <1>15 DEF ReleaseCompare, Goto
<1>16. ASSUME NEW m \in Managers, ReleaseRemove(m) PROVE LockInv'
  BY <1>16 DEF ReleaseRemove, RemoveLock, NoLock, Goto
<1>17. ASSUME NEW m \in Managers, ManagerDies(m) PROVE LockInv'
  BY <1>17 DEF ManagerDies, Goto
<1>18. ASSUME NEW d \in Daemons, Listen(d) PROVE LockInv'
  BY <1>18 DEF Listen
<1>19. ASSUME NEW d \in Daemons, CloseServer(d) PROVE LockInv'
  BY <1>19 DEF CloseServer
<1>20. ASSUME NEW d \in Daemons, Exit(d) PROVE LockInv'
  BY <1>20 DEF Exit
<1>21. ASSUME NEW d \in Daemons, DaemonDies(d) PROVE LockInv'
  BY <1>21 DEF DaemonDies
<1>22. CASE IdleTimeout
  BY <1>22 DEF IdleTimeout
<1>23. CASE Age
  BY <1>23 DEF Age
<1>24. CASE UNCHANGED vars
  BY <1>24 DEF vars
<1> QED
  BY <1>1, <1>2, <1>3, <1>4, <1>5, <1>6, <1>7, <1>8, <1>9, <1>10, <1>11,
     <1>12, <1>13, <1>14, <1>15, <1>16, <1>17, <1>18, <1>19, <1>20, <1>21,
     <1>22, <1>23, <1>24, Zenon
     DEF Next, Step

\* Every step keeps the daemon single.
LEMMA DaemonPreserved == IInv /\ [Next]_vars => DaemonInv'
<1> SUFFICES ASSUME IInv, [Next]_vars PROVE DaemonInv'
  OBVIOUS
<1> USE NoneIsNoToken DEF IInv, TypeOK, LockInv, DaemonInv, Critical, Running, managerVars, lockVars, daemonVars
<1>1. ASSUME NEW m \in Managers, EnsureDaemon(m) PROVE DaemonInv'
  BY <1>1 DEF EnsureDaemon, NoLockYet, Goto
<1>2. ASSUME NEW m \in Managers, Probe(m) PROVE DaemonInv'
  <2>1. /\ pc[m] = "probe"
        /\ \/ m \in Debug /\ Goto(m, "find")
           \/ m \notin Debug /\ (Goto(m, "idle") \/ Goto(m, "judge"))
        /\ UNCHANGED <<attempt, saw, pids, held, lockVars, daemonVars, faults>>
    BY <1>2, Probed
  <2> QED
    BY <2>1 DEF Goto
<1>3. ASSUME NEW m \in Managers, Judge(m) PROVE DaemonInv'
  BY <1>3 DEF Judge, Goto
<1>4. ASSUME NEW m \in Managers, Compare(m) PROVE DaemonInv'
  BY <1>4 DEF Compare, Goto
<1>5. ASSUME NEW m \in Managers, Remove(m) PROVE DaemonInv'
  BY <1>5 DEF Remove, RemoveLock, NoLock, Goto
<1>6. ASSUME NEW m \in Managers, Acquire(m) PROVE DaemonInv'
  BY <1>6 DEF Acquire, GotLock, NoLockYet, Goto
<1>7. ASSUME NEW m \in Managers, WriteOwner(m) PROVE DaemonInv'
  BY <1>7 DEF WriteOwner, GotLock, Return, Goto
<1>8. ASSUME NEW m \in Managers, FindPids(m) PROVE DaemonInv'
  BY <1>8 DEF FindPids, Goto
<1>9. ASSUME NEW m \in Managers, Ask(m) PROVE DaemonInv'
  BY <1>9 DEF Ask, Goto
<1>10. ASSUME NEW m \in Managers, Term(m) PROVE DaemonInv'
  BY <1>10 DEF Term, Goto
<1>11. ASSUME NEW m \in Managers, Kill(m) PROVE DaemonInv'
  BY <1>11 DEF Kill, Goto, Finally
<1>12. ASSUME NEW m \in Managers, Clean(m) PROVE DaemonInv'
  BY <1>12 DEF Clean, Goto, Finally
<1>13. ASSUME NEW m \in Managers, spawnDaemon(m) PROVE DaemonInv'
  <2>1. attempt[m] # 0
    BY <1>13 DEF spawnDaemon
  <2>2. Me(m) \in Tokens /\ Me(m)[1] = m /\ Me(m) # None /\ Me(m) \in Daemons
    BY <2>1, TokenOf
  <2> QED
    BY <1>13, <2>2 DEF spawnDaemon, Goto
<1>14. ASSUME NEW m \in Managers, waitUntilReady(m) PROVE DaemonInv'
  BY <1>14 DEF waitUntilReady, Finally, Goto
<1>15. ASSUME NEW m \in Managers, ReleaseCompare(m) PROVE DaemonInv'
  BY <1>15 DEF ReleaseCompare, Goto
<1>16. ASSUME NEW m \in Managers, ReleaseRemove(m) PROVE DaemonInv'
  BY <1>16 DEF ReleaseRemove, RemoveLock, NoLock, Goto
<1>17. ASSUME NEW m \in Managers, ManagerDies(m) PROVE DaemonInv'
  BY <1>17 DEF ManagerDies, Goto
<1>18. ASSUME NEW d \in Daemons, Listen(d) PROVE DaemonInv'
  BY <1>18 DEF Listen
<1>19. ASSUME NEW d \in Daemons, CloseServer(d) PROVE DaemonInv'
  BY <1>19 DEF CloseServer
<1>20. ASSUME NEW d \in Daemons, Exit(d) PROVE DaemonInv'
  BY <1>20 DEF Exit
<1>21. ASSUME NEW d \in Daemons, DaemonDies(d) PROVE DaemonInv'
  BY <1>21 DEF DaemonDies
<1>22. CASE IdleTimeout
  BY <1>22 DEF IdleTimeout
<1>23. CASE Age
  BY <1>23 DEF Age
<1>24. CASE UNCHANGED vars
  BY <1>24 DEF vars
<1> QED
  BY <1>1, <1>2, <1>3, <1>4, <1>5, <1>6, <1>7, <1>8, <1>9, <1>10, <1>11,
     <1>12, <1>13, <1>14, <1>15, <1>16, <1>17, <1>18, <1>19, <1>20, <1>21,
     <1>22, <1>23, <1>24, Zenon
     DEF Next, Step

\* The invariant of the lock and the daemons, for every reachable state.
THEOREM SpawnInvariance == Spec => []IInv
<1>1. Init => IInv
  <2> SUFFICES ASSUME Init PROVE IInv
    OBVIOUS
  <2>1. TypeOK
    <3>1. DOMAIN daemon = Daemons
      BY DEF Init
    <3>2. /\ pc \in [Managers -> Labels] /\ attempt \in [Managers -> Nat]
          /\ held \in [Managers -> Tokens \cup {None}] /\ DOMAIN pids = Managers
          /\ \A m \in Managers : attempt[m] = 0 /\ pc[m] = "idle" /\ held[m] = None
      BY DEF Init, Labels
    <3>3. lock \in [dir : Tokens \cup {None}, owner : Tokens \cup {None}] /\ stolen \in BOOLEAN
      BY Zenon DEF Init, NoLock
    <3> QED
      BY <3>1, <3>2, <3>3, BoundedCalls DEF TypeOK
  <2>2. LockInv
    BY DEF Init, LockInv, Critical, NoLock
  <2>3. DaemonInv
    BY DEF Init, DaemonInv, Running
  <2> QED
    BY <2>1, <2>2, <2>3 DEF IInv
<1>2. IInv /\ [Next]_vars => IInv'
  BY TypePreserved, LockPreserved, DaemonPreserved DEF IInv
<1> QED
  BY <1>1, <1>2, PTL DEF Spec

\* FileLock excludes, whoever is killed wherever, as long as no rm takes the
\* lock of a living process.
THEOREM SpawnLockExcludes == Spec => []LockExcludes
<1>1. IInv => LockExcludes
  <2> SUFFICES ASSUME IInv, ~stolen PROVE \A m, n \in Critical : m = n
    BY DEF LockExcludes
  <2>1. Critical \subseteq {lock.dir[1]}
    BY DEF IInv, LockInv, Critical
  <2> QED
    BY <2>1
<1> QED
  BY <1>1, SpawnInvariance, PTL

\* ... and then the daemon that serves is the one the endpoint leads to.
THEOREM ServingDaemonIsReachable == Spec => []NoOrphanDaemon
<1>1. IInv => NoOrphanDaemon
  BY DEF IInv, DaemonInv, NoOrphanDaemon
<1> QED
  BY <1>1, SpawnInvariance, PTL

(***************************************************************************)
(* The mirrors of a facade.                                                *)
(***************************************************************************)
Clients == Serials \X Apps
Mirrors == [devs : SUBSET Serials, clis : SUBSET Clients]
Hosts == [devs : SUBSET Serials, clis : SUBSET Clients, done : SUBSET {"devices", "watch"}]
Frames == [k : {"snapshot", "result", "error", "late"}, who : Callers,
           devs : SUBSET Serials, clis : SUBSET Clients]

\* What a daemon or a snapshot shows.
View(h) == [devs |-> h.devs, clis |-> h.clis]

\* The last snapshot of the frames w shows v; there is none.
Shows(w, v) ==
    \A i \in 1..Len(w) :
        w[i].k = "snapshot" /\ (\A j \in 1..Len(w) : i < j => w[j].k # "snapshot") => View(w[i]) = v
Silent(w) == \A i \in 1..Len(w) : w[i].k # "snapshot"

MirrorTypeOK ==
    /\ host \in Hosts /\ mirror \in Mirrors
    /\ wire \in Seq(Frames) /\ turn \in Seq(Frames)
    /\ \A c \in host.clis : c[1] \in host.devs

\* The last snapshot under way shows the daemon as it is, and when it has been
\* applied the mirrors do.
FollowInv ==
    conn => /\ Shows(wire, View(host))
            /\ Silent(wire) /\ ~local => mirror = View(host)

MirrorInv == MirrorTypeOK /\ FollowInv /\ NothingIsMirroredWithoutDaemon

\* A new facade has no connection and mirrors nothing.
LEMMA InitMirror == MirrorInit => MirrorInv
<1> SUFFICES ASSUME MirrorInit PROVE MirrorInv
  OBVIOUS
<1>1. host \in Hosts /\ host.clis = {}
  BY DEF MirrorInit, NewHost, Hosts
<1>2. mirror \in Mirrors /\ NothingIsMirroredWithoutDaemon
  BY DEF MirrorInit, NothingIsMirroredWithoutDaemon, Empty, Mirrors
<1>3. wire \in Seq(Frames) /\ turn \in Seq(Frames) /\ ~conn
  BY DEF MirrorInit
<1> QED
  BY <1>1, <1>2, <1>3, Zenon DEF MirrorInv, MirrorTypeOK, FollowInv

\* A frame alone, and one more in a list.
LEMMA OneFrame ==
    ASSUME NEW f \in Frames
    PROVE  /\ <<f>> \in Seq(Frames) /\ (f.k # "snapshot" => Silent(<<f>>))
           /\ \A w \in Seq(Frames) : Append(w, f) \in Seq(Frames)
<1>1. f.k # "snapshot" => Silent(<<f>>)
  BY DEF Silent
<1> QED
  BY <1>1

\* The next frame of a list.
LEMMA NextFrame == ASSUME NEW w \in Seq(Frames), w # <<>> PROVE Head(w) \in Frames
  OBVIOUS

\* A daemon state that is published alone, or not at all.
LEMMA OneHost ==
    ASSUME NEW h \in Hosts
    PROVE  <<>> \in Seq(Hosts) /\ <<h>> \in Seq(Hosts) /\ <<h>> # <<>> /\ <<h>>[Len(<<h>>)] = h
  OBVIOUS

\* What follows on the wire: its last snapshot counts, and without one that of
\* the frames before.
LEMMA ConcatFrames ==
    ASSUME NEW w \in Seq(Frames), NEW t \in Seq(Frames), NEW v
    PROVE  /\ w \o t \in Seq(Frames)
           /\ Shows(t, v) /\ ~Silent(t) => Shows(w \o t, v) /\ ~Silent(w \o t)
           /\ Silent(t) => (Shows(w, v) => Shows(w \o t, v)) /\ (Silent(w \o t) => Silent(w))
<1> DEFINE u == w \o t
<1>1. /\ u \in Seq(Frames) /\ Len(u) = Len(w) + Len(t) /\ Len(w) \in Nat /\ Len(t) \in Nat
      /\ \A i \in 1..Len(w) : u[i] = w[i]
      /\ \A i \in 1..Len(t) : u[i + Len(w)] = t[i]
  OBVIOUS
<1> HIDE DEF u
<1>2. /\ \A i \in 1..Len(w) : i \in 1..Len(u)
      /\ \A i \in 1..Len(t) : i + Len(w) \in 1..Len(u)
      /\ \A i \in 1..Len(u) : i \in 1..Len(w) \/ (i - Len(w) \in 1..Len(t) /\ u[i] = t[i - Len(w)])
  <2>1. \A i \in 1..Len(u) : i \notin 1..Len(w) => i - Len(w) \in 1..Len(t) /\ (i - Len(w)) + Len(w) = i
    BY <1>1
  <2>2. \A i \in 1..Len(u) : i \notin 1..Len(w) => i - Len(w) \in 1..Len(t) /\ u[i] = t[i - Len(w)]
    <3> SUFFICES ASSUME NEW i \in 1..Len(u), i \notin 1..Len(w)
                 PROVE  i - Len(w) \in 1..Len(t) /\ u[i] = t[i - Len(w)]
      OBVIOUS
    <3>1. u[(i - Len(w)) + Len(w)] = t[i - Len(w)]
      BY <1>1, <2>1
    <3> QED
      BY <2>1, <3>1
  <2>3. (\A i \in 1..Len(w) : i \in 1..Len(u)) /\ (\A i \in 1..Len(t) : i + Len(w) \in 1..Len(u))
    BY <1>1
  <2> QED
    BY <2>2, <2>3
<1>3. ASSUME Shows(t, v), ~Silent(t) PROVE Shows(u, v) /\ ~Silent(u)
  <2>1. PICK n \in 1..Len(t) : t[n].k = "snapshot"
    BY <1>3 DEF Silent
  <2>2. n + Len(w) \in 1..Len(u) /\ u[n + Len(w)].k = "snapshot"
    BY <1>1, <1>2, <2>1
  <2>3. ASSUME NEW i \in 1..Len(u), u[i].k = "snapshot", \A j \in 1..Len(u) : i < j => u[j].k # "snapshot"
        PROVE  View(u[i]) = v
    <3>1. ~(i < n + Len(w))
      BY <2>2, <2>3
    <3>2. i - Len(w) \in 1..Len(t) /\ u[i] = t[i - Len(w)]
      BY <1>1, <1>2, <3>1
    <3>3. ASSUME NEW j \in 1..Len(t), i - Len(w) < j PROVE t[j].k # "snapshot"
      <4>1. j + Len(w) \in 1..Len(u) /\ i < j + Len(w)
        BY <1>1, <1>2, <3>3
      <4> QED
        BY <1>1, <2>3, <4>1
    <3> QED
      BY <1>3, <2>3, <3>2, <3>3, Zenon DEF Shows
  <2> QED
    BY <2>2, <2>3 DEF Shows, Silent
<1>4. ASSUME Silent(t), Shows(w, v) PROVE Shows(u, v)
  <2> SUFFICES ASSUME NEW i \in 1..Len(u), u[i].k = "snapshot",
                      \A j \in 1..Len(u) : i < j => u[j].k # "snapshot"
               PROVE  View(u[i]) = v
    BY DEF Shows
  <2>1. i \in 1..Len(w) /\ u[i] = w[i]
    BY <1>1, <1>2, <1>4, Zenon DEF Silent
  <2>2. \A j \in 1..Len(w) : i < j => w[j].k # "snapshot"
    BY <1>1, <1>2
  <2> QED
    BY <1>4, <2>1, <2>2 DEF Shows
<1>5. Silent(u) => Silent(w)
  BY <1>1, <1>2 DEF Silent
<1> QED
  BY <1>1, <1>3, <1>4, <1>5 DEF u

\* Receive: a snapshot that is the last one shows what the wire shows.
LEMMA TailFrames ==
    ASSUME NEW w \in Seq(Frames), w # <<>>, NEW v, Shows(w, v)
    PROVE  /\ Head(w) \in Frames /\ Tail(w) \in Seq(Frames) /\ Shows(Tail(w), v)
           /\ Silent(Tail(w)) /\ Head(w).k = "snapshot" => View(Head(w)) = v
           /\ Silent(Tail(w)) /\ Head(w).k # "snapshot" => Silent(w)
<1> DEFINE t == Tail(w)
<1>1. /\ Head(w) \in Frames /\ Head(w) = w[1] /\ Len(w) \in Nat \ {0}
      /\ t \in Seq(Frames) /\ Len(t) = Len(w) - 1 /\ Len(t) \in Nat
      /\ \A i \in 1..Len(t) : t[i] = w[i + 1]
  OBVIOUS
<1> HIDE DEF t
<1>2. /\ \A i \in 1..Len(t) : i + 1 \in 1..Len(w)
      /\ \A i \in 1..Len(w) : i # 1 => i - 1 \in 1..Len(t) /\ t[i - 1] = w[i]
      /\ 1 \in 1..Len(w)
  <2>1. \A i \in 1..Len(w) : i # 1 => i - 1 \in 1..Len(t) /\ (i - 1) + 1 = i
    BY <1>1
  <2> QED
    BY <1>1, <2>1
<1>3. Shows(t, v)
  <2> SUFFICES ASSUME NEW i \in 1..Len(t), t[i].k = "snapshot",
                      \A j \in 1..Len(t) : i < j => t[j].k # "snapshot"
               PROVE  View(t[i]) = v
    BY DEF Shows
  <2>1. ASSUME NEW j \in 1..Len(w), i + 1 < j PROVE w[j].k # "snapshot"
    <3>1. j - 1 \in 1..Len(t) /\ i < j - 1 /\ t[j - 1] = w[j]
      BY <1>1, <1>2, <2>1
    <3> QED
      BY <3>1
  <2> QED
    BY <1>1, <1>2, <2>1 DEF Shows
<1>4. Silent(t) => \A i \in 1..Len(w) : i # 1 => w[i].k # "snapshot"
  BY <1>2 DEF Silent
<1>5. ASSUME Silent(t), Head(w).k = "snapshot" PROVE View(Head(w)) = v
  <2>1. \A j \in 1..Len(w) : 1 < j => w[j].k # "snapshot"
    BY <1>4, <1>5
  <2> QED
    BY <1>1, <1>2, <1>5, <2>1 DEF Shows
<1>6. ASSUME Silent(t), Head(w).k # "snapshot" PROVE Silent(w)
  BY <1>1, <1>4, <1>6 DEF Silent
<1> QED
  BY <1>1, <1>3, <1>5, <1>6 DEF t

\* Responses that have become late leave the snapshots as they are.
LEMMA LateFrames ==
    ASSUME NEW w \in Seq(Frames), NEW v, NEW x
    PROVE  /\ Late(w, x) \in Seq(Frames)
           /\ Shows(w, v) => Shows(Late(w, x), v)
           /\ Silent(Late(w, x)) => Silent(w)
<1> DEFINE t == Late(w, x)
<1>1. \A i \in 1..Len(w) : w[i] \in Frames
  OBVIOUS
<1>2. \A f \in Frames : [f EXCEPT !.k = "late"] \in Frames /\ [f EXCEPT !.k = "late"].k # "snapshot"
  BY DEF Frames
<1>3. t \in Seq(Frames) /\ Len(t) = Len(w) /\ Len(w) \in Nat
  BY <1>1, <1>2 DEF Late
<1>4. \A i \in 1..Len(w) : (t[i].k = "snapshot" <=> w[i].k = "snapshot") /\ (t[i].k = "snapshot" => t[i] = w[i])
  BY <1>1, <1>2 DEF Late
<1> HIDE DEF t
<1>5. (Shows(w, v) => Shows(t, v)) /\ (Silent(t) => Silent(w))
  BY <1>3, <1>4, Zenon DEF Shows, Silent
<1> QED
  BY <1>3, <1>5 DEF t

\* Snapshots that go out one after the other show the last state.
LEMMA PublishedFrames ==
    ASSUME NEW hs \in Seq(Hosts)
    PROVE  /\ Snaps(hs) \in Seq(Frames)
           /\ hs = <<>> => Silent(Snaps(hs))
           /\ hs # <<>> => Shows(Snaps(hs), View(hs[Len(hs)])) /\ ~Silent(Snaps(hs))
<1>1. \A h \in Hosts : Snap(h) \in Frames /\ View(Snap(h)) = View(h) /\ Snap(h).k = "snapshot"
  BY DEF Hosts, Frames, Snap, View, Callers
<1>2. \A i \in 1..Len(hs) : hs[i] \in Hosts
  OBVIOUS
<1>3. Len(hs) \in Nat /\ Snaps(hs) \in Seq(Frames) /\ Len(Snaps(hs)) = Len(hs)
  BY <1>1, <1>2 DEF Snaps
<1>4. \A i \in 1..Len(hs) : Snaps(hs)[i].k = "snapshot" /\ View(Snaps(hs)[i]) = View(hs[i])
  BY <1>1, <1>2 DEF Snaps
<1>5. hs = <<>> => Silent(Snaps(hs))
  BY <1>3 DEF Silent
<1>6. ASSUME hs # <<>> PROVE Shows(Snaps(hs), View(hs[Len(hs)])) /\ ~Silent(Snaps(hs))
  <2>1. Len(hs) \in 1..Len(hs)
    BY <1>6
  <2>2. ~Silent(Snaps(hs))
    BY <1>3, <1>4, <2>1 DEF Silent
  <2>3. \A i \in 1..Len(hs) : i # Len(hs) => i < Len(hs)
    BY <1>3
  <2>4. Shows(Snaps(hs), View(hs[Len(hs)]))
    BY <1>3, <1>4, <2>1, <2>3 DEF Shows
  <2> QED
    BY <2>2, <2>4
<1> QED
  BY <1>3, <1>5, <1>6

\* A daemon without the runtimes cs.
Less(h, cs) == [h EXCEPT !.clis = @ \ cs]

\* The runtimes of a device have all gone when the last of them has.
LEMMA ClosingEnds ==
    ASSUME NEW h \in Hosts, NEW s, NEW order \in Orders(Of(h.clis, s)),
           NEW g \in Hosts, g.clis = h.clis
    PROVE  /\ Closing(g, order) \in Seq(Hosts) /\ Len(Closing(g, order)) = Len(order)
           /\ order = <<>> => Of(h.clis, s) = {} /\ Closing(g, order) = <<>>
           /\ order # <<>> => /\ Closing(g, order) # <<>>
                             /\ Closing(g, order)[Len(order)] = Less(g, Of(h.clis, s))
<1> DEFINE S == Of(h.clis, s)
           n == Cardinality(S)
<1>1. S \subseteq Clients /\ h.clis \subseteq Clients
  BY DEF Of, Hosts
<1>3. n \in Nat
  BY <1>1, FiniteNames DEF Clients
<1> HIDE DEF S
<1>4. order \in [1..n -> S] /\ (\A c \in S : \E i \in 1..n : order[i] = c)
  BY DEF Orders, S
<1> HIDE DEF n
<1>8. order \in Seq(S) /\ Len(order) = n
  BY <1>3, <1>4
<1>9. \A i \in 1..n : [g EXCEPT !.clis = @ \ {order[j] : j \in 1..i}] \in Hosts
  BY DEF Hosts
<1>10. Closing(g, order) \in Seq(Hosts) /\ Len(Closing(g, order)) = n
  BY <1>3, <1>8, <1>9 DEF Closing
<1>11. order = <<>> => S = {} /\ Closing(g, order) = <<>>
  BY <1>4, <1>8, <1>10
<1>12. ASSUME order # <<>>
       PROVE  Closing(g, order) # <<>> /\ Closing(g, order)[n] = Less(g, S)
  <2>1. n \in 1..n
    BY <1>3, <1>8, <1>12
  <2>2. {order[j] : j \in 1..n} = S
    BY <1>4
  <2>3. Closing(g, order) # <<>>
    BY <1>10, <2>1
  <2>4. Closing(g, order)[n] = Less(g, {order[j] : j \in 1..n})
    BY <1>8, <2>1 DEF Closing, Less
  <2> QED
    BY <2>2, <2>3, <2>4, Zenon
<1> QED
  BY <1>8, <1>10, <1>11, <1>12 DEF S

\* What is published then, if there was a runtime.
LEMMA LastOfClosing ==
    ASSUME NEW h \in Hosts, NEW s, NEW order \in Orders(Of(h.clis, s)), order # <<>>,
           NEW g \in Hosts, g.clis = h.clis
    PROVE  /\ Closing(g, order) \in Seq(Hosts) /\ Closing(g, order) # <<>>
           /\ Closing(g, order)[Len(Closing(g, order))] = Less(g, Of(h.clis, s))
<1>1. /\ Closing(g, order) \in Seq(Hosts) /\ Len(Closing(g, order)) = Len(order)
      /\ Closing(g, order) # <<>> /\ Closing(g, order)[Len(order)] = Less(g, Of(h.clis, s))
  BY ClosingEnds
<1> QED
  BY <1>1

\* applySnapshot(): whatever was mirrored, the mirrors become the snapshot if
\* its runtimes are on its devices.
LEMMA SnapshotIsApplied ==
    ASSUME mirror \in Mirrors, NEW f \in Frames, applySnapshot(f)
    PROVE  /\ mirror' \in Mirrors /\ ~local'
           /\ (\A c \in f.clis : c[1] \in f.devs) => mirror' = View(f)
           /\ \A c \in mirror'.clis \ mirror.clis : c[1] \in mirror.devs \cup mirror'.devs
<1> DEFINE ds == mirror.devs \cup f.devs
           cs == mirror.clis \cup {c \in f.clis : c[1] \in ds}
<1>1. mirror' = [devs |-> ds \cap f.devs, clis |-> cs \cap f.clis] /\ local' = FALSE
  BY Zenon DEF applySnapshot, upsertClients, upsertDevices, Mirrors
<1>2. mirror' \in Mirrors
  BY <1>1 DEF Mirrors, Frames
<1>3. ASSUME \A c \in f.clis : c[1] \in f.devs PROVE mirror' = View(f)
  <2>1. ds \cap f.devs = f.devs /\ cs \cap f.clis = f.clis
    BY <1>3
  <2> QED
    BY <1>1, <2>1, Zenon DEF View
<1> QED
  BY <1>1, <1>2, <1>3

\* A result is merged into the mirrors.
LEMMA ResultIsMerged ==
    ASSUME mirror \in Mirrors, NEW f \in Frames, Merge(f)
    PROVE  /\ mirror' \in Mirrors /\ local'
           /\ \A c \in mirror'.clis \ mirror.clis : c[1] \in mirror.devs \cup mirror'.devs
<1> DEFINE ds == mirror.devs \cup f.devs
           cs == mirror.clis \cup {c \in f.clis : c[1] \in ds}
<1>1. mirror' = [devs |-> ds, clis |-> cs] /\ local' = TRUE
  BY Zenon DEF Merge, SetMirror, upsertClients, upsertDevices, Mirrors
<1> QED
  BY <1>1 DEF Mirrors, Frames

\* The daemon becomes h and publishes hs, of which the last shows h; without
\* hs it shows what it showed.
LEMMA PublishKeeps ==
    ASSUME MirrorInv, SameMirror, UNCHANGED <<conn, turn, wss, closed>>,
           NEW h \in Hosts, host' = h, \A c \in h.clis : c[1] \in h.devs,
           NEW hs \in Seq(Hosts),
           IF hs = <<>> THEN View(h) = View(host) ELSE View(hs[Len(hs)]) = View(h),
           \/ conn /\ wire' = wire \o Snaps(hs)
           \/ ~conn /\ wire' = wire
           \/ conn /\ \E f \in Frames : f.k # "snapshot" /\ wire' = wire \o Snaps(hs) \o <<f>>
    PROVE  MirrorInv'
<1> DEFINE w == wire \o Snaps(hs)
<1>1. /\ w \in Seq(Frames)
      /\ conn => Shows(w, View(h)) /\ (Silent(w) /\ ~local => mirror = View(h))
  <2>1. wire \in Seq(Frames) /\ Snaps(hs) \in Seq(Frames)
    BY PublishedFrames DEF MirrorInv, MirrorTypeOK
  <2>2. CASE hs = <<>>
    BY <2>1, <2>2, PublishedFrames, ConcatFrames, Zenon DEF MirrorInv, FollowInv
  <2>3. CASE hs # <<>>
    BY <2>1, <2>3, PublishedFrames, ConcatFrames DEF MirrorInv, FollowInv
  <2> QED
    BY <2>2, <2>3
<1> HIDE DEF w
<1>2. ASSUME NEW f \in Frames, f.k # "snapshot"
      PROVE  /\ w \o <<f>> \in Seq(Frames)
             /\ conn => /\ Shows(w \o <<f>>, View(h))
                        /\ Silent(w \o <<f>>) /\ ~local => mirror = View(h)
  <2>1. <<f>> \in Seq(Frames) /\ Silent(<<f>>)
    BY <1>2, OneFrame, Zenon
  <2> QED
    BY <1>1, <2>1, ConcatFrames, Zenon
<1>3. wire' \in Seq(Frames) /\ (conn => Shows(wire', View(h)) /\ (Silent(wire') /\ ~local => mirror = View(h)))
  BY <1>1, <1>2, Zenon DEF w, MirrorInv, MirrorTypeOK
<1>4. MirrorTypeOK'
  BY <1>3 DEF MirrorInv, MirrorTypeOK, SameMirror
<1>5. FollowInv'
  BY <1>3 DEF FollowInv, SameMirror
<1>6. NothingIsMirroredWithoutDaemon'
  BY DEF MirrorInv, NothingIsMirroredWithoutDaemon, SameMirror
<1> QED
  BY <1>4, <1>5, <1>6 DEF MirrorInv

\* A device or a runtime comes or goes at the daemon.
LEMMA HostStepKeeps ==
    ASSUME MirrorInv, HostChanges \/ OwnershipLost \/ (\E s \in Serials : DeviceGoes(s))
    PROVE  MirrorInv'
<1> USE DEF Hosts, View
<1>1. host \in Hosts /\ (\A c \in host.clis : c[1] \in host.devs)
  BY DEF MirrorInv, MirrorTypeOK
<1>2. ASSUME NEW h \in Hosts, host' = h, \A c \in h.clis : c[1] \in h.devs, Publish(<<h>>),
             SameMirror, UNCHANGED <<conn, turn, wss, closed>>
      PROVE  MirrorInv'
  <2>1. <<h>> \in Seq(Hosts) /\ <<h>> # <<>> /\ <<h>>[Len(<<h>>)] = h
    BY OneHost, Zenon
  <2>2. (conn /\ wire' = wire \o Snaps(<<h>>)) \/ (~conn /\ wire' = wire)
    BY <1>2 DEF Publish
  <2> HIDE DEF Hosts, View
  <2> QED
    BY <1>2, <2>1, <2>2, PublishKeeps, Zenon
<1>3. CASE HostChanges
  <2>1. SameMirror /\ UNCHANGED <<conn, turn, wss, closed>> /\ Publish(<<host'>>)
    BY <1>3 DEF HostChanges
  <2>2. host' \in Hosts /\ (\A c \in host'.clis : c[1] \in host'.devs)
    <3>1. CASE \E s \in Serials \ host.devs : host' = [host EXCEPT !.devs = @ \cup {s}]
      BY <1>1, <3>1
    <3>2. CASE \E c \in (host.devs \X Apps) \ host.clis : host' = [host EXCEPT !.clis = @ \cup {c}]
      BY <1>1, <3>2 DEF Clients
    <3>3. CASE \E c \in host.clis : host' = [host EXCEPT !.clis = @ \ {c}]
      BY <1>1, <3>3
    <3> QED
      BY <1>3, <3>1, <3>2, <3>3 DEF HostChanges
  <2> QED
    BY <1>2, <2>1, <2>2
<1>4. CASE OwnershipLost
  <2>1. host' \in Hosts /\ (\A c \in host'.clis : c[1] \in host'.devs)
    BY <1>1, <1>4, Zenon DEF OwnershipLost
  <2> QED
    BY <1>2, <1>4, <2>1, Zenon DEF OwnershipLost
<1>5. ASSUME NEW s \in Serials, DeviceGoes(s) PROVE MirrorInv'
  <2> DEFINE gone == [host EXCEPT !.devs = @ \ {s}]
             Seqs(order) == IF order = <<>> THEN <<gone>> ELSE Closing(gone, order)
  <2>1. PICK order \in Orders(Of(host.clis, s)) :
          host' = Seqs(order)[Len(Seqs(order))] /\ Publish(Seqs(order))
    BY <1>5 DEF DeviceGoes
  <2>2. gone \in Hosts /\ gone.clis = host.clis /\ gone.devs = host.devs \ {s}
    BY <1>1
  <2>3. SameMirror /\ UNCHANGED <<conn, turn, wss, closed>>
    BY <1>5 DEF DeviceGoes
  <2> HIDE DEF gone
  <2>4. CASE order = <<>>
    <3>1. Of(host.clis, s) = {}
      BY <1>1, <2>2, <2>4, ClosingEnds, Zenon
    <3>2. host' = gone /\ Publish(<<gone>>)
      BY <2>1, <2>4
    <3>3. \A c \in gone.clis : c[1] \in gone.devs
      BY <1>1, <2>2, <3>1 DEF Of
    <3> QED
      BY <1>2, <2>2, <2>3, <3>2, <3>3, Zenon
  <2>5. CASE order # <<>>
    <3> DEFINE hs == Closing(gone, order)
               last == Less(gone, Of(host.clis, s))
    <3>1. hs \in Seq(Hosts) /\ hs # <<>> /\ hs[Len(hs)] = last
      <4> HIDE DEF Hosts, View
      <4> QED
        BY <1>1, <2>2, <2>5, LastOfClosing, ZenonT(60)
    <3>2. host' = last /\ Publish(hs)
      BY <2>1, <2>5, <3>1
    <3>3. last \in Hosts /\ \A c \in last.clis : c[1] \in last.devs
      BY <1>1, <2>2 DEF Of, Less
    <3> HIDE DEF hs, last
    <3>4. (conn /\ wire' = wire \o Snaps(hs)) \/ (~conn /\ wire' = wire)
      BY <3>2 DEF Publish
    <3> HIDE DEF Hosts, View
    <3> QED
      BY <2>3, <3>1, <3>2, <3>3, <3>4, PublishKeeps, Zenon
  <2> QED
    BY <2>4, <2>5
<1> QED
  BY <1>3, <1>4, <1>5

\* A request is served.
LEMMA AnswerKeeps == ASSUME MirrorInv, NEW x \in Callers, HostAnswers(x) PROVE MirrorInv'
<1>1. host \in Hosts /\ (\A c \in host.clis : c[1] \in host.devs)
  BY DEF MirrorInv, MirrorTypeOK
<1>2. conn /\ SameMirror /\ UNCHANGED <<conn, turn, wss, closed>>
  BY DEF HostAnswers
<1>3. ASSUME NEW k \in {"result", "error"}, NEW h \in Hosts, NEW hs \in Seq(Hosts),
             NEW ds \in SUBSET Serials, NEW cs \in SUBSET Clients, Respond(x, k, h, hs, ds, cs),
             \A c \in h.clis : c[1] \in h.devs,
             IF hs = <<>> THEN View(h) = View(host) ELSE View(hs[Len(hs)]) = View(h)
      PROVE  MirrorInv'
  <2> DEFINE f == [k |-> k, who |-> x, devs |-> ds, clis |-> cs]
  <2>1. f \in Frames /\ f.k # "snapshot"
    BY DEF Frames
  <2>2. host' = h /\ wire' = wire \o Snaps(hs) \o <<f>>
    BY <1>3 DEF Respond
  <2> HIDE DEF f
  <2> QED
    BY <1>2, <1>3, <2>1, <2>2, PublishKeeps, Zenon
<1>4. host.devs \in SUBSET Serials /\ \A s \in Serials : Of(host.clis, s) \in SUBSET Clients
  BY <1>1 DEF Hosts, Of
<1>5. ASSUME NEW h \in Hosts, View(h) = View(host),
             NEW k \in {"result", "error"}, NEW ds \in SUBSET Serials, NEW cs \in SUBSET Clients,
             Respond(x, k, h, <<>>, ds, cs) \/ Respond(x, k, h, <<host>>, ds, cs)
      PROVE  MirrorInv'
  <2>1. \A c \in h.clis : c[1] \in h.devs
    BY <1>1, <1>5, Zenon DEF View
  <2>2. <<>> \in Seq(Hosts) /\ <<host>> \in Seq(Hosts) /\ <<host>> # <<>> /\ <<host>>[Len(<<host>>)] = host
    BY <1>1, OneHost, Zenon
  <2>3. CASE Respond(x, k, h, <<>>, ds, cs)
    BY <1>3, <1>5, <2>1, <2>2, <2>3, Zenon
  <2>4. CASE Respond(x, k, h, <<host>>, ds, cs)
    BY <1>3, <1>5, <2>1, <2>2, <2>4
  <2> QED
    BY <1>5, <2>3, <2>4
<1>6. \A d \in SUBSET {"devices", "watch"} :
        [host EXCEPT !.done = d] \in Hosts /\ View([host EXCEPT !.done = d]) = View(host)
  BY <1>1 DEF Hosts, View
<1>7. CASE \E s \in Serials : \E order \in Orders(Of(host.clis, s)) :
             Respond(x, "result", [host EXCEPT !.clis = @ \ Of(@, s)], Closing(host, order), {}, {})
  <2>1. PICK s \in Serials : \E order \in Orders(Of(host.clis, s)) :
             Respond(x, "result", [host EXCEPT !.clis = @ \ Of(@, s)], Closing(host, order), {}, {})
    BY <1>7, Zenon
  <2>2. PICK order \in Orders(Of(host.clis, s)) :
             Respond(x, "result", [host EXCEPT !.clis = @ \ Of(@, s)], Closing(host, order), {}, {})
    BY <2>1
  <2> DEFINE h == Less(host, Of(host.clis, s))
             hs == Closing(host, order)
  <2>3. h \in Hosts /\ (\A c \in h.clis : c[1] \in h.devs) /\ (Of(host.clis, s) = {} => View(h) = View(host))
    BY <1>1, Zenon DEF Hosts, View, Less
  <2>4. hs \in Seq(Hosts) /\ IF hs = <<>> THEN Of(host.clis, s) = {} ELSE hs[Len(hs)] = h
    <3>1. order = <<>> => Of(host.clis, s) = {} /\ hs = <<>> /\ hs \in Seq(Hosts)
      BY <1>1, ClosingEnds, Zenon
    <3>2. order # <<>> => hs \in Seq(Hosts) /\ hs # <<>> /\ hs[Len(hs)] = h
      BY <1>1, LastOfClosing, Zenon
    <3> QED
      BY <3>1, <3>2, Zenon
  <2>5. Respond(x, "result", h, hs, {}, {})
    BY <2>2 DEF Less
  <2>6. /\ {} \in SUBSET Serials /\ {} \in SUBSET Clients
        /\ IF hs = <<>> THEN View(h) = View(host) ELSE View(hs[Len(hs)]) = View(h)
    BY <2>3, <2>4, Zenon
  <2> HIDE DEF h, hs
  <2> QED
    BY <1>3, <2>3, <2>4, <2>5, <2>6, Zenon
<1>8. CASE \E d \in SUBSET {"devices", "watch"} :
             \/ Respond(x, "result", [host EXCEPT !.done = d], <<>>, host.devs, {})
             \/ Respond(x, "result", [host EXCEPT !.done = d], <<host>>, {}, {})
  <2>1. PICK d \in SUBSET {"devices", "watch"} :
             \/ Respond(x, "result", [host EXCEPT !.done = d], <<>>, host.devs, {})
             \/ Respond(x, "result", [host EXCEPT !.done = d], <<host>>, {}, {})
    BY <1>8, Zenon
  <2> DEFINE h == [host EXCEPT !.done = d]
  <2>2. h \in Hosts /\ View(h) = View(host) /\ {} \in SUBSET Serials /\ {} \in SUBSET Clients
    BY <1>6
  <2>3. Respond(x, "result", h, <<>>, host.devs, {}) \/ Respond(x, "result", h, <<host>>, {}, {})
    BY <2>1
  <2> HIDE DEF h
  <2> QED
    BY <1>4, <1>5, <2>2, <2>3, Zenon
<1>9. CASE \/ \E s \in Serials : Respond(x, "result", host, <<host>>, {}, Of(host.clis, s))
           \/ Respond(x, "result", host, <<host>>, {}, {})
           \/ Respond(x, "error", host, <<>>, {}, {})
  <2>1. {} \in SUBSET Serials /\ {} \in SUBSET Clients
    OBVIOUS
  <2> QED
    BY <1>1, <1>4, <1>5, <1>9, <2>1, Zenon
<1>10. /\ host.done \cup {"devices"} \in SUBSET {"devices", "watch"}
       /\ host.done \cup {"watch"} \in SUBSET {"devices", "watch"}
       /\ host.done \ {"watch"} \in SUBSET {"devices", "watch"}
  BY <1>1 DEF Hosts
<1> QED
  BY <1>7, <1>8, <1>9, <1>10, Zenon DEF HostAnswers

\* A frame is handled.
LEMMA ReceiveKeeps == ASSUME MirrorInv, Receive PROVE MirrorInv'
<1> DEFINE f == Head(wire)
<1>1. /\ conn /\ wire # <<>> /\ wire' = Tail(wire)
      /\ UNCHANGED <<host, conn, wss, closed>>
  BY DEF Receive
<1>2. /\ host \in Hosts /\ mirror \in Mirrors /\ wire \in Seq(Frames) /\ turn \in Seq(Frames)
      /\ \A c \in host.clis : c[1] \in host.devs
      /\ Shows(wire, View(host)) /\ (Silent(wire) /\ ~local => mirror = View(host))
  BY <1>1 DEF MirrorInv, MirrorTypeOK, FollowInv
<1>3. /\ f \in Frames /\ wire' \in Seq(Frames) /\ Shows(wire', View(host))
      /\ Silent(wire') /\ f.k = "snapshot" => View(f) = View(host)
      /\ Silent(wire') /\ f.k # "snapshot" => Silent(wire)
  BY <1>1, <1>2, TailFrames
<1>4. NothingIsMirroredWithoutDaemon'
  BY <1>1 DEF NothingIsMirroredWithoutDaemon
<1>5. \/ f.k = "snapshot" /\ applySnapshot(f) /\ UNCHANGED turn
      \/ f.k # "snapshot" /\ turn' = Append(turn, f) /\ SameMirror
      \/ f.k # "snapshot" /\ SameMirror /\ UNCHANGED turn
  BY DEF Receive
<1> HIDE DEF f
<1>6. CASE f.k = "snapshot" /\ applySnapshot(f) /\ UNCHANGED turn
  <2>1. /\ mirror' \in Mirrors /\ ~local'
        /\ (\A c \in f.clis : c[1] \in f.devs) => mirror' = View(f)
    BY <1>2, <1>3, <1>6, SnapshotIsApplied
  <2>2. View(f) = View(host) => f.devs = host.devs /\ f.clis = host.clis
    BY DEF View
  <2>3. Silent(wire') => mirror' = View(host)
    BY <1>2, <1>3, <1>6, <2>1, <2>2
  <2>4. MirrorTypeOK'
    BY <1>1, <1>2, <1>3, <1>6, <2>1 DEF MirrorTypeOK
  <2> QED
    BY <1>1, <1>3, <1>4, <2>3, <2>4 DEF MirrorInv, FollowInv
<1>7. CASE f.k # "snapshot" /\ SameMirror /\ (turn' = turn \/ turn' = Append(turn, f))
  <2>1. turn' \in Seq(Frames)
    <3>1. Append(turn, f) \in Seq(Frames)
      BY <1>2, <1>3, OneFrame, Zenon
    <3> QED
      BY <1>2, <1>7, <3>1, Zenon
  <2>2. MirrorTypeOK'
    BY <1>1, <1>2, <1>3, <1>7, <2>1, Zenon DEF MirrorTypeOK, SameMirror
  <2>3. FollowInv'
    BY <1>1, <1>2, <1>3, <1>7 DEF FollowInv, SameMirror
  <2> QED
    BY <1>4, <2>2, <2>3 DEF MirrorInv
<1> QED
  BY <1>5, <1>6, <1>7

\* The continuation of a call runs.
LEMMA ResumeKeeps == ASSUME MirrorInv, CallResumes PROVE MirrorInv'
<1> DEFINE f == Head(turn)
<1>1. /\ turn # <<>> /\ turn' = Tail(turn) /\ UNCHANGED <<host, conn, wire, closed>>
      /\ Merge(f) \/ SameMirror
  BY Zenon DEF CallResumes
<1>2. /\ host \in Hosts /\ mirror \in Mirrors /\ wire \in Seq(Frames) /\ turn \in Seq(Frames)
      /\ \A c \in host.clis : c[1] \in host.devs
  BY DEF MirrorInv, MirrorTypeOK
<1>3. f \in Frames /\ turn' \in Seq(Frames)
  BY <1>1, <1>2
<1>4. NothingIsMirroredWithoutDaemon'
  BY <1>1 DEF MirrorInv, NothingIsMirroredWithoutDaemon
<1> HIDE DEF f
<1>5. mirror' \in Mirrors /\ (local' \/ (mirror' = mirror /\ local' = local))
  BY <1>1, <1>2, <1>3, ResultIsMerged DEF SameMirror
<1>6. MirrorTypeOK'
  BY <1>1, <1>2, <1>3, <1>5 DEF MirrorTypeOK
<1>7. FollowInv'
  BY <1>1, <1>5 DEF MirrorInv, FollowInv
<1> QED
  BY <1>4, <1>6, <1>7 DEF MirrorInv

\* Every step keeps the invariant of the mirrors.
LEMMA MirrorPreserved == MirrorInv /\ [MirrorNext]_mirrorVars => MirrorInv'
<1> SUFFICES ASSUME MirrorInv, [MirrorNext]_mirrorVars PROVE MirrorInv'
  OBVIOUS
<1> USE DEF SameMirror
<1>1. ASSUME UNCHANGED <<host, conn, wire, turn, mirror, local, wss, closed>> PROVE MirrorInv'
  BY <1>1 DEF MirrorInv, MirrorTypeOK, FollowInv, NothingIsMirroredWithoutDaemon
<1>2. ASSUME NEW m, UserCalls(m) PROVE MirrorInv'
  BY <1>1, <1>2 DEF UserCalls
<1>3. CASE disableAllClients \/ ConnectFails \/ RecoveryTimer \/ UNCHANGED mirrorVars
  BY <1>1, <1>3 DEF disableAllClients, ConnectFails, RecoveryTimer, mirrorVars
<1>4. ASSUME NEW s \in Serials, unregisterDevice(s) PROVE MirrorInv'
  <2>1. /\ ~closed /\ s \in mirror.devs /\ mirror' = [mirror EXCEPT !.devs = @ \ {s}] /\ local' = TRUE
        /\ UNCHANGED <<host, conn, wire, turn, wss, closed>>
    BY <1>4 DEF unregisterDevice, Asks, Ready, SetMirror
  <2>2. conn
    BY <2>1 DEF MirrorInv, NothingIsMirroredWithoutDaemon, Empty
  <2>3. mirror' \in Mirrors
    BY <2>1 DEF MirrorInv, MirrorTypeOK, Mirrors
  <2>4. MirrorTypeOK'
    BY <2>1, <2>3 DEF MirrorInv, MirrorTypeOK
  <2> QED
    BY <2>1, <2>2, <2>4 DEF MirrorInv, FollowInv, NothingIsMirroredWithoutDaemon
<1>5. <<>> \in Seq(Frames) /\ NewHost \in Hosts /\ Empty \in Mirrors /\ NewHost.clis = {}
  <2>1. <<>> \in Seq(Frames)
    OBVIOUS
  <2>2. NewHost \in Hosts /\ NewHost.clis = {}
    BY Zenon DEF NewHost, Hosts
  <2>3. Empty \in Mirrors
    BY DEF Empty, Mirrors
  <2> QED
    BY <2>1, <2>2, <2>3
<1>6. CASE close
  <2>1. /\ closed' = TRUE /\ conn' = FALSE /\ wire' = <<>> /\ host' = NewHost
        /\ UNCHANGED <<turn, mirror, local>>
    BY <1>6 DEF close
  <2>2. MirrorTypeOK'
    BY <1>5, <2>1 DEF MirrorInv, MirrorTypeOK
  <2> QED
    BY <2>1, <2>2 DEF MirrorInv, FollowInv, NothingIsMirroredWithoutDaemon
<1>7. CASE Connected
  <2>1. /\ ~conn /\ conn' = TRUE /\ wire' = <<Snap(host)>>
        /\ UNCHANGED <<host, turn, mirror, local, wss, closed>>
    BY <1>7 DEF Connected
  <2>2. Snap(host) \in Frames /\ View(Snap(host)) = View(host) /\ Snap(host).k = "snapshot"
    BY DEF MirrorInv, MirrorTypeOK, Hosts, Frames, Snap, View, Callers
  <2>3. wire' \in Seq(Frames) /\ Len(wire') = 1 /\ wire'[1] = Snap(host)
    BY <2>1, <2>2
  <2>4. Shows(wire', View(host)) /\ ~Silent(wire')
    BY <2>2, <2>3 DEF Shows, Silent
  <2>5. MirrorTypeOK'
    BY <2>1, <2>3 DEF MirrorInv, MirrorTypeOK
  <2> QED
    BY <2>1, <2>4, <2>5 DEF MirrorInv, FollowInv, NothingIsMirroredWithoutDaemon
<1>8. ASSUME NEW b \in BOOLEAN, handleDaemonDisconnected(b) PROVE MirrorInv'
  <2>1. /\ conn' = FALSE /\ wire' = <<>> /\ turn = <<>> /\ turn' = <<>>
        /\ host' = NewHost \/ host' = host
        /\ mirror' = Empty /\ wss' = FALSE
    BY <1>8 DEF handleDaemonDisconnected, clearDaemonMirrors
  <2>2. MirrorTypeOK'
    BY <1>5, <2>1 DEF MirrorInv, MirrorTypeOK
  <2> QED
    BY <2>1, <2>2 DEF MirrorInv, FollowInv, NothingIsMirroredWithoutDaemon
<1>9. ASSUME NEW x \in Callers, RpcTimeout(x) PROVE MirrorInv'
  <2>1. wire' = Late(wire, x) /\ UNCHANGED <<host, conn, turn, mirror, local, wss, closed>>
    BY <1>9, Zenon DEF RpcTimeout
  <2>2. wire \in Seq(Frames)
    BY DEF MirrorInv, MirrorTypeOK
  <2>3. /\ wire' \in Seq(Frames) /\ (Silent(wire') => Silent(wire))
        /\ Shows(wire, View(host)) => Shows(wire', View(host))
    BY <2>1, <2>2, LateFrames
  <2> QED
    BY <2>1, <2>3 DEF MirrorInv, MirrorTypeOK, FollowInv, NothingIsMirroredWithoutDaemon
<1>10. CASE HostChanges \/ OwnershipLost \/ (\E s \in Serials : DeviceGoes(s))
  BY <1>10, HostStepKeeps
<1>11. ASSUME NEW x \in Callers, HostAnswers(x) PROVE MirrorInv'
  BY <1>11, AnswerKeeps
<1>12. CASE Receive
  BY <1>12, ReceiveKeeps
<1>13. CASE CallResumes
  BY <1>13, ResumeKeeps
<1> QED
  BY <1>2, <1>3, <1>4, <1>6, <1>7, <1>8, <1>9, <1>10, <1>11, <1>12, <1>13, ZenonT(60) DEF MirrorNext

\* MirrorInv holds in every reachable state of the facade and its daemon.
THEOREM MirrorInvariance == MirrorSpec => []MirrorInv
<1> QED
  BY InitMirror, MirrorPreserved, PTL DEF MirrorSpec

\* Whatever the daemon publishes and answers, and whatever the caller does in
\* between, mirrors that only snapshots have changed show the daemon as it is
\* when everything sent has been handled.
THEOREM MirrorsAreFaithful == MirrorSpec => []MirrorsFollowDaemon
<1>1. MirrorInv => MirrorsFollowDaemon
  BY DEF MirrorInv, MirrorTypeOK, FollowInv, MirrorsFollowDaemon, Silent, View
<1> QED
  BY <1>1, MirrorInvariance, PTL

\* A facade that has lost its daemon offers nothing of it to the caller.
THEOREM LostDaemonIsForgotten == MirrorSpec => []NothingIsMirroredWithoutDaemon
<1>1. MirrorInv => NothingIsMirroredWithoutDaemon
  BY DEF MirrorInv
<1> QED
  BY <1>1, MirrorInvariance, PTL

\* No result, however late, brings a runtime whose device the caller has not
\* been told of.
THEOREM RuntimesFollowDevices == MirrorSpec => RuntimesComeAfterTheirDevice
<1> DEFINE New == \A c \in mirror'.clis \ mirror.clis : c[1] \in mirror.devs \cup mirror'.devs
<1>1. MirrorInv /\ [MirrorNext]_mirrorVars => [New]_mirrorVars
  <2> SUFFICES ASSUME MirrorInv, MirrorNext PROVE New
    OBVIOUS
  <2>1. ASSUME mirror' = mirror PROVE New
    BY <2>1
  <2>2. ASSUME NEW s \in Serials, unregisterDevice(s) PROVE New
    BY <2>2 DEF unregisterDevice, SetMirror, MirrorInv, MirrorTypeOK, Mirrors
  <2>3. ASSUME NEW b \in BOOLEAN, handleDaemonDisconnected(b) PROVE New
    BY <2>3, Zenon DEF handleDaemonDisconnected, clearDaemonMirrors, Empty
  <2>4. CASE Receive
    <3>1. Head(wire) \in Frames /\ mirror \in Mirrors
      BY <2>4, NextFrame, Zenon DEF Receive, MirrorInv, MirrorTypeOK
    <3>2. applySnapshot(Head(wire)) \/ mirror' = mirror
      BY <2>4 DEF Receive, SameMirror
    <3> QED
      BY <2>1, <3>1, <3>2, SnapshotIsApplied, Zenon
  <2>5. CASE CallResumes
    <3>1. Head(turn) \in Frames /\ mirror \in Mirrors
      BY <2>5, NextFrame, Zenon DEF CallResumes, MirrorInv, MirrorTypeOK
    <3>2. Merge(Head(turn)) \/ mirror' = mirror
      BY <2>5 DEF CallResumes, SameMirror
    <3> QED
      BY <2>1, <3>1, <3>2, ResultIsMerged
  <2> HIDE DEF New
  <2>6. ASSUME SameMirror PROVE New
    BY <2>1, <2>6 DEF SameMirror
  <2>7. CASE \/ \E m \in {"devices", "clients", "watch", "ws"} : UserCalls(m)
             \/ disableAllClients \/ close \/ Connected \/ ConnectFails \/ RecoveryTimer
    BY <2>6, <2>7 DEF UserCalls, disableAllClients, close, Connected, ConnectFails, RecoveryTimer
  <2>8. CASE \/ \E s \in Serials : DeviceGoes(s)
             \/ \E x \in Callers : HostAnswers(x) \/ RpcTimeout(x)
             \/ HostChanges \/ OwnershipLost
    BY <2>6, <2>8, Zenon DEF DeviceGoes, HostAnswers, RpcTimeout, HostChanges, OwnershipLost
  <2> QED
    BY <2>2, <2>3, <2>4, <2>5, <2>7, <2>8, Zenon DEF MirrorNext
<1> QED
  BY <1>1, MirrorInvariance, PTL DEF MirrorSpec, RuntimesComeAfterTheirDevice
=============================================================================
