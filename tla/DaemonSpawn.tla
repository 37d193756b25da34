---------------------------- MODULE DaemonSpawn ----------------------------
(***************************************************************************)
(* Starting, reusing, replacing and stopping the shared daemon process.    *)
(*                                                                         *)
(* Every Connector process has a MultiplexerDaemonManager.  The managers   *)
(* probe the daemon behind the control endpoint and, when it is missing or *)
(* too old, serialize stop + spawn with the directory lock "spawn.lock"    *)
(* (utils/FileLock.ts).  The daemons are detached processes: they outlive  *)
(* the manager that spawned them (daemon/entry.ts).                        *)
(*                                                                         *)
(* One step of a manager is one system call on shared state (mkdir, write, *)
(* read, rm, kill) or one answer it waited for.  A manager may be killed   *)
(* between any two of them.  Time is the set "aged" of lock tokens older   *)
(* than spawnLockStaleTimeout (7 s): nothing keeps a living holder, which  *)
(* waits up to 1 + 1 + 1 + 5 s, from getting that old.                     *)
(***************************************************************************)
EXTENDS Naturals, FiniteSets

CONSTANTS
    Managers,    \* Connector processes
    Debug,       \* those with enableDebugMode
    Version,     \* the protocol version of a manager and of what it spawns
    OldVersion,  \* the protocol version of the daemon that may already run
    Old,         \* that daemon
    None,        \* no token, no owner, no endpoint file
    MaxCalls,    \* bound, per manager: its ensureDaemon() calls
    MaxFaults    \* bound: killed processes and failing rm calls

ASSUME DebugManagers == Debug \subseteq Managers
ASSUME BoundedCalls == \A m \in Managers : MaxCalls[m] \in Nat

VARIABLES
    pc,        \* where a manager is: a step below, "idle" or "dead"
    attempt,   \* how many calls of ensureDaemon() it made
    mode,      \* what it stops the daemon with: "graceful" or "force"
    saw,       \* the owner cleanupStale() read
    pids,      \* the processes findDaemonProcessIds() returned
    held,      \* FileLock.owner: the token the manager believes it holds
    lock,      \* the lock directory: who made it and what owner.json says
    aged,      \* tokens older than the stale time-out
    daemon,    \* the state of every daemon process
    asked,     \* running daemons told to stop: SIGTERM, shutdownDaemon, idle time-out
    endpoint,  \* whose socket the endpoint file is
    faults,    \* faults so far
    stolen     \* history: an rm took the lock of a living process

managerVars == <<pc, attempt, mode, saw, pids, held>>
lockVars == <<lock, aged, stolen>>
daemonVars == <<daemon, asked, endpoint>>
vars == <<managerVars, lockVars, daemonVars, faults>>

Tokens == UNION {{m} \X (1..MaxCalls[m]) : m \in Managers}
Daemons == Tokens \cup {Old}

ASSUME NoneIsNoToken == None \notin Tokens

Me(m) == <<m, attempt[m]>>
NoLock == [dir |-> None, owner |-> None]
Alive(m) == pc[m] # "dead"
Running(d) == daemon[d] \in {"starting", "serving", "closing"}
VersionOf(d) == IF d = Old THEN OldVersion ELSE Version[d[1]]

Init ==
    /\ pc = [m \in Managers |-> "idle"]
    /\ attempt = [m \in Managers |-> 0]
    /\ mode = [m \in Managers |-> "force"]
    /\ saw = [m \in Managers |-> None]
    /\ pids = [m \in Managers |-> {}]
    /\ held = [m \in Managers |-> None]
    /\ lock = NoLock /\ aged = {} /\ stolen = FALSE
    /\ daemon \in {[d \in Daemons |-> IF d = Old THEN s ELSE "none"] : s \in {"none", "serving"}}
    /\ endpoint \in {None, Old}
    /\ daemon[Old] = "serving" => endpoint = Old
    /\ asked = {} /\ faults = 0

Goto(m, label) == pc' = [pc EXCEPT ![m] = label]
\* The call returns true or false or throws: the caller may call again.
Return(m) == Goto(m, "idle")
\* finally { releaseSpawnLock() }
Finally(m) == Goto(m, "releaseCompare")
\* Without the lock stopDaemonForDebugging() goes on trying to get it, while
\* the others probe (again); with it, it probes and they stop the daemon.
NoLockYet(m) == Goto(m, IF m \in Debug THEN "judge" ELSE "probe")
GotLock(m) == Goto(m, IF m \in Debug THEN "probe" ELSE "find")
\* One more fault, within the bound
Fault == faults < MaxFaults /\ faults' = faults + 1
NoFault == UNCHANGED faults

\* ensureDaemon(): a debugging manager takes the lock first, the others probe.
EnsureDaemon(m) ==
    /\ pc[m] = "idle" /\ attempt[m] < MaxCalls[m]
    /\ attempt' = [attempt EXCEPT ![m] = @ + 1]
    /\ NoLockYet(m)
    /\ UNCHANGED <<mode, saw, pids, held, lockVars, daemonVars, faults>>

\* discovery.probeHealth(): the endpoint may lead nowhere, the answer may be
\* late, and an older daemon says whether it is in use (host.isInUse()).
probeHealth(m) ==
    {"unusable"} \cup
        (IF endpoint = None \/ daemon[endpoint] # "serving" THEN {}
         ELSE IF VersionOf(endpoint) < Version[m] THEN {"replace", "inUse"}
         ELSE {"usable"})

\* probeDaemonHealthWithRetry() and handleDiscoveryResult(); a debugging
\* manager, which has the lock already, stops whatever is there.
Probe(m) ==
    /\ pc[m] = "probe"
    /\ \E status \in probeHealth(m) :
        IF m \in Debug THEN
            /\ Goto(m, "find")
            /\ mode' = [mode EXCEPT ![m] =
                          IF status \in {"usable", "replace"} THEN "graceful" ELSE "force"]
        ELSE CASE status = "usable" -> Return(m) /\ UNCHANGED mode
               [] status = "inUse" -> Return(m) /\ UNCHANGED mode
               [] OTHER ->
                    /\ Goto(m, "judge")
                    /\ mode' = [mode EXCEPT ![m] =
                                  IF status = "replace" THEN "graceful" ELSE "force"]
    /\ UNCHANGED <<attempt, saw, pids, held, lockVars, daemonVars, faults>>

(***************************************************************************)
(* FileLock                                                                *)
(***************************************************************************)
\* Mutant: only an owner can make a lock stale.
StaleNeedsOwner ==
    lock.owner # None /\ (~Alive(lock.owner[1]) \/ lock.owner \in aged)

isLockStateStale ==
    /\ lock.dir # None
    /\ IF lock.owner # None
       THEN ~Alive(lock.owner[1]) \/ lock.owner \in aged
       ELSE lock.dir \in aged

\* cleanupStale(): read the owner and judge it ...
Judge(m) ==
    /\ pc[m] = "judge"
    /\ saw' = [saw EXCEPT ![m] = IF isLockStateStale THEN lock.owner ELSE None]
    /\ Goto(m, IF isLockStateStale THEN "compare" ELSE "acquire")
    /\ UNCHANGED <<attempt, mode, pids, held, lockVars, daemonVars, faults>>

\* ... tryRemove(): read the owner again ...
Compare(m) ==
    /\ pc[m] = "compare"
    /\ Goto(m, IF lock.dir # None /\ lock.owner = saw[m] THEN "remove" ELSE "acquire")
    /\ saw' = [saw EXCEPT ![m] = None]
    /\ UNCHANGED <<attempt, mode, pids, held, lockVars, daemonVars, faults>>

\* rmSync on the lock path, whatever is there by now
RemoveLock(m) ==
    /\ lock' = NoLock
    /\ stolen' = (stolen \/ (lock.dir # None /\ lock.dir[1] # m /\ Alive(lock.dir[1])))

\* ... and remove; a failure is ignored, mkdir will tell.
Remove(m) ==
    /\ pc[m] = "remove"
    /\ \/ RemoveLock(m) /\ NoFault
       \/ Fault /\ UNCHANGED <<lock, stolen>>
    /\ Goto(m, "acquire")
    /\ UNCHANGED <<attempt, mode, saw, pids, held, aged, daemonVars>>

\* Mutant: mkdir with { recursive: true } never says EEXIST.
AcquireRecursively(m) ==
    /\ pc[m] = "acquire"
    /\ held' = [held EXCEPT ![m] = None]
    /\ lock' = IF lock.dir = None THEN [dir |-> Me(m), owner |-> None] ELSE lock
    /\ Goto(m, "write")
    /\ UNCHANGED <<attempt, mode, saw, pids, aged, stolen, daemonVars, faults>>

\* acquire(): still ours (an earlier release failed), free, or taken.
Acquire(m) ==
    /\ pc[m] = "acquire"
    /\ \/ /\ held[m] # None /\ lock.owner = held[m]
          /\ GotLock(m)
          /\ UNCHANGED <<held, lock>>
       \/ /\ held[m] = None \/ lock.owner # held[m]
          /\ held' = [held EXCEPT ![m] = None]
          /\ IF lock.dir = None
             THEN lock' = [dir |-> Me(m), owner |-> None] /\ Goto(m, "write")
             ELSE NoLockYet(m) /\ UNCHANGED lock
    /\ UNCHANGED <<attempt, mode, saw, pids, aged, stolen, daemonVars, faults>>

\* writeOwner(): into the directory of that path; ENOENT leaves acquire().
WriteOwner(m) ==
    /\ pc[m] = "write"
    /\ IF lock.dir = None
       THEN Return(m) /\ UNCHANGED <<lock, held>>
       ELSE /\ lock' = [lock EXCEPT !.owner = Me(m)]
            /\ held' = [held EXCEPT ![m] = Me(m)]
            /\ GotLock(m)
    /\ UNCHANGED <<attempt, mode, saw, pids, aged, stolen, daemonVars, faults>>

\* release(): the lock goes only if owner.json still has our token ...
ReleaseCompare(m) ==
    /\ pc[m] = "releaseCompare"
    /\ IF lock.dir # None /\ lock.owner = held[m]
       THEN Goto(m, "releaseRemove") /\ UNCHANGED held
       ELSE Goto(m, "idle") /\ held' = [held EXCEPT ![m] = None]
    /\ UNCHANGED <<attempt, mode, saw, pids, lockVars, daemonVars, faults>>

\* ... when it was read; if rm fails and it is still ours, release() throws.
ReleaseRemove(m) ==
    /\ pc[m] = "releaseRemove" /\ Goto(m, "idle")
    /\ \/ /\ RemoveLock(m) /\ NoFault
          /\ held' = [held EXCEPT ![m] = None]
       \/ /\ Fault /\ UNCHANGED <<lock, stolen>>
          /\ IF lock.owner = held[m]
             THEN UNCHANGED held
             ELSE held' = [held EXCEPT ![m] = None]
    /\ UNCHANGED <<attempt, mode, saw, pids, aged, daemonVars>>

(***************************************************************************)
(* Stopping and spawning under the lock                                    *)
(***************************************************************************)
\* Mutant: only daemons that answer are found.
FindServing(m) ==
    /\ pc[m] = "find"
    /\ pids' = [pids EXCEPT ![m] = {d \in Daemons : daemon[d] = "serving"}]
    /\ mode' = [mode EXCEPT ![m] = "force"] /\ Goto(m, "term")
    /\ UNCHANGED <<attempt, saw, held, lockVars, daemonVars, faults>>

\* findDaemonProcessIds(): more than one process is never stopped gracefully.
FindPids(m) ==
    LET found == {d \in Daemons : Running(d)} IN
    /\ pc[m] = "find"
    /\ pids' = [pids EXCEPT ![m] = found]
    /\ Goto(m, IF mode[m] = "graceful" /\ Cardinality(found) <= 1 THEN "ask" ELSE "term")
    /\ mode' = [mode EXCEPT ![m] = "force"]
    /\ UNCHANGED <<attempt, saw, held, lockVars, daemonVars, faults>>

\* sendDaemonShutdownRpc(): reaches whoever serves the endpoint, or nobody.
Ask(m) ==
    /\ pc[m] = "ask"
    /\ asked' \in {asked, asked \cup {d \in Daemons : endpoint = d /\ daemon[d] = "serving"}}
    /\ Goto(m, "term")
    /\ UNCHANGED <<attempt, mode, saw, pids, held, lockVars, daemon, endpoint, faults>>

\* forceStopProcess(): SIGTERM, wait ...
Term(m) ==
    /\ pc[m] = "term"
    /\ asked' = asked \cup {d \in pids[m] : Running(d)}
    /\ Goto(m, "kill")
    /\ UNCHANGED <<attempt, mode, saw, pids, held, lockVars, daemon, endpoint, faults>>

\* ... SIGKILL for what still runs, or give up on it.
Kill(m) ==
    /\ pc[m] = "kill"
    /\ \/ /\ daemon' = [d \in Daemons |->
                          IF d \in pids[m] /\ Running(d) THEN "dead" ELSE daemon[d]]
          /\ Goto(m, "clean") /\ NoFault
       \/ /\ \E d \in pids[m] : Running(d)
          /\ Fault /\ UNCHANGED daemon
          /\ Finally(m)
    /\ asked' = {d \in asked : Running(d)'}
    /\ pids' = [pids EXCEPT ![m] = {}]
    /\ UNCHANGED <<attempt, mode, saw, held, lockVars, endpoint>>

\* removeDaemonArtifacts(), best effort; close() of a debugging Connector
\* calls stopDaemonForDebugging() without respawn.
Clean(m) ==
    /\ pc[m] = "clean"
    /\ \/ endpoint' = None /\ NoFault
       \/ Fault /\ UNCHANGED endpoint
    /\ \/ Goto(m, "spawn")
       \/ m \in Debug /\ Finally(m)
    /\ UNCHANGED <<attempt, mode, saw, pids, held, lockVars, daemon, asked>>

spawnDaemon(m) ==
    /\ pc[m] = "spawn"
    /\ daemon' = [daemon EXCEPT ![Me(m)] = "starting"]
    /\ Goto(m, "ready")
    /\ UNCHANGED <<attempt, mode, saw, pids, held, lockVars, asked, endpoint, faults>>

\* waitUntilReady(): any daemon that answers will do; an older one is an
\* error, silence until the time-out is worth a retry by the caller.
waitUntilReady(m) ==
    /\ pc[m] = "ready"
    /\ Finally(m)
    /\ UNCHANGED <<attempt, mode, saw, pids, held, lockVars, daemonVars, faults>>

(***************************************************************************)
(* Daemon processes                                                        *)
(***************************************************************************)
\* startMultiplexerDaemonEntry(): listen() fails if the endpoint file is
\* there, even one nobody serves (EADDRINUSE), and the process ends.
Listen(d) ==
    /\ daemon[d] = "starting"
    /\ IF endpoint = None
       THEN endpoint' = d /\ daemon' = [daemon EXCEPT ![d] = "serving"]
       ELSE daemon' = [daemon EXCEPT ![d] = "dead"] /\ UNCHANGED endpoint
    /\ asked' = {x \in asked : Running(x)'}
    /\ UNCHANGED <<managerVars, lockVars, faults>>

\* The idle time-out (10 min) asks the daemon to stop; only the one that was
\* there before lives that long here.
IdleTimeout ==
    /\ daemon[Old] = "serving" /\ Old \notin asked
    /\ asked' = asked \cup {Old}
    /\ UNCHANGED <<managerVars, lockVars, daemon, endpoint, faults>>

\* host.stop() -> controlServer.stop(): closing the listening socket unlinks
\* its path.
CloseServer(d) ==
    /\ daemon[d] = "serving" /\ d \in asked
    /\ daemon' = [daemon EXCEPT ![d] = "closing"]
    /\ endpoint' = None
    /\ UNCHANGED <<managerVars, lockVars, asked, faults>>

\* removeSocketFile() by path once the server is closed, then exit; the
\* process exits anyway after 3 s, whether it got there or not.
Exit(d) ==
    /\ daemon[d] = "closing"
    /\ daemon' = [daemon EXCEPT ![d] = "dead"] /\ asked' = asked \ {d}
    /\ endpoint' \in {None, endpoint}
    /\ UNCHANGED <<managerVars, lockVars, faults>>

\* A daemon process is killed or fails to start; its endpoint file stays.
DaemonDies(d) ==
    /\ Running(d) /\ Fault
    /\ daemon' = [daemon EXCEPT ![d] = "dead"] /\ asked' = asked \ {d}
    /\ UNCHANGED <<managerVars, lockVars, endpoint>>

\* A Connector process is killed.
ManagerDies(m) ==
    /\ pc[m] \notin {"idle", "dead"} /\ Fault
    /\ Goto(m, "dead")
    /\ saw' = [saw EXCEPT ![m] = None] /\ mode' = [mode EXCEPT ![m] = "force"]
    /\ pids' = [pids EXCEPT ![m] = {}] /\ held' = [held EXCEPT ![m] = None]
    /\ UNCHANGED <<attempt, lockVars, daemonVars>>

\* Time passes: the lock on disk gets older than the stale time-out.
Age ==
    /\ lock.dir # None /\ lock.dir \notin aged
    /\ aged' = aged \cup {lock.dir}
    /\ UNCHANGED <<managerVars, lock, stolen, daemonVars, faults>>

Step(m) ==
    \/ Probe(m) \/ Judge(m) \/ Compare(m) \/ Remove(m) \/ Acquire(m) \/ WriteOwner(m)
    \/ FindPids(m) \/ Ask(m) \/ Term(m) \/ Kill(m) \/ Clean(m) \/ spawnDaemon(m)
    \/ waitUntilReady(m) \/ ReleaseCompare(m) \/ ReleaseRemove(m)

Next ==
    \/ \E m \in Managers : EnsureDaemon(m) \/ Step(m) \/ ManagerDies(m)
    \/ \E d \in Daemons :
        Listen(d) \/ CloseServer(d) \/ Exit(d) \/ DaemonDies(d)
    \/ IdleTimeout \/ Age

\* A manager's steps are bounded waits and system calls of a running process,
\* and clocks advance.  Nothing obliges a daemon to be quick.
Spec == Init /\ [][Next]_vars /\ (\A m \in Managers : WF_vars(Step(m))) /\ WF_vars(Age)

-----------------------------------------------------------------------------
\* The managers between acquire() and the end of release()
Critical ==
    {m \in Managers : pc[m] \in {"find", "ask", "term", "kill", "clean", "spawn", "ready",
                                 "releaseCompare", "releaseRemove"}
                      \/ (pc[m] = "probe" /\ m \in Debug)}

\* spawn.lock serializes stop, cleanup and spawn, also across holders that
\* were killed at any point, unless some rm took a living process's lock.
LockExcludes ==
    ~stolen => \A m, n \in Critical : m = n

\* ... and as long as it does, no daemon ends up serving an endpoint file
\* that is not there any more or belongs to another daemon.
NoOrphanDaemon ==
    ~stolen => \A d \in Daemons : daemon[d] = "serving" => endpoint = d

\* ensureDaemon() ends: whoever was killed holding the lock, with or without
\* an owner.json, somebody removes it.
EveryEnsureEnds ==
    \A m \in Managers : (pc[m] \notin {"idle", "dead"}) ~> (pc[m] \in {"idle", "dead"})

\* "release removes the lock only when the token still matches, so a
\* replacement owner is not deleted accidentally."
ReleaseSparesReplacement ==
    [][\A m \in Managers :
         pc[m] = "releaseRemove" /\ lock' = NoLock => lock.owner \in {None, held[m]}]_vars
=============================================================================
