-------------------------- MODULE ServiceSupervisor --------------------------
(***************************************************************************)
(* One supervised service (src/src/supervisor/service.ts): its instances   *)
(* one after the other, readiness, restart with back-off, the stop         *)
(* pipeline with its single finaliser, the lock the service keeps on its   *)
(* resources between instances, and what recovery does with the instances  *)
(* of a lost owner (src/src/recovery/engine.ts).                           *)
(*                                                                         *)
(* A step is one job of the event loop.  spawnInstance, handleInstanceExit *)
(* and each stopService are separate activities that interleave at their   *)
(* awaits.  The driver answers truthfully or does not confirm; it may or   *)
(* may not have a spawn gate.  The service requires at least one resource. *)
(***************************************************************************)
EXTENDS Naturals

CONSTANTS
    MaxRestarts,  \* spec.restart.maxRestarts, 0 for restart: 'never'
    Caller,       \* callers of stop()
    Probe         \* the readiness timer, which calls stopService too

ASSUME ServiceAssumption ==
    /\ MaxRestarts \in Nat
    /\ Probe \notin Caller

Instance == 1 .. MaxRestarts + 1
Stopper == Caller \cup {Probe}

VARIABLES
    \* the store, per instance
    row,        \* operations.status
    result,     \* operations.result
    lease,      \* the instance has its resource_leases rows
    \* the operating system, per instance
    root,       \* the process
    kid,        \* a living descendant in its group
    \* ServiceRuntimeState
    status, stopRequested, attempts, index,
    handle,     \* currentProcessHandle is set
    pending,    \* pendingInstanceResult is set
    failing,    \* failureReason is set
    timer,      \* restartTimer is set
    watching,   \* the readiness listener and its timer are on
    ready, exit, stopped,  \* readyPromise, onInstanceExit, stopPromise
    starter,    \* where spawnInstance is suspended
    watcher,    \* where handleInstanceExit is suspended
    stopper,    \* where each stopService is suspended
    confirmed,  \* stoppers whose terminate answered confirmed_stopped
    held,       \* the isolation table locks the resources for the service
    gated,      \* the driver's gatedSpawn capability, kept in the row as spawnGated
    fenced,     \* another owner has a newer epoch
    crashed     \* the owner is dead

store == <<row, result, lease>>
os == <<root, kid>>
promises == <<ready, exit, stopped>>
flags == <<stopRequested, attempts, index, handle, pending, failing, timer, watching>>
tasks == <<starter, watcher, stopper, confirmed>>
owner == <<gated, fenced, crashed>>
vars == <<store, os, promises, status, flags, tasks, held, owner>>

Promise == {"pending", "resolved", "rejected"}

\* A promise is settled once.
Resolve(p) == IF p = "pending" THEN "resolved" ELSE p
Reject(p) == IF p = "pending" THEN "rejected" ELSE p

Up == ~crashed
Lost == fenced \/ crashed

Init ==
    /\ row = [i \in Instance |-> "none"]
    /\ result = [i \in Instance |-> "none"]
    /\ lease = [i \in Instance |-> FALSE]
    /\ root = [i \in Instance |-> "none"]
    /\ kid = [i \in Instance |-> FALSE]
    /\ status = "none" /\ stopRequested = FALSE /\ attempts = 0 /\ index = 1
    /\ handle = FALSE /\ pending = FALSE /\ failing = FALSE /\ timer = FALSE
    /\ watching = FALSE
    /\ ready = "pending" /\ exit = "pending" /\ stopped = "pending"
    /\ starter = "none" /\ watcher = "none"
    /\ stopper = [c \in Stopper |-> "idle"]
    /\ confirmed = {}
    /\ held = FALSE /\ gated \in BOOLEAN /\ fenced = FALSE /\ crashed = FALSE

\* terminate answers confirmed_stopped.
Killed(i) ==
    /\ root' = [root EXCEPT ![i] = "dead"]
    /\ kid' = [kid EXCEPT ![i] = FALSE]

\* recordOperationResult on a row that is not done.
Record(i, what) ==
    /\ row' = [row EXCEPT ![i] = "done"]
    /\ result' = [result EXCEPT ![i] = what]
    /\ lease' = [lease EXCEPT ![i] = (what = "indeterminate")]

-----------------------------------------------------------------------------
\* startService and spawnInstance.

\* settleStartupFailure without a process: record the failure, release, settle
\* every promise.  A fenced store refuses all of it.
StartupFailed ==
    /\ stopRequested' = TRUE
    /\ status' = "failed"
    /\ held' = fenced
    /\ ready' = Reject(ready) /\ exit' = Reject(exit)
    /\ stopped' = IF fenced THEN Reject(stopped) ELSE Resolve(stopped)
    /\ watching' = FALSE
    /\ starter' = "none"

\* spawnInstance up to the await of driver.spawn: the intent and its leases, or
\* the refusal of a closed run or a fenced store.
Begin(i) ==
    /\ index' = i
    /\ pending' = FALSE
    /\ \/ /\ ~fenced
          /\ row' = [row EXCEPT ![i] = "intent_registered"]
          /\ lease' = [lease EXCEPT ![i] = TRUE]
          /\ starter' = "spawning"
          /\ held' = (held \/ i = 1)
          /\ exit' = "pending"
          /\ UNCHANGED <<stopRequested, ready, stopped, result, watching>>
       \/ StartupFailed /\ UNCHANGED store

\* startService: allocate for the service, then the first instance.
Start ==
    /\ Up /\ status = "none" /\ ~fenced
    /\ Begin(1)
    /\ status' = IF starter' = "spawning" THEN "starting" ELSE "failed"
    /\ UNCHANGED <<os, attempts, handle, failing, timer, watcher, stopper,
                   confirmed, owner>>

\* The back-off is over.
Restart ==
    /\ Up /\ timer /\ ~stopRequested
    /\ timer' = FALSE /\ handle' = FALSE
    /\ Begin(attempts + 1)
    /\ status' = IF starter' = "spawning" THEN status ELSE "failed"
    /\ UNCHANGED <<os, attempts, failing, watcher, stopper, confirmed, owner>>

\* spawn rejects: no process.
SpawnFails ==
    /\ Up /\ starter = "spawning" /\ root[index] = "none"
    /\ StartupFailed
    /\ IF fenced THEN UNCHANGED store ELSE Record(index, "settled")
    /\ UNCHANGED <<os, attempts, index, handle, pending, failing, timer, watcher,
                   stopper, confirmed, owner>>

\* driver.spawn makes the process: it waits at its gate, or runs at once.
Forked ==
    /\ Up /\ starter = "spawning" /\ root[index] = "none"
    /\ root' = [root EXCEPT ![index] = IF gated THEN "gated" ELSE "alive"]
    /\ UNCHANGED <<store, kid, promises, status, flags, tasks, held, owner>>

\* spawn resolves: the row becomes active, the gate opens, the exit listener is
\* attached.  The first instance is ready at once or when a line matches.
Activate ==
    /\ Up /\ starter = "spawning" /\ root[index] # "none" /\ ~fenced
    /\ root' = [root EXCEPT ![index] = IF @ = "gated" THEN "alive" ELSE @]
    /\ handle' = TRUE
    /\ row' = [row EXCEPT ![index] = "active"]
    /\ starter' = "none" /\ watcher' = "armed"
    /\ \/ index = 1 /\ status' = "running" /\ ready' = Resolve(ready) /\ UNCHANGED watching
       \/ index = 1 /\ watching' = TRUE /\ UNCHANGED <<status, ready>>
       \/ index > 1 /\ UNCHANGED <<status, ready, watching>>
    /\ UNCHANGED <<result, lease, kid, exit, stopped, stopRequested, attempts, index,
                   pending, failing, timer, stopper, confirmed, held, owner>>

\* The active row was refused: destroy the gate and stop the process again.
ActivateRefused ==
    /\ Up /\ starter = "spawning" /\ root[index] # "none" /\ fenced
    /\ root' = [root EXCEPT ![index] = IF @ = "gated" THEN "dead" ELSE @]
    /\ handle' = TRUE
    /\ stopRequested' = TRUE
    /\ starter' = "cleaning"
    /\ UNCHANGED <<store, kid, promises, status, attempts, index, pending, failing,
                   timer, watching, watcher, stopper, confirmed, held, owner>>

\* ... which nothing can record any more.
CleanedUp ==
    /\ Up /\ starter = "cleaning"
    /\ \/ Killed(index) /\ exit' = Resolve(exit)
       \/ UNCHANGED os /\ exit' = IF root[index] = "dead" THEN Resolve(exit) ELSE Reject(exit)
    /\ status' = "failed" /\ starter' = "none"
    /\ ready' = Reject(ready) /\ stopped' = Reject(stopped)
    /\ UNCHANGED <<store, flags, watcher, stopper, confirmed, held, owner>>

-----------------------------------------------------------------------------
\* stopService and finalizeStop.

\* In the back-off: no process, so release and settle at once; a fenced store
\* throws after the status has changed.
StopInBackoff(c) ==
    /\ timer
    /\ timer' = FALSE /\ status' = "stopped"
    /\ \/ /\ ~fenced
          /\ held' = FALSE /\ stopped' = Resolve(stopped)
          /\ stopper' = [stopper EXCEPT ![c] = "joined"]
       \/ /\ fenced
          /\ stopper' = [stopper EXCEPT ![c] = "refused"]
          /\ UNCHANGED <<held, stopped>>

\* A call of stopService: join a stop that is over or under way, or begin one.
CallStop(c) ==
    /\ stopper[c] = "idle"
    /\ \/ /\ status \in {"stopping", "stopped", "failed"}
          /\ stopper' = [stopper EXCEPT ![c] = "joined"]
          /\ UNCHANGED <<status, stopRequested, timer, held, stopped>>
       \/ /\ status \in {"starting", "running"}
          /\ stopRequested' = TRUE
          /\ \/ StopInBackoff(c)
             \/ /\ ~timer /\ handle
                /\ status' = "stopping"
                /\ stopper' = [stopper EXCEPT ![c] = "terminating"]
                /\ UNCHANGED <<timer, held, stopped>>
             \/ /\ ~timer /\ ~handle
                /\ status' = "stopped" /\ stopped' = Resolve(stopped)
                /\ stopper' = [stopper EXCEPT ![c] = "joined"]
                /\ UNCHANGED <<timer, held>>

Stop(c) ==
    /\ Up
    /\ CallStop(c)
    /\ UNCHANGED <<store, os, ready, exit, attempts, index, handle, pending, failing,
                   watching, starter, watcher, confirmed, owner>>

\* terminate answers.
StopTerminated(c) ==
    /\ Up /\ stopper[c] = "terminating"
    /\ stopper' = [stopper EXCEPT ![c] = "waiting"]
    /\ \/ Killed(index) /\ confirmed' = confirmed \cup {c}
       \/ UNCHANGED <<os, confirmed>>
    /\ UNCHANGED <<store, promises, status, flags, starter, watcher, held, owner>>

\* finalizeStop throws when the store refuses a write: only the caller hears it.
FinalizeThrows(c) ==
    /\ stopper' = [stopper EXCEPT ![c] = "refused"]
    /\ UNCHANGED <<store, status, held, stopped>>

\* Confirmed: the driver vouches for the group, the root exit was seen, and
\* handleInstanceExit has handed its result over.
FinalizeConfirmed(c) ==
    \/ /\ ~fenced /\ row[index] # "done"
       /\ Record(index, "settled")
       /\ status' = IF failing THEN "failed" ELSE "stopped"
       /\ held' = FALSE /\ stopped' = Resolve(stopped)
       /\ stopper' = [stopper EXCEPT ![c] = "joined"]
    \/ (fenced \/ row[index] = "done") /\ FinalizeThrows(c)

\* Otherwise the instance is indeterminate and the service keeps its lock.
FinalizeUnconfirmed(c) ==
    \/ /\ ~fenced
       /\ IF row[index] = "done" THEN UNCHANGED store ELSE Record(index, "indeterminate")
       /\ status' = "failed" /\ stopped' = Resolve(stopped)
       /\ stopper' = [stopper EXCEPT ![c] = "joined"]
       /\ UNCHANGED held
    \/ fenced /\ row[index] # "done" /\ FinalizeThrows(c)
    \/ /\ fenced /\ row[index] = "done"
       /\ status' = "failed"
       /\ stopper' = [stopper EXCEPT ![c] = "refused"]
       /\ UNCHANGED <<store, held, stopped>>

\* The bounded wait for the root exit is over.
StopFinalized(c) ==
    /\ Up /\ stopper[c] = "waiting"
    /\ \/ exit = "rejected" /\ FinalizeThrows(c) /\ UNCHANGED pending
       \/ /\ exit # "rejected" /\ pending' = FALSE
          /\ IF c \in confirmed /\ exit = "resolved" /\ pending
             THEN FinalizeConfirmed(c)
             ELSE FinalizeUnconfirmed(c)
    /\ UNCHANGED <<os, ready, exit, stopRequested, attempts, index, handle, failing,
                   timer, watching, starter, watcher, confirmed, owner>>

-----------------------------------------------------------------------------
\* Readiness.

\* A line matches, whatever the status is by now.  On a fenced store the listener
\* throws, which ends the owner: Crash.
ReadyLine ==
    /\ Up /\ watching /\ ~fenced
    /\ watching' = FALSE
    /\ status' = "running"
    /\ ready' = Resolve(ready)
    /\ UNCHANGED <<store, os, exit, stopped, stopRequested, attempts, index, handle,
                   pending, failing, timer, tasks, held, owner>>

\* No line in time: remember why and stop the service.
ReadyTimeout ==
    /\ Up /\ watching
    /\ watching' = FALSE /\ failing' = TRUE
    /\ ready' = Reject(ready)
    /\ CallStop(Probe)
    /\ UNCHANGED <<store, os, exit, attempts, index, handle, pending, starter, watcher,
                   confirmed, owner>>

-----------------------------------------------------------------------------
\* handleInstanceExit.

\* The exit of the root process is heard: the probe ends.
ExitSeen ==
    /\ Up /\ watcher = "armed" /\ root[index] = "dead"
    /\ watching' = FALSE
    /\ ready' = Reject(ready)
    /\ watcher' = "draining"
    /\ UNCHANGED <<store, os, exit, stopped, status, stopRequested, attempts, index,
                   handle, pending, failing, timer, starter, stopper, confirmed, held,
                   owner>>

\* An explicit stop is under way: the result is left to finalizeStop.
HandOver ==
    /\ stopRequested
    /\ pending' = TRUE /\ exit' = Resolve(exit) /\ watcher' = "none"
    /\ UNCHANGED <<store, status, attempts, timer, held, ready, stopped>>

\* stderr is drained and the identity verified.
ExitDrained ==
    /\ Up /\ watcher = "draining"
    /\ \/ HandOver
       \/ /\ ~stopRequested /\ watcher' = "settling"
          /\ UNCHANGED <<store, pending, exit, status, attempts, timer, held, ready, stopped>>
    /\ UNCHANGED <<os, stopRequested, index, handle, failing, watching, starter,
                   stopper, confirmed, owner>>

\* A write throws: rejectLifecycle.
ExitRefused ==
    /\ ~stopRequested /\ fenced
    /\ status' = "failed" /\ watcher' = "none"
    /\ ready' = Reject(ready) /\ exit' = Reject(exit) /\ stopped' = Reject(stopped)
    /\ UNCHANGED <<store, pending, attempts, timer, held>>

\* Mutant: the restart policy is evaluated over an unconfirmed tree too.
ExitUnconfirmedRestarts ==
    /\ ~stopRequested /\ ~fenced /\ attempts < MaxRestarts
    /\ Record(index, "indeterminate")
    /\ exit' = Resolve(exit) /\ watcher' = "none"
    /\ attempts' = attempts + 1 /\ timer' = TRUE
    /\ UNCHANGED <<pending, status, held, ready, stopped>>

\* Descendants could not be confirmed stopped: isolate, keep the lock.
ExitUnconfirmed ==
    /\ ~stopRequested /\ ~fenced
    /\ Record(index, "indeterminate")
    /\ status' = "failed" /\ watcher' = "none"
    /\ exit' = Resolve(exit) /\ stopped' = Resolve(stopped)
    /\ UNCHANGED <<pending, attempts, timer, held, ready>>

\* Mutant: the restart policy is evaluated after an explicit stop too.
ExitSettledIgnoresStop ==
    /\ ~fenced
    /\ Record(index, "settled")
    /\ exit' = Resolve(exit) /\ watcher' = "none"
    /\ \/ /\ status' \in {"stopped", "failed"}
          /\ held' = FALSE /\ stopped' = Resolve(stopped)
          /\ UNCHANGED <<attempts, timer>>
       \/ /\ attempts < MaxRestarts
          /\ attempts' = attempts + 1 /\ timer' = TRUE
          /\ UNCHANGED <<status, held, stopped>>
    /\ UNCHANGED <<pending, ready>>

\* The tree is settled: record, then end (exit code 0, or no restart left) and
\* release, or back off with the lock held.
ExitSettled ==
    /\ ~stopRequested /\ ~fenced
    /\ Record(index, "settled")
    /\ exit' = Resolve(exit) /\ watcher' = "none"
    /\ \/ /\ status' \in {"stopped"} \cup (IF attempts = MaxRestarts THEN {"failed"} ELSE {})
          /\ held' = FALSE /\ stopped' = Resolve(stopped)
          /\ UNCHANGED <<attempts, timer>>
       \/ /\ attempts < MaxRestarts
          /\ attempts' = attempts + 1 /\ timer' = TRUE
          /\ UNCHANGED <<status, held, stopped>>
    /\ UNCHANGED <<pending, ready>>

\* settleProcessTree answers: nothing known to live, or residual and killed; or
\* residual and not confirmed.
TreeAnswered ==
    /\ Up /\ watcher = "settling"
    /\ \/ UNCHANGED os /\ (HandOver \/ ExitRefused \/ ExitSettled)
       \/ kid[index] /\ Killed(index) /\ (HandOver \/ ExitRefused \/ ExitSettled)
       \/ kid[index] /\ UNCHANGED os /\ (HandOver \/ ExitRefused \/ ExitUnconfirmed)
    /\ UNCHANGED <<stopRequested, index, handle, failing, watching, starter,
                   stopper, confirmed, owner>>

-----------------------------------------------------------------------------
\* The process, the other owners, the human (external but for the last two).

ProcessExits(i) ==
    /\ root[i] \in {"gated", "alive"}
    /\ root' = [root EXCEPT ![i] = "dead"]
    /\ UNCHANGED <<store, kid, promises, status, flags, tasks, held, owner>>

ProcessForks(i) ==
    /\ root[i] = "alive"
    /\ kid' = [kid EXCEPT ![i] = TRUE]
    /\ UNCHANGED <<store, root, promises, status, flags, tasks, held, owner>>

Fence ==
    /\ Up /\ ~fenced
    /\ fenced' = TRUE
    /\ UNCHANGED <<store, os, promises, status, flags, tasks, held, gated, crashed>>

Crash ==
    /\ Up
    /\ crashed' = TRUE
    /\ UNCHANGED <<store, os, promises, status, flags, tasks, held, gated, fenced>>

\* recover() by the next owner: an intent behind a gate never ran, an instance is
\* stopped or its group found empty, and anything else is isolated.
Recover(i) ==
    /\ Lost /\ row[i] \in {"intent_registered", "active"}
    /\ \/ row[i] = "intent_registered" /\ gated /\ UNCHANGED os /\ Record(i, "settled")
       \/ row[i] = "active" /\ Killed(i) /\ Record(i, "settled")
       \/ row[i] = "active" /\ root[i] = "dead" /\ UNCHANGED os /\ Record(i, "settled")
       \/ (row[i] = "active" \/ ~gated) /\ UNCHANGED os /\ Record(i, "indeterminate")
    /\ UNCHANGED <<promises, status, flags, tasks, held, owner>>

\* adjudicate of an instance: its rows go, and with them the lock on the same
\* resources, whoever the table names.
Adjudicate(i) ==
    /\ result[i] = "indeterminate"
    /\ result' = [result EXCEPT ![i] = "adjudicated"]
    /\ lease' = [lease EXCEPT ![i] = FALSE]
    /\ held' = (held /\ Lost)
    /\ UNCHANGED <<row, os, promises, status, flags, tasks, owner>>

Spawn == Start \/ Restart \/ Forked \/ SpawnFails \/ Activate \/ ActivateRefused \/ CleanedUp

StopPipeline == \E c \in Stopper : StopTerminated(c) \/ StopFinalized(c)

Exit == ExitSeen \/ ExitDrained \/ TreeAnswered

Next == \/ Spawn \/ StopPipeline \/ Exit \/ ReadyLine \/ ReadyTimeout \/ Fence \/ Crash
        \/ \E c \in Caller : Stop(c)
        \/ \E i \in Instance : ProcessExits(i) \/ ProcessForks(i) \/ Recover(i)
                               \/ Adjudicate(i)

Spec == Init /\ [][Next]_vars

\* Timers fire, the driver answers, the event loop runs what is ready.  Nothing
\* makes a process exit, a line match or a caller stop.
Fairness ==
    /\ WF_vars(Restart) /\ WF_vars(SpawnFails \/ Forked)
    /\ WF_vars(Activate \/ ActivateRefused)
    /\ WF_vars(CleanedUp) /\ WF_vars(ReadyTimeout)
    /\ WF_vars(ExitSeen) /\ WF_vars(ExitDrained) /\ WF_vars(TreeAnswered)
    /\ \A c \in Stopper : WF_vars(StopTerminated(c)) /\ WF_vars(StopFinalized(c))

LiveSpec == Spec /\ Fairness

-----------------------------------------------------------------------------
\* Types of the rows, of the processes and of ServiceRuntimeState.
TypeOK ==
    /\ row \in [Instance -> {"none", "intent_registered", "active", "done"}]
    /\ result \in [Instance -> {"none", "settled", "indeterminate", "adjudicated"}]
    /\ lease \in [Instance -> BOOLEAN]
    /\ root \in [Instance -> {"none", "gated", "alive", "dead"}]
    /\ kid \in [Instance -> BOOLEAN]
    /\ status \in {"none", "starting", "running", "stopping", "stopped", "failed"}
    /\ stopRequested \in BOOLEAN /\ attempts \in 0 .. MaxRestarts /\ index \in Instance
    /\ handle \in BOOLEAN /\ pending \in BOOLEAN /\ failing \in BOOLEAN
    /\ timer \in BOOLEAN /\ watching \in BOOLEAN
    /\ ready \in Promise /\ exit \in Promise /\ stopped \in Promise
    /\ starter \in {"none", "spawning", "cleaning"}
    /\ watcher \in {"none", "armed", "draining", "settling"}
    /\ stopper \in [Stopper -> {"idle", "terminating", "waiting", "joined", "refused"}]
    /\ confirmed \in SUBSET Stopper
    /\ held \in BOOLEAN /\ gated \in BOOLEAN /\ fenced \in BOOLEAN /\ crashed \in BOOLEAN

\* A living instance is isolated: its rows are in the store, and while its owner
\* is in charge the service holds the lock, through restarts, stops, failed
\* starts and recovery (registerOperationIntent, finalizeStop, recover).
InstanceProtected ==
    \A i \in Instance : root[i] = "alive" /\ result[i] # "adjudicated" =>
        lease[i] /\ (~Lost => held)

\* The service lock goes only when every instance is settled or adjudicated, and
\* stays over the back-off (handleInstanceExit, finalizeStop, stopService).
LockOutlivesInstances ==
    ~held => \A i \in Instance : row[i] # "none" /\ ~Lost =>
        result[i] \in {"settled", "adjudicated"}

\* A new instance is started only over a settled predecessor (handleInstanceExit).
RestartOverSettled ==
    \A i, j \in Instance : j < i /\ row[i] # "none" => result[j] = "settled"

\* An explicit stop ends the restarts, wherever it meets the exit of an instance
\* (handleInstanceExit).
NoRestartAfterStop == [][stopRequested => attempts' = attempts]_vars

Answered(c) == stopper[c] = "refused" \/ (stopper[c] = "joined" /\ stopped # "pending")

\* Every call of stop() is answered by an owner that is in charge (stopService).
StopIsAnswered ==
    \A c \in Stopper : (stopper[c] # "idle") ~> (Answered(c) \/ Lost)

\* The ready promise of a started service is settled (setupReadiness,
\* handleInstanceExit, settleStartupFailure).
ReadyIsAnswered == (status # "none") ~> (ready # "pending" \/ Lost)

\* When stop() has resolved, no instance runs unless it is recorded as
\* indeterminate (stopService).
StoppedMeansGone ==
    stopped = "resolved" => \A i \in Instance : root[i] = "alive" =>
        result[i] \in {"indeterminate", "adjudicated"}

\* A living instance is isolated, the service's lock outlives every unsettled
\* instance, and a restart begins over a settled predecessor only.
InstancesIsolated ==
    /\ TypeOK
    /\ InstanceProtected
    /\ LockOutlivesInstances
    /\ RestartOverSettled

\* A stop ends the restarts, and stop() and ready are answered.
StopIsFinal ==
    /\ NoRestartAfterStop
    /\ StopIsAnswered
    /\ ReadyIsAnswered
=============================================================================
