-------------------------- MODULE OperationLifecycle --------------------------
(***************************************************************************)
(* One process operation from submission to its durable result: the start  *)
(* protocol and the supervision of runProcess and superviseActive          *)
(* (src/src/supervisor/process-run.ts, process-monitor.ts), the stop       *)
(* pipeline of ProcessSupervisor (supervisor.ts), the single writer of     *)
(* results (finalize.ts, store/sqlite.ts) and the adjudication of what a   *)
(* crashed or fenced owner left behind (recovery/engine.ts).               *)
(*                                                                         *)
(* A step is one job of the event loop, from one await to the next.  The   *)
(* operating system (the root process, its descendants, a later user of    *)
(* its process group id) moves between any two steps.  The driver answers  *)
(* truthfully or does not know: "confirmed" is never said of a process     *)
(* that lives.                                                             *)
(***************************************************************************)
EXTENDS Naturals

CONSTANTS
    Gated,       \* driver.capabilities.gatedSpawn
    Contained,   \* descendantEnumeration = 'cgroup': descendants cannot escape
    MaxCrashes   \* bound: owner crashes

ASSUME LifecycleAssumption ==
    /\ Gated \in BOOLEAN
    /\ Contained \in BOOLEAN
    /\ MaxCrashes \in Nat

VARIABLES
    \* the store
    row,        \* operations.status, "none" before any row exists
    identity,   \* process_identity is recorded
    result,     \* operations.result
    claim,      \* what a settled result says of the process tree
    results,    \* number of OPERATION_RESULT_RECORDED events
    lease,      \* the operation has its resource_leases rows
    verdict,    \* of the human who adjudicated an indeterminate result
    run,        \* status of its run
    \* the operating system
    root,       \* the spawned process
    spawns,     \* how many times the driver started it
    kids,       \* living descendants: in its process group, escaped from it
    stranger,   \* an unrelated group uses the process group id
    rebooted,   \* the host has rebooted since the spawn
    struck,     \* a signal was sent to the unrelated group
    \* the owner's memory
    pc,         \* where runProcess is suspended
    phase,      \* opState.phase
    cancelled,  \* opState.cancelRequested
    early,      \* stop promise of a cancel that came before the process was active
    pipe,       \* promise of handleStopPipeline
    watched,    \* the race follows that promise itself, not the stop trigger
    natural,    \* the race was won by the exit of the root process
    settlement, \* treeSettlement of the result being built
    fenced,     \* another owner has a newer epoch
    lost,       \* an owner that does not run the operation has to recover it
    crashes

store == <<row, identity, result, claim, results, lease, verdict, run>>
os == <<root, spawns, kids, stranger, rebooted, struck>>
memory == <<pc, phase, cancelled, early, pipe, watched, natural, settlement>>
Outside == <<fenced, lost, crashes>>
vars == <<store, os, memory, Outside>>

Row == {"none", "intent_registered", "active", "stopping", "done"}
Claim == {"none", "never_ran", "empty", "reaped", "unverified", "stopped", "dead"}
Promise == {"none", "pending", "confirmed", "unconfirmed", "rejected"}
Pc == {"idle", "waiting", "spawning", "spawned", "aborting", "racing", "timeout_stop",
       "timeout_exit", "draining", "reaping", "settling", "verifying",
       "await_stop", "finished", "left"}

Unfinished == row \in {"intent_registered", "active", "stopping"}

Init ==
    /\ row = "none" /\ identity = FALSE /\ result = "none" /\ claim = "none"
    /\ results = 0 /\ lease = FALSE /\ verdict = "none" /\ run = "running"
    /\ root = "none" /\ spawns = 0 /\ kids = {} /\ stranger = FALSE
    /\ rebooted = FALSE /\ struck = FALSE
    /\ pc = "idle" /\ phase = "waiting_resources" /\ cancelled = FALSE
    /\ early = "none" /\ pipe = "none" /\ watched = FALSE /\ natural = FALSE
    /\ settlement = "none"
    /\ fenced = FALSE /\ lost = FALSE /\ crashes = 0

-----------------------------------------------------------------------------
\* Writes of results.

\* recordOperationResult with a settled result: leases go in the same transaction.
RecordSettled(what) ==
    /\ row' = "done" /\ result' = "settled" /\ claim' = what
    /\ results' = results + 1
    /\ lease' = FALSE
    /\ UNCHANGED <<identity, verdict, run>>

\* Mutant: an indeterminate result deletes the leases too.
RecordIndeterminateReleases ==
    /\ row' = "done" /\ result' = "indeterminate"
    /\ results' = results + 1
    /\ lease' = FALSE
    /\ UNCHANGED <<identity, claim, verdict>>

\* recordOperationResult with an indeterminate result keeps the leases.
RecordIndeterminate ==
    /\ row' = "done" /\ result' = "indeterminate"
    /\ results' = results + 1
    /\ UNCHANGED <<identity, claim, lease, verdict>>

\* Mutant: whoever comes second writes a result too.
RecordableUnlessFenced == ~fenced

\* recordOperationResult throws on a done row and on a second result event.
Recordable == ~fenced /\ row # "done" /\ results = 0

\* finalizeOperation with a settled result; throws when it is not recordable.
Finalize(what) ==
    \/ Recordable /\ RecordSettled(what)
    \/ ~Recordable /\ UNCHANGED store

\* finalizeOperation with an indeterminate result also makes the run
\* indeterminate; on a run that is terminal otherwise, that second transaction
\* throws after the first is committed.
Isolate ==
    \/ /\ Recordable /\ RecordIndeterminate
       /\ run' = IF run = "running" THEN "indeterminate" ELSE run
    \/ ~Recordable /\ UNCHANGED store

\* ... and its caller sees no error.
IsolateReturns == Recordable /\ run # "closed"

\* terminate answers confirmed_stopped: root and process group are gone, and in
\* a cgroup every descendant is.
Killed ==
    /\ root' = IF root = "none" THEN "none" ELSE "dead"
    /\ kids' = IF Contained THEN {} ELSE kids \ {"group"}
    /\ UNCHANGED <<spawns, stranger, rebooted, struck>>

\* The promise of an early cancel, if one is waiting, gets this answer.
AnswerEarly(answer) == early' = IF early = "pending" THEN answer ELSE early

StopPromise == early # "none" \/ pipe # "none"

-----------------------------------------------------------------------------
\* The start protocol (runProcess).

\* executeProcess of an operation that is neither in flight nor recorded, the first
\* call or one after a call that threw; an abort signal may have fired already.  A
\* host recovers before it executes.
Submit ==
    /\ pc \in {"idle", "left"} /\ row = "none" /\ run = "running" /\ ~fenced /\ ~lost
    /\ pc' = "waiting" /\ phase' = "waiting_resources"
    /\ cancelled' \in BOOLEAN
    /\ early' = "none" /\ pipe' = "none" /\ watched' = FALSE /\ natural' = FALSE
    /\ settlement' = "none"
    /\ UNCHANGED <<store, os, Outside>>

\* Mutant: the `finally` does not settle the stop promise.
LeaveUnanswered == pc' = "left" /\ UNCHANGED early

\* The `finally` of runProcess: a stop promise still pending is answered
\* confirmed_stopped, and the operation leaves activeOperations.
Leave == pc' = "left" /\ AnswerEarly("confirmed")

\* Resources granted and no cancel: the intent and its leases in one transaction.
RegisterIntent ==
    /\ pc = "waiting" /\ ~cancelled /\ run = "running" /\ ~fenced /\ row = "none"
    /\ row' = "intent_registered" /\ lease' = TRUE
    /\ pc' = "spawning" /\ phase' = "spawning"
    /\ UNCHANGED <<identity, result, claim, results, verdict, run, os,
                   cancelled, early, pipe, watched, natural, settlement, Outside>>

\* The wait timed out, or the store refused the intent: the call throws.
RegisterFails ==
    /\ pc = "waiting" /\ ~cancelled
    /\ Leave
    /\ UNCHANGED <<phase, cancelled, pipe, watched, natural, settlement, store, os, Outside>>

\* cancelBeforeSpawn: no intent was written, so recordPreIntentCancelledOperation
\* writes the row; on a closed run or a fenced store it throws.
CancelBeforeSpawn ==
    /\ pc = "waiting" /\ cancelled
    /\ phase' = "done"
    /\ Leave
    /\ \/ ~fenced /\ run = "running" /\ RecordSettled("never_ran")
       \/ (fenced \/ run # "running") /\ UNCHANGED store
    /\ UNCHANGED <<cancelled, pipe, watched, natural, settlement, os, Outside>>

\* The driver creates the child: blocked on its gate, or running at once.
SpawnChild ==
    /\ pc = "spawning"
    /\ root' = IF Gated THEN "gated" ELSE "alive"
    /\ spawns' = spawns + 1
    /\ pc' = "spawned"
    /\ UNCHANGED <<kids, stranger, rebooted, struck, phase, cancelled, early, pipe,
                   watched, natural, settlement, store, Outside>>

\* spawn rejects: nothing was created (failSpawn).
SpawnFails ==
    /\ pc = "spawning"
    /\ phase' = "done"
    /\ Leave
    /\ Finalize("never_ran")
    /\ UNCHANGED <<cancelled, pipe, watched, natural, settlement, os, Outside>>

\* Start of handleStopPipeline: the row goes to stopping before any signal; a
\* fenced store makes the pipeline reject.
StartPipe ==
    /\ phase' = "stopping"
    /\ row' = IF fenced THEN row ELSE "stopping"
    /\ pipe' = IF fenced THEN "rejected" ELSE "pending"
    /\ UNCHANGED <<identity, result, claim, results, lease, verdict, run>>

\* spawn resolves.  activateOrAbort records the identity, then opens the gate;
\* superviseActive starts the pipeline for a cancel that came meanwhile and then
\* races exit, timeout and stop.
Activate ==
    /\ pc = "spawned" /\ ~fenced
    /\ identity' = TRUE
    /\ root' = IF root = "gated" THEN "alive" ELSE root
    /\ IF cancelled
       THEN row' = "stopping" /\ phase' = "stopping" /\ pipe' = "pending"
       ELSE row' = "active" /\ phase' = "active" /\ UNCHANGED pipe
    /\ watched' = cancelled
    /\ pc' = "racing"
    /\ UNCHANGED <<result, claim, results, lease, verdict, run, spawns, kids,
                   stranger, rebooted, struck, cancelled, early, natural, settlement, fenced,
                   lost, crashes>>

\* The active row was refused: the gate is destroyed and the child stopped.
ActivateRefused ==
    /\ pc = "spawned" /\ fenced
    /\ phase' = "stopping" /\ pc' = "aborting"
    /\ UNCHANGED <<cancelled, early, pipe, watched, natural, settlement, store, os, Outside>>

\* The active row was written and the gate opened, then CAPABILITY_USED was
\* refused because another owner had taken over in between.
ActivateUnrecordedUse ==
    /\ pc = "spawned" /\ ~fenced
    /\ row' = "active" /\ identity' = TRUE
    /\ root' = IF root = "gated" THEN "alive" ELSE root
    /\ phase' = "stopping" /\ pc' = "aborting"
    /\ fenced' = TRUE /\ lost' = TRUE
    /\ UNCHANGED <<result, claim, results, lease, verdict, run, spawns, kids,
                   stranger, rebooted, struck, cancelled, early, pipe, watched,
                   natural, settlement, crashes>>

\* The abort's terminate answers; the stop promise hears it before the result is
\* written, and the call throws either way.
AbortDone ==
    /\ pc = "aborting"
    /\ phase' = "done" /\ pc' = "left"
    /\ \/ Killed /\ AnswerEarly("confirmed") /\ Finalize("stopped")
       \/ UNCHANGED os /\ AnswerEarly("unconfirmed") /\ Isolate
    /\ UNCHANGED <<cancelled, pipe, watched, natural, settlement, Outside>>

-----------------------------------------------------------------------------
\* The stop pipeline (cancelOperation, handleStopPipeline).

InFlight == pc \notin {"idle", "left"} /\ phase # "done"

\* Before the process is active a cancel only leaves a promise behind.
CancelEarly ==
    /\ InFlight /\ phase \notin {"active", "stopping"}
    /\ cancelled' = TRUE
    /\ early' = IF early = "none" THEN "pending" ELSE early
    /\ UNCHANGED <<pc, phase, pipe, watched, natural, settlement, store, os, Outside>>

\* A cancel of an active process, or the budget sampler, starts the pipeline; one
\* that is stopping already only joins its promise.
CancelActive ==
    /\ InFlight
    /\ phase = "active" \/ (phase = "stopping" /\ ~StopPromise)
    /\ cancelled' \in {cancelled, TRUE}
    /\ StartPipe
    /\ UNCHANGED <<pc, early, watched, natural, settlement, os, Outside>>

\* terminate answers.  An unconfirmed stop is made durable before it is
\* announced; when that throws, the pipeline rejects and announces nothing.
PipeDone ==
    /\ pipe = "pending"
    /\ \/ /\ Killed
          /\ pipe' = "confirmed" /\ AnswerEarly("confirmed")
          /\ UNCHANGED store
       \/ /\ row = "done"
          /\ pipe' = "unconfirmed" /\ AnswerEarly("unconfirmed")
          /\ UNCHANGED <<store, os>>
       \/ /\ row # "done"
          /\ Isolate
          /\ pipe' = IF IsolateReturns THEN "unconfirmed" ELSE "rejected"
          /\ IF IsolateReturns THEN AnswerEarly("unconfirmed") ELSE UNCHANGED early
          /\ UNCHANGED os
    /\ UNCHANGED <<pc, phase, cancelled, watched, natural, settlement, Outside>>

-----------------------------------------------------------------------------
\* Supervision of the active process (superviseActive).

\* The root exit wins the race.
RaceExit ==
    /\ pc = "racing" /\ root = "dead"
    /\ natural' = TRUE /\ pc' = "draining"
    /\ UNCHANGED <<phase, cancelled, early, pipe, watched, settlement, store, os, Outside>>

\* The timeout wins: run the stop pipeline, or join the one that is running.
RaceTimeout ==
    /\ pc = "racing"
    /\ pc' = "timeout_stop"
    /\ \/ phase = "stopping" /\ UNCHANGED <<phase, pipe, store>>
       \/ phase = "active" /\ StartPipe
    /\ UNCHANGED <<cancelled, early, watched, natural, settlement, os, Outside>>

\* A stop that could not be confirmed: keep what the pipeline recorded, or record
\* it now (recordUnconfirmedStop, holdLeases).
HoldLeases ==
    \/ row = "done" /\ UNCHANGED store
    \/ row # "done" /\ Isolate

\* A confirmed stop wins the race: wait for the exit fact, which may not come.
RaceStop ==
    /\ pc = "racing"
    /\ \/ /\ pipe = "confirmed" /\ pc' = "draining" /\ natural' = FALSE
          /\ UNCHANGED store
       \/ pipe = "unconfirmed" /\ pc' = "finished" /\ HoldLeases /\ UNCHANGED natural
    /\ UNCHANGED <<phase, cancelled, early, pipe, watched, settlement, os, Outside>>

\* A rejected pipeline is seen only by a race that follows its promise.
RaceRejected ==
    /\ pc = "racing" /\ watched /\ pipe = "rejected"
    /\ pc' = "finished"
    /\ UNCHANGED <<phase, cancelled, early, pipe, watched, natural, settlement, store, os, Outside>>

\* After a timeout: the pipeline's answer ...
TimeoutStopped ==
    /\ pc = "timeout_stop" /\ pipe # "pending"
    /\ pc' = IF pipe = "rejected" THEN "finished" ELSE "timeout_exit"
    /\ UNCHANGED <<phase, cancelled, early, pipe, watched, natural, settlement, store, os, Outside>>

\* ... then the bounded wait for the exit.  Only both together count as stopped.
TimeoutExit ==
    /\ pc = "timeout_exit"
    /\ \/ /\ pipe = "confirmed" /\ root = "dead"
          /\ pc' = "draining" /\ natural' = FALSE
          /\ UNCHANGED store
       \/ /\ pc' = "finished"
          /\ IF row = "done" /\ result = "indeterminate" THEN UNCHANGED store ELSE Isolate
          /\ UNCHANGED natural
    /\ UNCHANGED <<phase, cancelled, early, pipe, watched, settlement, os, Outside>>

\* updateRecoveryEvidence, then verifyIdentity is awaited; the write is fenced.
Verify(what) ==
    /\ pc' = IF fenced THEN "finished" ELSE "verifying"
    /\ settlement' = what
    /\ UNCHANGED store

\* The pipes are drained: the stop pipeline vouches for the tree if there is one,
\* otherwise the driver is asked.
Drained ==
    /\ pc = "draining"
    /\ \/ (~natural \/ StopPromise) /\ Verify("stopped")
       \/ natural /\ ~StopPromise /\ pc' = "settling" /\ UNCHANGED <<settlement, store>>
    /\ UNCHANGED <<phase, cancelled, early, pipe, watched, natural, os, Outside>>

\* superviseActive gives up: an indeterminate result, leases kept.
GiveUp == pc' = "finished" /\ Isolate /\ UNCHANGED settlement

\* They are not: descendants hold them.  Reap, or give up.
DrainTimeout ==
    /\ pc = "draining"
    /\ \/ natural /\ pc' = "reaping" /\ UNCHANGED <<settlement, store>>
       \/ ~natural /\ GiveUp
    /\ UNCHANGED <<phase, cancelled, early, pipe, watched, natural, os, Outside>>

\* terminate answers the reap.  Confirmed and drained settles it; a pipe that is
\* still held means an escaped process nobody sees.
Reaped ==
    /\ pc = "reaping"
    /\ \/ Killed /\ Verify(IF StopPromise THEN "stopped" ELSE "reaped")
       \/ Killed /\ GiveUp
       \/ UNCHANGED os /\ GiveUp
    /\ UNCHANGED <<phase, cancelled, early, pipe, watched, natural, Outside>>

\* settleProcessTree: empty, unknown, or residual and then terminated.
TreeSettled ==
    /\ pc = "settling"
    /\ \/ kids = {} /\ Verify("empty") /\ UNCHANGED os
       \/ Verify("unverified") /\ UNCHANGED os
       \/ Killed /\ Verify("reaped")
       \/ UNCHANGED os /\ GiveUp
    /\ UNCHANGED <<phase, cancelled, early, pipe, watched, natural, Outside>>

\* Identity verified: a stop that came meanwhile is awaited, otherwise the result
\* is written.
Verified ==
    /\ pc = "verifying"
    /\ \/ StopPromise /\ pc' = "await_stop" /\ UNCHANGED store
       \/ ~StopPromise /\ pc' = "finished" /\ Finalize(settlement)
    /\ UNCHANGED <<phase, cancelled, early, pipe, watched, natural, settlement, os, Outside>>

StopAwaited ==
    /\ pc = "await_stop" /\ pipe \in {"confirmed", "unconfirmed", "rejected"}
    /\ pc' = "finished"
    /\ \/ pipe = "confirmed" /\ Finalize(settlement)
       \/ pipe = "unconfirmed" /\ HoldLeases
       \/ pipe = "rejected" /\ UNCHANGED store
    /\ UNCHANGED <<phase, cancelled, early, pipe, watched, natural, settlement, os, Outside>>

\* superviseActive has returned or thrown; the `finally` runs some jobs later.
Finally ==
    /\ pc = "finished"
    /\ Leave
    /\ UNCHANGED <<phase, cancelled, pipe, watched, natural, settlement, store, os, Outside>>

-----------------------------------------------------------------------------
\* The operating system, the host and the other owners (external).

RootExits ==
    /\ root \in {"gated", "alive"}
    /\ root' = "dead"
    /\ UNCHANGED <<spawns, kids, stranger, rebooted, struck, store, memory, Outside>>

Fork(kind) ==
    /\ root = "alive" \/ kids # {}
    /\ kind = "group" => root = "alive" \/ "group" \in kids
    /\ kids' = kids \cup {kind}
    /\ UNCHANGED <<root, spawns, stranger, rebooted, struck, store, memory, Outside>>

KidExits(kind) ==
    /\ kind \in kids
    /\ kids' = kids \ {kind}
    /\ UNCHANGED <<root, spawns, stranger, rebooted, struck, store, memory, Outside>>

\* The process group id is free again and goes to an unrelated process.
PgidReused ==
    /\ root = "dead" /\ "group" \notin kids
    /\ stranger' = TRUE
    /\ UNCHANGED <<root, spawns, kids, rebooted, struck, store, memory, Outside>>

\* The host finalizes the run (reportRunCancelled, reportRunFailed).
CloseRun ==
    /\ run = "running" /\ ~fenced
    /\ run' = "closed"
    /\ UNCHANGED <<row, identity, result, claim, results, lease, verdict, os, memory,
                   Outside>>

\* The owner stalls past its lease and another process takes the domain over.
Fence ==
    /\ pc # "idle" /\ ~fenced
    /\ fenced' = TRUE /\ lost' = TRUE
    /\ UNCHANGED <<store, os, memory, crashes>>

\* A new owner starts with an empty memory.
MemoryLost ==
    /\ crashes < MaxCrashes
    /\ crashes' = crashes + 1
    /\ pc' = "idle" /\ phase' = "waiting_resources" /\ cancelled' = FALSE
    /\ early' = "none" /\ pipe' = "none" /\ watched' = FALSE /\ natural' = FALSE
    /\ settlement' = "none"
    /\ fenced' = FALSE /\ lost' = TRUE

Crash == MemoryLost /\ UNCHANGED <<store, os>>

HostReboot ==
    /\ MemoryLost
    /\ root' = IF root = "none" THEN "none" ELSE "dead"
    /\ kids' = {} /\ stranger' = FALSE /\ rebooted' = TRUE
    /\ UNCHANGED <<spawns, struck, store>>

\* finalizeOperation of an indeterminate result is two transactions; the owner
\* dies between them.
CrashInFinalize ==
    /\ pipe = "pending" \/ pc \in {"reaping", "settling"}
    /\ Recordable /\ RecordIndeterminate /\ UNCHANGED run
    /\ MemoryLost
    /\ UNCHANGED os

-----------------------------------------------------------------------------
\* RecoveryEngine.recover by an owner that does not run the operation.

ToRecover == lost /\ Unfinished

\* What the process was found to be is recorded.  An operation that has its result
\* already, and whose row a late cancel has set back to stopping, is verified and
\* signalled like the others; then recordOperationResult throws out of recover().
RecoverAs(indeterminate, what) ==
    /\ \/ results = 0 /\ indeterminate /\ RecordIndeterminate /\ UNCHANGED run
       \/ results = 0 /\ ~indeterminate /\ RecordSettled(what)
       \/ results # 0 /\ UNCHANGED store
    /\ UNCHANGED <<memory, Outside>>

\* No identity: only a gated intent proves that the command never ran.
RecoverWithoutIdentity ==
    /\ ToRecover /\ ~identity
    /\ RecoverAs(~(row = "intent_registered" /\ Gated), "never_ran")
    /\ UNCHANGED os

\* The recorded process lives: stop it.
RecoverAlive ==
    /\ ToRecover /\ identity /\ root = "alive"
    /\ \/ Killed /\ RecoverAs(FALSE, "stopped")
       \/ UNCHANGED os /\ RecoverAs(TRUE, "none")

\* It is gone, and its cgroup tells whether a descendant is left.
RecoverDeadContained ==
    /\ ToRecover /\ identity /\ root = "dead" /\ Contained
    /\ \/ kids = {} /\ UNCHANGED os /\ RecoverAs(FALSE, "dead")
       \/ kids # {} /\ Killed /\ RecoverAs(FALSE, "dead")
       \/ kids # {} /\ UNCHANGED os /\ RecoverAs(TRUE, "none")

\* Mutant: a dead root process is taken for a dead process group.
RecoverDeadRootOnly ==
    /\ ToRecover /\ identity /\ root = "dead" /\ ~Contained
    /\ UNCHANGED os /\ RecoverAs(FALSE, "dead")

\* It is gone and no process has its group id.
RecoverDeadGroupEmpty ==
    /\ ToRecover /\ identity /\ root = "dead" /\ ~Contained
    /\ "group" \notin kids /\ ~stranger
    /\ UNCHANGED os /\ RecoverAs(FALSE, "dead")

\* Some group has its group id.  A changed boot id, or a member older than the
\* operation, forbids the signal; a later user of the id is neither.
RecoverDeadGroupAlive ==
    /\ ToRecover /\ identity /\ root = "dead" /\ ~Contained
    /\ "group" \in kids \/ stranger
    /\ IF rebooted
       THEN UNCHANGED os /\ RecoverAs(TRUE, "none")
       ELSE /\ \/ kids' = kids \ {"group"} /\ stranger' = FALSE /\ RecoverAs(FALSE, "dead")
               \/ UNCHANGED <<kids, stranger>> /\ RecoverAs(TRUE, "none")
            /\ struck' = (struck \/ stranger)
            /\ UNCHANGED <<root, spawns, rebooted>>

\* verifyIdentity cannot determine, or the persisted request is corrupt (whether
\* or not there is an identity).
RecoverUndetermined ==
    /\ ToRecover
    /\ RecoverAs(TRUE, "none")
    /\ UNCHANGED os

\* Last step of recover: a run without unfinished operations does not stay running.
RecoverRun ==
    /\ lost /\ ~Unfinished
    /\ run' = IF run # "running" THEN run
              ELSE IF result = "indeterminate" THEN "indeterminate" ELSE "closed"
    /\ lost' = FALSE
    /\ UNCHANGED <<row, identity, result, claim, results, lease, verdict, os, memory,
                   fenced, crashes>>

\* adjudicate: confirmed_stopped is refused while the recorded process or a member
\* of its group is seen alive.
Adjudicate(v) ==
    /\ row = "done" /\ result = "indeterminate"
    /\ v = "confirmed_stopped" /\ identity =>
           root \notin {"gated", "alive"} /\ "group" \notin kids /\ ~stranger
    /\ verdict' = v /\ lease' = FALSE
    /\ UNCHANGED <<row, identity, result, claim, results, run, os, memory, Outside>>

-----------------------------------------------------------------------------
Start == Submit \/ RegisterIntent \/ RegisterFails \/ CancelBeforeSpawn \/ SpawnChild
         \/ SpawnFails \/ Activate \/ ActivateRefused \/ ActivateUnrecordedUse \/ AbortDone

Stop == CancelEarly \/ CancelActive \/ PipeDone

Supervise == RaceExit \/ RaceTimeout \/ RaceStop \/ RaceRejected \/ TimeoutStopped
             \/ TimeoutExit \/ Drained \/ DrainTimeout \/ Reaped \/ TreeSettled
             \/ Verified \/ StopAwaited \/ Finally

Environment == \/ RootExits \/ PgidReused \/ CloseRun \/ Fence \/ Crash \/ HostReboot
               \/ CrashInFinalize
               \/ \E kind \in {"group", "escaped"} : Fork(kind) \/ KidExits(kind)

Recover == RecoverWithoutIdentity \/ RecoverAlive \/ RecoverDeadContained
           \/ RecoverDeadGroupEmpty \/ RecoverDeadGroupAlive \/ RecoverUndetermined

Next == \/ Start \/ Stop \/ Supervise \/ Environment \/ Recover \/ RecoverRun
        \/ \E v \in {"confirmed_stopped", "abandon_with_residuals"} : Adjudicate(v)

Spec == Init /\ [][Next]_vars

\* The event loop runs what is ready; the driver's spawn and terminate are bounded
\* in time, so are the waits of superviseActive, and the request has a timeout.
\* Nothing makes a process exit, a host cancel or an owner crash.
Fairness ==
    /\ WF_vars(RegisterIntent \/ RegisterFails \/ CancelBeforeSpawn)
    /\ WF_vars(SpawnChild \/ SpawnFails)
    /\ WF_vars(Activate \/ ActivateRefused)
    /\ WF_vars(AbortDone)
    /\ WF_vars(PipeDone)
    /\ WF_vars(Supervise)
    /\ WF_vars(Recover)
    /\ WF_vars(RecoverRun)

LiveSpec == Spec /\ Fairness

-----------------------------------------------------------------------------
\* Types of the rows, of the process tree and of the in-flight state (opState).
TypeOK ==
    /\ row \in Row /\ identity \in BOOLEAN
    /\ result \in {"none", "settled", "indeterminate"} /\ claim \in Claim
    /\ results \in Nat /\ lease \in BOOLEAN
    /\ verdict \in {"none", "confirmed_stopped", "abandon_with_residuals"}
    /\ run \in {"running", "closed", "indeterminate"}
    /\ root \in {"none", "gated", "alive", "dead"} /\ spawns \in Nat
    /\ kids \in SUBSET {"group", "escaped"}
    /\ stranger \in BOOLEAN /\ rebooted \in BOOLEAN /\ struck \in BOOLEAN
    /\ pc \in Pc
    /\ phase \in {"waiting_resources", "spawning", "active", "stopping", "done"}
    /\ cancelled \in BOOLEAN /\ early \in Promise /\ pipe \in Promise
    /\ watched \in BOOLEAN /\ natural \in BOOLEAN /\ settlement \in Claim
    /\ fenced \in BOOLEAN /\ lost \in BOOLEAN /\ crashes \in 0 .. MaxCrashes

\* A settled result is true of the operating system, whoever wrote it (the
\* supervisor, the abort of an activation, recovery): the process does not run
\* and never will, and unless the tree was left unverified no member of its
\* group is left, in a cgroup no descendant at all (finalizeOperation, recover).
SettledIsTrue ==
    result = "settled" =>
        /\ root # "alive"
        /\ claim = "never_ran" => root \in {"none", "gated", "dead"} /\ ~identity
        /\ claim # "unverified" => "group" \notin kids
        /\ claim # "unverified" /\ Contained => kids = {}

\* No premature release: as long as the process can have effects, its leases are
\* in the store, through crashes, takeovers, refused writes and recovery.  Only a
\* human verdict may end that (recordOperationResult, registerOperationIntent).
NoPrematureRelease == root = "alive" /\ verdict = "none" => lease

\* A process is started at most once and has at most one result, however often
\* the owner crashes and the operation is submitted again (replayRecorded,
\* recordOperationResult).
OnceOnly == spawns <= 1 /\ results <= 1

\* An unconfirmed stop is durable before the caller of cancelOperation hears of
\* it, so no crash after the answer can lose the isolation; only another owner's
\* recovery may have settled the operation meanwhile (handleStopPipeline).
UnconfirmedIsDurable ==
    pipe = "unconfirmed" => /\ row = "done"
                            /\ ~fenced => result = "indeterminate"

\* Every call of executeProcess returns: no wait of the start protocol, of the
\* supervision or of the stop pipeline lasts for ever (runProcess).
CallReturns == (pc = "waiting") ~> (pc \in {"idle", "left"})

\* Every cancel is answered, before and after activation (cancelOperation).
CancelIsAnswered ==
    /\ (early = "pending") ~> (early # "pending")
    /\ (pipe = "pending") ~> (pipe # "pending")

\* A cancel after the result has set a row back (cancelOperation,
\* updateOperationStatus).
SetBack == row = "stopping" /\ results > 0

\* What a lost owner left behind is adjudicated and its run does not stay running,
\* unless its row was set back after the result (recover).
RecoveryCompletes == lost ~> (SetBack \/ (~Unfinished /\ run # "running"))

\* recover() "advances unfinished operations to a terminal state or keeps them
\* isolated" (engine.ts:39).  Refuted for a row that was set back: every recover()
\* of the domain throws there, and the operations behind it are not looked at.
EveryLossIsRecovered == lost ~> (~Unfinished /\ run # "running")

\* cancelOperation answers confirmed_stopped only for a process that is gone.
StopAnswerIsTrue == early = "confirmed" => root # "alive" /\ "group" \notin kids

\* Recovery signals only processes of the operation.
StrangersAreSafe == ~struck

\* An operation is started and recorded at most once, and nobody hears of an
\* unconfirmed stop before its isolation is durable.
ResultIsFinal ==
    /\ TypeOK
    /\ OnceOnly
    /\ UnconfirmedIsDurable

\* Every call of runProcess returns, every cancel is answered, and recovery
\* adjudicates what a lost owner left, but for a row set back after its result.
EveryCallEnds ==
    /\ CallReturns
    /\ CancelIsAnswered
    /\ RecoveryCompletes
=============================================================================
