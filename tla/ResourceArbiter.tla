---------------------------- MODULE ResourceArbiter ----------------------------
(***************************************************************************)
(* Exclusive resources of one execution domain (src/src/domain.ts): the    *)
(* in-memory isolation table, the FIFO wait queue with its timers, the     *)
(* persisted leases and the rebuild of the table after a crash, driven by  *)
(* the steps of runProcess (src/src/supervisor/process-run.ts) that        *)
(* allocate, register, cancel and release.                                 *)
(*                                                                         *)
(* JavaScript runs one job at a time.  processWaitQueue is a loop inside   *)
(* such a job; each of its iterations is a step here, and while the loop   *)
(* is on (scanAt # 0) no other step of the kernel is enabled.  An `await`  *)
(* is where another job can run: the state "resumed" is the gap between    *)
(* the resolution of allocateResourcesWithWait and the code after it.      *)
(***************************************************************************)
EXTENDS Naturals, Sequences, FiniteSets

CONSTANTS
    Op,                \* operation ids, each submitted at most once
    Resource,          \* resource ids
    Run,               \* runs
    RunOf,             \* the run each operation belongs to
    MaxConcurrentOps,  \* DomainBudget.maxConcurrentOps, 0 when not set
    NoOp               \* "no holder"

ASSUME ArbiterAssumption ==
    /\ NoOp \notin Op
    /\ RunOf \in [Op -> Run]
    /\ MaxConcurrentOps \in Nat
    /\ IsFiniteSet(Op)

VARIABLES
    locked,       \* inMemoryLockedResources: resource -> holder
    allocated,    \* inMemoryAllocatedOps
    queue,        \* waitQueue
    scanAt,       \* index processWaitQueue is at, 0 when it is not running
    reserved,     \* its reservedResources
    capped,       \* its concurrencyBlocked
    needs,        \* requiredResources of each submitted operation
    stage,        \* where the execution of each operation stands
    cancelled,    \* operations whose opState.cancelRequested is set
    leases,       \* resource_leases rows, <<resource, operation>>
    adjudicated,  \* indeterminate operations a human has closed
    openRuns,     \* runs whose status is not terminal
    fenced        \* ExecutionDomain.isFenced

memory == <<locked, allocated, queue, scanAt, reserved, capped, cancelled, fenced>>
vars == <<memory, needs, stage, leases, adjudicated, openRuns>>

\* idle: never submitted; queued: in waitQueue; resumed: the wait was resolved;
\* holding: intent persisted, running; orphan: unfinished in the store of a
\* crashed owner; indeterminate: done with an unknown outcome, leases kept;
\* settled: done, resources released; failed: the call threw.
Stage == {"idle", "queued", "resumed", "holding", "orphan", "indeterminate",
          "settled", "failed"}

\* status IN ('intent_registered', 'active', 'stopping')
UnfinishedOps == {o \in Op : stage[o] \in {"holding", "orphan"}}

ActiveOps == allocated \cup UnfinishedOps

\* allocateResources throws no ResourceConflictError
ConflictFree(o) == \A r \in needs[o] : locked[r] \in {NoOp, o}

UnderCap(o) ==
    \/ MaxConcurrentOps = 0
    \/ Cardinality(ActiveOps) < MaxConcurrentOps
    \/ o \in ActiveOps

\* The rest of allocateResources: record the operation and its resources.
Grant(o, res) ==
    /\ allocated' = allocated \cup {o}
    /\ locked' = [r \in Resource |-> IF r \in res THEN o ELSE locked[r]]

QueuedResources == UNION {needs[queue[i]] : i \in DOMAIN queue}

\* splice(i, 1)
RemoveAt(s, i) == [j \in 1 .. Len(s) - 1 |-> IF j < i THEN s[j] ELSE s[j + 1]]

\* findIndex (or indexOf) and splice: the queue without the item of an operation,
\* which is in it at most once.
Without(s, o) ==
    IF \E i \in DOMAIN s : s[i] = o
    THEN RemoveAt(s, CHOOSE i \in DOMAIN s : s[i] = o)
    ELSE s

\* Mutant: the table is cleared and the rows stay.
ReleaseKeepsRows(o) ==
    /\ locked' = [r \in Resource |-> IF locked[r] = o THEN NoOp ELSE locked[r]]
    /\ allocated' = allocated \ {o}
    /\ UNCHANGED leases

\* internalReleaseResources up to the call of processWaitQueue.  A row of the
\* operation frees the resource whoever the table names.
Release(o) ==
    LET freed == {r \in Resource : locked[r] = o \/ <<r, o>> \in leases}
    IN  /\ locked' = [r \in Resource |-> IF r \in freed THEN NoOp ELSE locked[r]]
        /\ allocated' = allocated \ {o}
        /\ leases' = {l \in leases : l[2] # o}

\* processWaitQueue starts, or returns at once.
StartScan ==
    /\ scanAt' = IF queue = <<>> THEN 0 ELSE 1
    /\ reserved' = {}
    /\ capped' = FALSE

Idle == scanAt = 0

-----------------------------------------------------------------------------
Init ==
    /\ locked = [r \in Resource |-> NoOp]
    /\ allocated = {}
    /\ queue = <<>>
    /\ scanAt = 0 /\ reserved = {} /\ capped = FALSE
    /\ needs = [o \in Op |-> {}]
    /\ stage = [o \in Op |-> "idle"]
    /\ cancelled = {}
    /\ leases = {}
    /\ adjudicated = {}
    /\ openRuns = Run
    /\ fenced = FALSE

\* executeProcess up to its first await, with an abort signal that has already
\* fired: the wait returns without allocating.
SubmitAborted(o, res) ==
    /\ Idle /\ stage[o] = "idle" /\ RunOf[o] \in openRuns /\ ~fenced
    /\ needs' = [needs EXCEPT ![o] = res]
    /\ cancelled' = cancelled \cup {o}
    /\ stage' = [stage EXCEPT ![o] = "resumed"]
    /\ UNCHANGED <<locked, allocated, queue, scanAt, reserved, capped, leases,
                   adjudicated, openRuns, fenced>>

\* A new request that meets no queued one and no holder is granted at once.
SubmitGranted(o, res) ==
    /\ Idle /\ stage[o] = "idle" /\ RunOf[o] \in openRuns /\ ~fenced
    /\ res \cap QueuedResources = {}
    /\ \A r \in res : locked[r] \in {NoOp, o}
    /\ UnderCap(o)
    /\ Grant(o, res)
    /\ needs' = [needs EXCEPT ![o] = res]
    /\ stage' = [stage EXCEPT ![o] = "resumed"]
    /\ UNCHANGED <<queue, scanAt, reserved, capped, cancelled, leases,
                   adjudicated, openRuns, fenced>>

\* Otherwise it waits (waitTimeoutMs > 0) or its call throws (waitTimeoutMs = 0).
SubmitBlocked(o, res, waits) ==
    /\ Idle /\ stage[o] = "idle" /\ RunOf[o] \in openRuns /\ ~fenced
    /\ \/ res \cap QueuedResources # {}
       \/ \E r \in res : locked[r] \notin {NoOp, o}
       \/ ~UnderCap(o)
    /\ needs' = [needs EXCEPT ![o] = res]
    /\ stage' = [stage EXCEPT ![o] = IF waits THEN "queued" ELSE "failed"]
    /\ queue' = IF waits THEN Append(queue, o) ELSE queue
    /\ UNCHANGED <<locked, allocated, scanAt, reserved, capped, cancelled, leases,
                   adjudicated, openRuns, fenced>>

\* Mutant: a blocked waiter reserves nothing.
ScanSkipReservesNothing ==
    LET o == queue[scanAt]
    IN  /\ needs[o] \cap reserved # {} \/ capped \/ ~ConflictFree(o) \/ ~UnderCap(o)
        /\ capped' = (capped \/ (needs[o] \cap reserved = {} /\ ConflictFree(o)))
        /\ scanAt' = scanAt + 1
        /\ UNCHANGED <<locked, allocated, queue, stage, reserved>>

\* One iteration of processWaitQueue.  A waiter whose turn has not come
\* reserves its resources against every later one.
ScanSkip ==
    LET o == queue[scanAt]
    IN  /\ \/ needs[o] \cap reserved # {}
           \/ capped
           \/ ~ConflictFree(o)
           \/ ~UnderCap(o)
        /\ reserved' = reserved \cup needs[o]
        /\ capped' = \/ capped
                     \/ /\ needs[o] \cap reserved = {}
                        /\ ConflictFree(o)
        /\ scanAt' = scanAt + 1
        /\ UNCHANGED <<locked, allocated, queue, stage>>

\* allocateResources succeeds: out of the queue, promise resolved.
ScanGrant ==
    LET o == queue[scanAt]
    IN  /\ needs[o] \cap reserved = {} /\ ~capped
        /\ ConflictFree(o) /\ UnderCap(o)
        /\ Grant(o, needs[o])
        /\ queue' = RemoveAt(queue, scanAt)
        /\ stage' = [stage EXCEPT ![o] = "resumed"]
        /\ UNCHANGED <<scanAt, reserved, capped>>

Scan ==
    /\ scanAt \in DOMAIN queue
    /\ ScanSkip \/ ScanGrant
    /\ UNCHANGED <<needs, cancelled, leases, adjudicated, openRuns, fenced>>

ScanEnd ==
    /\ scanAt # 0 /\ scanAt \notin DOMAIN queue
    /\ scanAt' = 0 /\ reserved' = {} /\ capped' = FALSE
    /\ UNCHANGED <<locked, allocated, queue, needs, stage, cancelled, leases,
                   adjudicated, openRuns, fenced>>

\* The job after the await: register the intent and its leases in one
\* transaction.
RegisterIntent(o) ==
    /\ Idle /\ stage[o] = "resumed" /\ o \notin cancelled
    /\ RunOf[o] \in openRuns /\ ~fenced
    /\ stage' = [stage EXCEPT ![o] = "holding"]
    /\ leases' = leases \cup {<<r, o>> : r \in needs[o]}
    /\ UNCHANGED <<memory, needs, adjudicated, openRuns>>

\* The run was closed meanwhile: registration throws and the resources go back.
RegisterRefused(o) ==
    /\ Idle /\ stage[o] = "resumed" /\ o \notin cancelled
    /\ RunOf[o] \notin openRuns /\ ~fenced
    /\ Release(o) /\ StartScan
    /\ stage' = [stage EXCEPT ![o] = "failed"]
    /\ UNCHANGED <<queue, needs, cancelled, adjudicated, openRuns, fenced>>

\* cancelBeforeSpawn without an intent: record the cancelled operation, release.
CancelBeforeIntent(o) ==
    /\ Idle /\ stage[o] = "resumed" /\ o \in cancelled
    /\ RunOf[o] \in openRuns /\ ~fenced
    /\ Release(o) /\ StartScan
    /\ stage' = [stage EXCEPT ![o] = "settled"]
    /\ UNCHANGED <<queue, needs, cancelled, adjudicated, openRuns, fenced>>

\* recordPreIntentCancelledOperation throws when the run is closed, before
\* internalReleaseResources is reached.
CancelRefused(o) ==
    /\ Idle /\ stage[o] = "resumed" /\ o \in cancelled
    /\ RunOf[o] \notin openRuns /\ ~fenced
    /\ stage' = [stage EXCEPT ![o] = "failed"]
    /\ UNCHANGED <<memory, needs, leases, adjudicated, openRuns>>

\* A fenced store refuses every write of the continuation, the release included.
ResumeFenced(o) ==
    /\ Idle /\ stage[o] = "resumed" /\ fenced
    /\ stage' = [stage EXCEPT ![o] = "failed"]
    /\ UNCHANGED <<memory, needs, leases, adjudicated, openRuns>>

\* finalizeOperation with a confirmed result: recordOperationResult and the
\* release.
Settle(o) ==
    /\ Idle /\ stage[o] \in {"holding", "orphan"} /\ ~fenced
    /\ Release(o) /\ StartScan
    /\ stage' = [stage EXCEPT ![o] = "settled"]
    /\ UNCHANGED <<queue, needs, cancelled, adjudicated, openRuns, fenced>>

\* An indeterminate result releases nothing.  finalizeOperation also makes the
\* run indeterminate, which is terminal; recovery leaves the run to its last
\* step, which CloseRun stands for.
Isolate(o) ==
    /\ Idle /\ stage[o] \in {"holding", "orphan"} /\ ~fenced
    /\ stage' = [stage EXCEPT ![o] = "indeterminate"]
    /\ openRuns' = IF stage[o] = "holding" THEN openRuns \ {RunOf[o]} ELSE openRuns
    /\ UNCHANGED <<memory, needs, leases, adjudicated>>

\* adjudicate: the audited exit from indeterminate.
Adjudicate(o) ==
    /\ Idle /\ stage[o] = "indeterminate" /\ ~fenced
    /\ adjudicated' = adjudicated \cup {o}
    /\ Release(o) /\ StartScan
    /\ UNCHANGED <<queue, needs, stage, cancelled, openRuns, fenced>>

\* cancelOperation; cancelWait wakes a queued operation without a grant.
Cancel(o) ==
    /\ Idle /\ stage[o] \in {"queued", "resumed", "holding"} /\ o \notin cancelled
    /\ cancelled' = cancelled \cup {o}
    /\ queue' = Without(queue, o)
    /\ stage' = [stage EXCEPT ![o] = IF @ = "queued" THEN "resumed" ELSE @]
    /\ UNCHANGED <<locked, allocated, scanAt, reserved, capped, needs, leases,
                   adjudicated, openRuns, fenced>>

\* Mutant: the timer of a fenced domain does nothing.
WaitTimeoutUnlessFenced(o) ==
    /\ Idle /\ stage[o] = "queued" /\ ~fenced
    /\ queue' = Without(queue, o)
    /\ stage' = [stage EXCEPT ![o] = "failed"]
    /\ UNCHANGED <<locked, allocated, scanAt, reserved, capped, needs, cancelled,
                   leases, adjudicated, openRuns, fenced>>

\* The waiter's timer: the item leaves the queue and the call throws.  Nobody
\* scans the queue on its behalf.
WaitTimeout(o) ==
    /\ Idle /\ stage[o] = "queued"
    /\ queue' = Without(queue, o)
    /\ stage' = [stage EXCEPT ![o] = "failed"]
    /\ UNCHANGED <<locked, allocated, scanAt, reserved, capped, needs, cancelled,
                   leases, adjudicated, openRuns, fenced>>

\* The host finalizes a run (reportRunCancelled, reportRunFailed) whatever its
\* operations are doing.
CloseRun(u) ==
    /\ Idle /\ u \in openRuns /\ ~fenced
    /\ openRuns' = openRuns \ {u}
    /\ UNCHANGED <<memory, needs, stage, leases, adjudicated>>

\* A failed heartbeat fences the domain.
Fence ==
    /\ Idle /\ ~fenced
    /\ fenced' = TRUE
    /\ UNCHANGED <<locked, allocated, queue, scanAt, reserved, capped, cancelled,
                   needs, stage, leases, adjudicated, openRuns>>

\* Mutant: only the unfinished operations are read back.
RebuildUnfinishedOnly(rows, unfinished) ==
    /\ locked' = [r \in Resource |->
           IF \E o \in unfinished : r \in needs[o]
           THEN CHOOSE o \in unfinished : r \in needs[o]
           ELSE NoOp]
    /\ allocated' = unfinished

\* rebuildIsolationFromStore: the leases first, then what the unfinished
\* operations declare.
Rebuild(rows, unfinished) ==
    /\ locked' = [r \in Resource |->
           IF \E o \in unfinished : r \in needs[o]
           THEN CHOOSE o \in unfinished : r \in needs[o]
           ELSE IF \E l \in rows : l[1] = r
                THEN (CHOOSE l \in rows : l[1] = r)[2]
                ELSE NoOp]
    /\ allocated' = unfinished

\* Callers that only waited are gone; what the store has is unfinished or done.
StageAfterCrash ==
    [o \in Op |-> CASE stage[o] = "holding" -> "orphan"
                    [] stage[o] \in {"queued", "resumed"} -> "failed"
                    [] OTHER -> stage[o]]

\* The owner dies at any instant, even inside the scan, and a new owner
\* rebuilds the isolation table before it serves anything.
Restart ==
    /\ stage' = StageAfterCrash
    /\ Rebuild(leases, UnfinishedOps)
    /\ queue' = <<>> /\ scanAt' = 0 /\ reserved' = {} /\ capped' = FALSE
    /\ cancelled' = {} /\ fenced' = FALSE
    /\ UNCHANGED <<needs, leases, adjudicated, openRuns>>

\* The owner dies inside adjudicate, after the verdict is recorded: the rows are
\* deleted one by one, so any of them may be left behind.
AdjudicateCrash(o, kept) ==
    /\ Idle /\ stage[o] = "indeterminate" /\ ~fenced
    /\ LET rows == {l \in leases : l[2] = o => l[1] \in kept}
       IN  leases' = rows /\ Rebuild(rows, UnfinishedOps)
    /\ adjudicated' = adjudicated \cup {o}
    /\ stage' = StageAfterCrash
    /\ queue' = <<>> /\ scanAt' = 0 /\ reserved' = {} /\ capped' = FALSE
    /\ cancelled' = {} /\ fenced' = FALSE
    /\ UNCHANGED <<needs, openRuns>>

Submit(o) == \E res \in SUBSET Resource :
    \/ SubmitAborted(o, res)
    \/ SubmitGranted(o, res)
    \/ \E waits \in BOOLEAN : SubmitBlocked(o, res, waits)

Resume(o) ==
    \/ RegisterIntent(o)
    \/ RegisterRefused(o)
    \/ CancelBeforeIntent(o)
    \/ CancelRefused(o)
    \/ ResumeFenced(o)

Next ==
    \/ \E o \in Op : Submit(o) \/ Resume(o) \/ Settle(o) \/ Isolate(o)
                     \/ Adjudicate(o) \/ Cancel(o) \/ WaitTimeout(o)
    \/ Scan
    \/ ScanEnd
    \/ \E u \in Run : CloseRun(u)
    \/ Fence
    \/ Restart
    \/ \E o \in Op, kept \in SUBSET Resource : AdjudicateCrash(o, kept)

Spec == Init /\ [][Next]_vars

\* A job runs to completion; the event loop gets to every pending job and to
\* every due timer however busy it is, hence strong fairness for these.
Fairness ==
    /\ WF_vars(Scan) /\ WF_vars(ScanEnd)
    /\ \A o \in Op : SF_vars(Resume(o)) /\ SF_vars(WaitTimeout(o))

LiveSpec == Spec /\ Fairness

-----------------------------------------------------------------------------
\* Types; the index of processWaitQueue is never more than one past the queue it is
\* shortening (processWaitQueue).
TypeOK ==
    /\ locked \in [Resource -> Op \cup {NoOp}]
    /\ allocated \in SUBSET Op
    /\ queue \in Seq(Op)
    /\ scanAt \in 0 .. Len(queue) + 1 /\ reserved \in SUBSET Resource /\ capped \in BOOLEAN
    /\ needs \in [Op -> SUBSET Resource]
    /\ stage \in [Op -> Stage]
    /\ cancelled \in SUBSET Op
    /\ leases \in SUBSET (Resource \X Op)
    /\ adjudicated \in SUBSET Op
    /\ openRuns \in SUBSET Run
    /\ fenced \in BOOLEAN

\* An operation that may still have effects keeps every resource it declared.
Unsettled(o) ==
    \/ stage[o] \in {"holding", "orphan"}
    \/ stage[o] = "indeterminate" /\ o \notin adjudicated

\* Isolation survives crashes and rebuilds: while an operation is unfinished, or
\* indeterminate and not adjudicated, the table names it as the holder of all
\* its resources and the store keeps all its leases (internalReleaseResources,
\* recordOperationResult, rebuildIsolationFromStore).
IsolationHeld ==
    \A o \in Op : Unsettled(o) =>
        \A r \in needs[o] : locked[r] = o /\ <<r, o>> \in leases

\* A persisted lease is never contradicted by the table, so a release that trusts
\* a row (persisted.has(res)) cannot free another operation's resource.
LeaseNamesHolder == \A l \in leases : locked[l[1]] = l[2]

\* allocateResources, the queue scan and the rebuild never admit more
\* operations than domain:max_concurrent_ops.
CapRespected == MaxConcurrentOps # 0 => Cardinality(ActiveOps) <= MaxConcurrentOps

\* Waiter i cannot run now: a holder, an earlier waiter or the cap is in the way.
Blocked(i) ==
    \/ \E r \in needs[queue[i]] : locked[r] \notin {NoOp, queue[i]}
    \/ \E j \in 1 .. i - 1 : needs[queue[i]] \cap needs[queue[j]] # {}
    \/ ~UnderCap(queue[i])

\* One pass of processWaitQueue is enough: what it has passed over stays blocked
\* until the pass ends, so no admissible waiter is left behind by a release.
PassLeavesNoneAdmissible ==
    scanAt # 0 => \A i \in DOMAIN queue : i < scanAt => Blocked(i)

\* A resource is never granted past an earlier waiter for it, neither to a new
\* request nor to a later waiter (allocateResourcesWithWait, processWaitQueue).
NoOvertaking ==
    [][\A r \in Resource, o \in Op :
          locked[r] # o /\ locked'[r] = o =>
            \A i \in DOMAIN queue : r \in needs[queue[i]] =>
                \E j \in 1 .. i : queue[j] = o]_vars

\* Every wait is answered (granted, cancelled or timed out), even on a fenced
\* domain, whose queue is never scanned again.
WaitIsAnswered == \A o \in Op : (stage[o] = "queued") ~> (stage[o] # "queued")

\* A call that has returned leaves no resource locked in memory, unless its
\* outcome is unknown.
ReturnedHoldsNothing ==
    ~fenced => \A r \in Resource : locked[r] # NoOp =>
        stage[locked[r]] \in {"resumed", "holding", "orphan", "indeterminate"}

\* The cap is never exceeded, a pass of processWaitQueue leaves no waiter behind
\* that could be admitted, and no waiter is overtaken by one it conflicts with.
AdmissionIsFair ==
    /\ []TypeOK
    /\ []CapRespected
    /\ []PassLeavesNoneAdmissible
    /\ NoOvertaking
=============================================================================
