# Xioflow in TLA+

Xioflow is a local execution kernel: a host hands it commands that run as
managed processes or services, and it promises that every operation has one
durable result, that exclusive resources stay locked while a process may still
have effects, and that at most one kernel process writes to an execution domain.
This directory models the parts of the kernel that carry these promises,
model-checks them with TLC on small instances and proves the central ones with
TLAPS for instances of every size.

Paths below are relative to the repository; line numbers are those of
`PROJECT.json`, which maps each definition to the code it stands for.

## 1. Inventory

| Component | State it keeps | Operations | What makes it correct |
|---|---|---|---|
| Ownership of a domain (`src/domain.ts`, `src/store/sqlite.ts`) | lock file, `owners` row with epoch and expiry, `currentEpoch` of each process | acquire, heartbeat, fenced transactions, close | one process at a time can commit; a new owner sees everything the former left; nothing left behind bars the domain |
| Resource arbitration (`src/domain.ts`) | `inMemoryLockedResources`, `inMemoryAllocatedOps`, `waitQueue`, `resource_leases` | allocate with wait, timeout, cancel, release, scan of the queue, rebuild | isolation through crashes, FIFO without overtaking, the cap, no lost or unanswered wait |
| Process operations (`src/supervisor/process-run.ts`, `process-monitor.ts`, `supervisor.ts`, `finalize.ts`, `replay.ts`) | operation row, its result, leases; in-flight `opState`, stop promises | intent, spawn, activate, race exit/timeout/stop, drain, settle tree, finalize, cancel | started once, one result, the result is true, no premature release, calls and cancels are answered |
| Recovery (`src/recovery/engine.ts`) | none of its own | recover, per kind of unfinished row; convergence of runs | adjudicates every row, isolates what it cannot verify |
| Service supervision (`src/supervisor/service.ts`) | `ServiceRuntimeState`: status, attempts, handle, restart timer, three promises; a row per instance; a lock for the service | start, readiness, exit, restart, stop, failed start | lock outlives every unsettled instance, a stop ends the restarts, stop and ready are answered |
| Workspace transactions (`src/workspace/`) | `TX_` events of the journal, forks, read and write sets, causal graph, index | begin, work, inspect, commit by files or observations, redo, abort | commits are atomic through crashes and made over reads that still hold |
| Snapshots and rollback (`src/supervisor/rollback.ts`, `snapshot-ops.ts`, `src/snapshot/`) | snapshot rows, private refs, manifests | capture, prune, restore in steps, verify, recover | what the result claims is true; ignored files survive; nobody works in a half restored root |
| Capabilities (`src/capability/`, `src/domain.ts`) | capability rows in a tree | issue, attenuate, revoke, admit | authority only narrows; revocation, expiry and policy reach descendants |
| Agent runtime (`src/agents/`) | journal of agents and commands; quanta, recoveries, barriers in memory | schedule, validate, step, interrupt, restore, shut down | budgets hold under concurrency; a broken task is stopped as a whole; a charged step is not silently repeated |
| Instruction set (`src/isa/`) | bindings of opIds, pipeline state, locks, commit queue | validate, plan, compile, encode, execute, retry | an operation takes effect once, success is durable and complete, every submission ends |
| Drivers and the native helper (`src/driver/`, `native/`) | process tables, sessions, the helper's tree | spawn, gate, terminate, settle, scan | what is said of the tree is true; nothing outlives the host |
| Output drain, artifacts (`src/supervisor/drainer.ts`, `src/artifacts.ts`, `src/domain.ts`) | head, ring, spill file; rows of artifacts | drain, spill, pause, finalize, prune | a result never names output that is not there; the pipe is never stuck |
| Gateways (`src/gateway/`) | tool record, cache, tape and trace; shadow forks | answer, cache, record, watch, fork, race | an interrupted tool is accounted for once; the cache is fresh; races merge serially |
| Hosts, transports, configuration, confinement, store schema | little or none | translate requests | not part of the kernel's promises |

The components interact through calls within one event loop (supervisor, domain,
store), through one SQLite database shared by processes, through the lock file,
and through the operating system's processes. `ExecutionDomain` owns the isolation
table; supervisors ask it for resources, register intents in the store, ask the
driver to spawn and stop, and write one result per operation. A crash leaves the
database, the lock file and living processes; the next owner bumps the epoch,
rebuilds the table from the store and runs `RecoveryEngine.recover`.

What is hard here is not any single function but what happens between two
`await`s, two system calls or two launches: a cancel in each phase of a start, a
takeover while `spawn` is awaited, a crash between the intent and the identity, a
commit copied by half, a capability revoked while its request is queued, a pid
recycled while `/proc` is being read, a pipe paused when its disk fails.
`PROJECT.json` lists these hazards at their lines with the properties about them.

## 2. Modules

| Module | Models | Checked through | Proofs |
|---|---|---|---|
| `ResourceArbiter` | isolation table, wait queue, leases, rebuild | `MCResourceArbiter` | `ResourceArbiterProofs` |
| `OperationLifecycle` | one process operation: start, supervision, stop, result, recovery | `MCOperationLifecycle` | `OperationLifecycleProofs` |
| `DomainOwnership` | lock file, owners row, epochs, fenced writes | `MCDomainOwnership` | `DomainOwnershipProofs` |
| `ServiceSupervisor` | one service and its instances | `MCServiceSupervisor` | `ServiceSupervisorProofs` |
| `AtomicWorkspace` | what workspace transactions promise | refined by the next | `WorkspaceTransactionsProofs` |
| `WorkspaceTransactions` | forks, evidence, validation, journaled copy, redo | `MCWorkspaceTransactions` | `WorkspaceTransactionsProofs` |
| `Snapshots` | capture, prune, rollback, verification, claim | `MCSnapshots` | `SnapshotsProofs` |
| `AgentRuntime` | the cooperative scheduler of agents | `MCAgentRuntime` | `AgentRuntimeProofs` |
| `IsaPipeline` | pipeline scheduler, its coordinator, the kernel adapter | `MCIsaPipeline` | `IsaPipelineProofs` |
| `ReaperTree` | the native helper on Linux and the driver's session | `MCReaperTree` | `OperationLifecycleProofs` |
| `Gateway` | `xio wrap`: proxy, cache, tool record, watchdog, tape, fork | `MCGateway` | `WorkspaceTransactionsProofs` |
| `Race` | agents in shadow worktrees, merged or raced | `MCGateway` | `WorkspaceTransactionsProofs` |
| `OutputDrain` | drainer, spill file, result, artifact row, pruning | `MCAlgorithms` | `OperationLifecycleProofs` |
| `WireProtocols`, `Capabilities`, `IsaPrograms`, `IsaCodec`, `CausalGraph`, `ProcessScans`, `WorkspaceRecovery` | pure functions | `Algorithms`, `MCAlgorithms` | none (several are recursive) |

Each state machine has the state of one component and abstracts its neighbours
by what they do to it: `fenced` in the arbiter, the operation and the service
stands for a takeover that `DomainOwnership` models in full; `lease` in the
operation, the service, the snapshots and the workspace is the row that
`ResourceArbiter` models in full; `Race` uses a commit as one step, which is what
`WorkspaceTransactions` is shown to implement; the driver of
`OperationLifecycle` answers truthfully or not at all, which is what `ReaperTree`
and `ProcessScans` are about.

**ResourceArbiter.** `locked`, `allocated`, `queue` are the three fields of
`ExecutionDomain`; `leases` are the `resource_leases` rows. `processWaitQueue` is a
loop inside one job: each iteration is an action (`ScanSkip`, `ScanGrant`) and no
other kernel step is enabled while it runs. The stage `resumed` is the gap between
the resolution of a wait and its continuation, where a run may be closed, the
operation cancelled or the domain fenced. `internalReleaseResources` deletes rows
one at a time outside a transaction, so `Restart` may happen with part of them
gone. Holders in this module are process operations, whose rows and table entries
have the same name; a service locks under `service:X` while its rows are named
`X#i`, which is why `LeaseNamesHolder` is not claimed for services.

**OperationLifecycle.** `pc` is where `runProcess` is suspended; one action is
the code from one `await` to the next. The operating system moves on its own:
the root process exits, forks, descendants leave its group, the group id is
reused, the host reboots. The driver either tells the truth or does not know; the
constants `Gated` and `Contained` are its capabilities. `Crash` drops the memory;
`Fence` leaves the old owner running beside the one that recovers.

**DomainOwnership.** Each action is one system call on the lock file or one
SQLite transaction of one process, and `Expire` is the passing of the lease.
`superseded` is a history variable: who has lost the row to another process.

**ServiceSupervisor.** `spawnInstance`, `handleInstanceExit` and each call of
`stopService` are activities that interleave at their awaits (`starter`,
`watcher`, `stopper`). `ready`, `exit`, `stopped` are the promises of
`ServiceRuntimeState`. `gated` is chosen once, so one run covers drivers with and
without a gate. The readiness timer calls `stopService` and is one of the stoppers.

**WorkspaceTransactions and AtomicWorkspace.** The content of a path is who wrote
it last, so that a lost or invented write shows. `journal` is the state that a
transaction's `TX_` events stand for; `atime`, `reads` and `after` are the evidence
that validation compares. Evidence is an access time that is not older than the
modification time, so writing a file hides that it was read, and making or removing an
entry of the fork hides that its directory was listed; `blind` is what was read without
evidence. The copy of the write set is one action per file, a
crash may come between any two; `Crash` includes the rebuild of the next owner,
which isolates target and source of a commit that is journaled and not finished.
The refinement lets a commit count as done from `TX_COMMITTING` on: the abstract
workspace is the main one with the rest of the journaled write set laid over it, so
that the journal event is the one step in which `AtomicWorkspace` commits, and
copying, failing, crashing and redoing change nothing it can see. A step of the code
is one abstract step or none, which is what the proof shows action by action.

**Snapshots.** Restoring is a sequence of steps (rule files, removals, check-out)
over a tree whose ignore rules are themselves files of it; operations write beside
it, the unconfined ones anywhere. `claim` is the recorded result beside what is true
at that moment: `same` (what the snapshot holds is back), `whole` (so is everything
else in the roots), `told` (or it was proved unchanged as far as the manifest and the
fingerprint can see), `quiet` (nothing outside of the roots was written). `torn` marks
a snapshot whose files changed between its manifest and its tree.

**AgentRuntime.** A quantum is picked, validated by the host, charged, run,
drained of its commands and recorded; every await ends an action. The journal is
what survives a crash. The chain of parents of an agent is the least set that holds
it and is closed under `parentId`; that every chain ends (`ChainsEnd`) is what
`create()` guarantees, which accepts only a parent that is there.

**IsaPipeline.** `kernel` chooses between `executeKernelPipeline`, whose
instructions are durable kernel operations, and `executePipeline` with the host's
executor. Aborts, a revoked capability, a moved workspace link, a crash and a
second submission of a program are inputs.

**ReaperTree.** The kernel's process table moves at each step while `collect_tree`
reads it one entry at a time; pids are recycled by descendants and by strangers.
Two FIFO lines carry commands and events; host and helper die at any step.

**Gateway and Race.** A handler runs in the steps its awaits leave; the harness gives
requests and tools up and retries; the watchdog outlives the host. In a race the
candidates' trees, the gate's verdicts by tree and outside edits decide what is merged.
A candidate has two trees: `tree` is the fork as it was inspected and judged, `fork` is
what its commit copies, with what the gate wrote meanwhile; `put` is what the commit
writes, which after a replay of observations is the inspected write set. An exception
ends the call at any point, with the outcomes of the `finally` blocks as a choice: a
commit that fails midway leaves part of its writes in the workspace (one of them perhaps
`"torn"`), its transaction `committing` and its fork removed. Both are checked in one
run: a behaviour of `MCGateway` is one of the gateway (no race) or of a race (no
session), and they share no variable. `owed` and `rewritten` are history variables:
whose account the next launch owes, and whether a command of this launch has written the
record. A command that the harness runs on its own before its first request overwrites
the record of an earlier crash, so that the promise is one to the next launch that takes
a request up (section 6).

**OutputDrain.** A byte is its position in the stream, so that what is kept,
written or hashed is a number or a sequence of positions. It shares a run with
`Algorithms` in the same way (`MCAlgorithms`).

**Algorithms.** A behaviour takes one input from a bounded set and computes one output;
the invariants compare it with a reference definition. The functions themselves are in
the modules of the last row of the table. A text is a sequence of code points that is
written as UTF-8 and read back by a decoder that drops a byte order mark; a chain of
capabilities comes with the operations that run under each of its ids; a process table
changes between two looks, and a pid that became free may belong to a program with
children, to a leader of the same group or to another run of the same host.

Operators whose comment begins with "Mutant:" are not part of a specification.
Each is the form that an operation would have with a plausible bug, and is there to
show that a property notices it.

## 3. Runs

| Run | Instance | Shows |
|---|---|---|
| `arbiter` | 4 operations of a run, 2 resources, cap 2, operations and resources interchangeable | `IsolationHeld`, `LeaseNamesHolder`; `AdmissionIsFair`: the cap, one pass leaves no admissible waiter, no overtaking |
| `arbiter_live` | 2 operations of 2 runs, 1 resource, cap 1 | `WaitIsAnswered` |
| `lifecycle` | a gated driver with process groups and an ungated one with containment, 2 crashes | `SettledIsTrue`, `NoPrematureRelease`; `ResultIsFinal`: one start, one result, unconfirmed stops durable; `EveryCallEnds`: calls return, cancels are answered, recovery completes unless a row was set back |
| `ownership` | 2 processes, 4 epochs | `OneCurrentOwner`, `FreshOwnerKnowsAll`, `LoneAcquirerSucceeds` |
| `service` | 1 restart, 2 callers of stop, the probe, any crash or takeover | `InstancesIsolated`: living instances isolated, the lock outlives them, restart over a settled predecessor only; `StopIsFinal`: no restart after stop, stop and ready answered |
| `workspace` | 2 transactions, 2 paths, 1 direct change, 1 crash or failing copy | `CopyIsIsolated`; `ReadsStillHold`: what a file-validated commit read, and has evidence of, is unchanged; `CommitIsAtomic`: the whole implements `AtomicWorkspace` |
| `snapshots` | 4 files in 2 roots, 2 edits, 1 rollback, 1 fault | `ClaimsAreTrue`, `NoWorkInHalfRestored`; `NothingKeptIsLost`: ignored files kept, a row has its ref |
| `agents` | a lead and a helper, 3 calls, 1 crash | `BudgetsHold`; `TaskEndsTogether`: broken tasks stopped, completion covers children; `InterruptionIsFenced`: barriers cover work, no silent retry; `StopsEnd`: interrupt and shutdown end |
| `isa` | 3 submissions (one a retry, one claiming a foreign opId), 2 concurrent, 2 faults, both executors | `EffectsAreTrue`: one effect in order, success durable and complete; `AdmissionIsFresh`: revocation and bound root; `LocksAreSound`: exclusion, no leak; `SubmissionsEnd` |
| `reaper` | 3 pids, 1 fork, 1 stranger, 1 command, 1 fault | `AnswersAreTrue` of the tree and its root; `OnlyOurTree`: no recycled pid is hit, unreleased never runs; `TreeEnds`: nothing outlives the host, exits are told |
| `gateway` | 4 requests, 2 answers, 2 commands, 2 troubles, 2 launches; races of 2 candidates on 2 paths, one of them new, with 1 outside edit, 1 file written by a gate and an exception anywhere | `CrashedToolAccounted`; `ReplayIsTrue`: the cache is fresh, a fork asks nothing; `RaceIsSerial`: merges are serial, gates guard what is written, also by half a commit, the winner takes all, everything is closed |
| `algorithms` | all small inputs of each function; outputs of up to 4 chunks at limits 80 and 50 bytes, 2 faults | `WireIsFaithful`, `NeverWidens`, `ProgramsAreSound`, `ScansAreEvident`, `RecoveryIsSound`; `OutputIsTrue` and `ArtifactRowIsTrue` of the drain |

A property that is a conjunction has its parts as definitions of their own in the
module, each with its comment; the type invariant of a module is one of the parts
(that of `DomainOwnership` is proved and not run).

**Bounds.** Four operations are what a scan of the queue takes to go wrong: one that
holds, one that is blocked by it, one behind that one, and one whose release starts the
scan; two resources give disjoint, equal and overlapping demands, and the cap of two
binds below the number of operations. Two crashes let recovery itself be interrupted and
repeated. Four epochs let each of two processes lose the domain and take it back; more
processes are covered by the proofs, which have no bound. One restart distinguishes the
first instance (which is probed) from a later one (which is not) and reaches the restart
limit; two callers and the probe let a stop join, race and follow another one. Two
transactions, one of them with two steps of work, give a read before, between and after
the other's commit; a file that exists and one that does not give creation, change and
removal. In `snapshots` one root has a rule file and a file that only the rule ignores,
the other an operation that is not confined. A parent and a child are what scopes,
barriers and completion relate. In `isa` the retry meets the first submission in every
phase, and the third one competes for its opId. Three pids let a forked process, a
stranger and the root share two of them, so that each is recycled; the rounds of SIGKILL
exceed twice the forks, as the two seconds of the code exceed what a tree can fork under
fire. Two launches are one crash and what follows from it. In the drain, 80 bytes is the
smallest limit with a marker, chunks of 8, 13 and 40 bytes cut characters at every
offset, and two of them may pass the limit of 50 pending bytes. In a race, a path that
exists and one that does not give changed reads and changed listings, and one write of a
gate meets a path that the agent wrote, read or left alone. The codec is checked on
integers around each change of width, on texts of up to 257 bytes with characters of
each length, half surrogate pairs and byte order marks, and on collections of up to 25
items; `MaxSpread` (256) and `MAX_CBOR_COLLECTION_LENGTH` (24) are small stand-ins for
the arguments that one call of the engine may have and for the code's limit, so that
both are passed. Every bound is a named constant; `MaxRestarts`, `MaxConcurrentOps`, the
budgets of `AgentRuntime` and the limits of the drain are the code's own.

**Deadlock** is checked for the arbiter and the reaper, which can always go on. In
the other modules everything ends: an operation is done, processes are dead or
closed, a service has stopped, inputs are used up.

**Fairness.** *Arbiter*: a job runs to its end (weak fairness of the scan), and
the event loop reaches every resolved promise and due timer however busy it is
(strong fairness of `Resume` and `WaitTimeout`, because other jobs disable them
again and again). *Operation*: the awaited driver calls and the waits of
`superviseActive` are bounded in time, and a request has a timeout; nothing forces
a process to exit, a host to cancel or an owner to crash. *Ownership*: a refused
process calls acquire again, heartbeat timers fire, close runs to its end; no lease
has to expire. *Service*: timers fire and driver calls return; no process has to
exit, no line has to match, no caller has to stop. *Agents*: the host's validate,
prepare and step callbacks return and promises settle; nobody has to interrupt or
shut down. *Instruction set*: promises of the kernel and the host settle and the
event loop runs what is ready; no fault has to happen. *Reaper*: helper, event loop
and kernel go on, a killed process dies, and a deadline that is looked at again and
again is reached (strong, because each look that comes too early disables it).
`workspace`, `snapshots`, `gateway` and `algorithms` check safety only.

Three things the liveness properties do not say. `WaitIsAnswered` relies on the wait timeout
and not on a wake-up. `EveryCallEnds` assumes a request with a timeout: without one, a
process that ignores its stop keeps the call; and it says nothing of a row that a cancel
set back after its result, at which every later recovery throws (section 5). `StopIsFinal`
promises an answer by an owner that is in charge; see section 6 for a fenced one.

## 4. Proofs

Every theorem is proved for all values of the constants that satisfy the module's
named assumptions (`ArbiterAssumption`, `LifecycleAssumption`, `OwnershipAssumption`,
`ServiceAssumption`, `WorkspaceAssumption`, `SnapshotsAssumption`, `AgentAssumption`
and `ChainsEnd`, `IsaAssumption` and `ProgramAssumption`, `ReaperAssumption`,
`RaceAssumption`, `GatewayAssumption`, `DrainAssumption`): any finite set of
operations, any resources and cap; any driver capabilities and number of crashes; any
processes and takeovers; any restart limit; any transactions, paths, files, rule files
and roots; any tree of agents and budgets; any programs, submissions and faults; any
pids, forks and strangers; any candidates; any numbers of requests, commands and
launches; any limits and chunks of the drain. Each follows the same argument:
`Init => IInv`, `IInv /\ [Next]_vars => IInv'`, and the property follows from `IInv`,
or for an action property from `IInv` and the step. TLC has checked each `IInv` as an
invariant of its instance.

* **`ResourceArbiterProofs`** — `TypeCorrect`, `Isolation`, `LeasesAgree`,
  `AdmissionFair`. `IInv` adds `GrantInv` (an operation whose wait was resolved holds
  what it asked for), `LeaseInv` (rows exist only for operations that registered them)
  and the table and queue types to `LeaseNamesHolder`. Isolation alone is not
  inductive: after a restart the table comes from the rows, so the rows must be
  known to be complete, and a release frees what the rows name, so they must not
  name another operation's resource. For `AdmissionIsFair`, `FairInv` adds that the
  queue holds each waiter once (`QueueInv`), that who waits is not allocated and who was
  granted is (`AllocInv`), and what a pass carries along (`ScanInv`): the reserved
  resources are exactly those of the waiters it has passed over, and the cap is reached
  when it says so. That nobody admissible is left follows, because a pass only locks.
* **`OperationLifecycleProofs`** — `TypeCorrect`, `LeasesOutliveProcess`,
  `ResultsAreTrue`, `ResultsAreFinal`. `NoPrematureRelease` and `SettledIsTrue` need
  each other: a lease goes with a settled result, which must therefore be true.
  `StartInv` says that before the identity is written a gated process cannot have run,
  `OwnerInv` that an owner that can still start the process has an unfinished intent or
  is fenced, `SuperviseInv` what the supervisor knows about the tree at each place
  where it writes a result. `OnceInv` adds that a process exists
  once it was started, that an abort has a fenced store, and that the running stop
  pipeline of an owner in charge finds no settled result.
* **`DomainOwnershipProofs`** — `TypeCorrect`, `NoSplitBrain`,
  `RebuildIsComplete`. `EpochInv` says that no process is ahead of the owners row
  and only the process the row names has its epoch; `LossInv` that whoever served
  and is not named any more is superseded. The lock file does not appear in the
  argument: the epoch alone excludes a second writer.
* **`ServiceSupervisorProofs`** — `TypeCorrect`, `Isolated`, `StopEndsRestarts`. A row,
  its result, its leases and its process agree (`RowInv`); instances are used one after
  the other (`IndexInv`), which the restart counter tracks also in the back-off
  (`AttemptInv`); `TaskInv` is what each activity may rely on when it goes on after an
  await. The release of the lock is safe because by then every earlier instance is
  settled, which only `IndexInv` knows.
* **`WorkspaceTransactionsProofs`** — `TypeCorrect`, `CopyIsolated`, `ReadsHold`,
  `CommitsAreAtomic`. `ActInv` ties the running commit to its leases and its journal,
  `PlanInv` says that what apply has passed is in the main workspace, `EvidenceInv`
  that a read which is not blind left evidence that the validation has seen, of a
directory too. The
  refinement goes action by action under the mapping of section 2: `Commit` of the
  abstract workspace is the journal event, everything else is a stutter, a direct
  change or the begin or end of a transaction.
* **`SnapshotsProofs`** — `Invariant`, `KeptIsKept`, `HalfRestoredIsQuiet`,
  `ClaimsTrue`. `Sound` is what capture makes of the files, `Fresh` that what nobody
  touched since the manifest is as it was; the row and the rollback's copy of it keep
  both (`CaptureInv`, `RowInv`). `StepInv`, `RulesInv` follow the restore: a rule file
  that was synced is the snapshot's, so what is to be removed is not ignored by it.
  `HolderInv` and `SpillInv` give every write since the snapshot an operation with the
  lease of its root, and `MatchInv` keeps the verified tree until the claim.
* **`AgentRuntimeProofs`** — `Invariant`, `BudgetsKept`, `TasksEndTogether`,
  `InterruptionFenced`. `PlaceInv` says that the journal and the maps in memory agree on
  who is at work, `FenceInv` that a quantum of a broken task was told, or is queued
  behind an interrupted state, or its task was broken by a recovery that was given up
  and no turn has come since; `BarrierInv` that behind a barrier nobody is ready and
  who is at work was told. A broken task is stopped because `Reconciled` fences every
  task that it finds broken and breaks none itself. The budgets need that the sum of
  the steps grows by one with the step that is charged: `TotalAdd` is proved about the
  fold of `MapThenSumSet`, by the least number of elements for which it would fail
  (`LeastNat`, from the well-foundedness of the naturals), since the induction
  theorems of the library cannot be used here. The chain of parents needs no
  induction: it is the least closed set.

* **`IsaPipelineProofs`** — `EffectsHold`, `LocksHold`, `AdmissionHolds`, `JournalHolds`
  (that a binding and a result are final, `JournalIsFinal`, rests on the theorem alone
  and is no property of the run). `TurnInv` is what a turn of the scheduler's loop
  changes: places and results, joins, the table of locks (who is at work holds its
  resources, and no two holders share one), the calls in flight (one for each
  instruction), and that only what is ready has started. `CommitInv` says that the queue
  of commits holds every writer at work once and that who is past it is its head;
  `KernelInv` that an operation belongs to the execution that began it and that its row,
  its binding and the count of its effects agree. What the folds of the scheduler
  compute is stated by `DrainIs`, `AdmitIs` and `TurnIs` and proved through the least
  index for which it would fail, as for `TotalAdd`.
* **The helper, in `OperationLifecycleProofs`** — `AnswersHold`, `OnlyOurTreeHolds`.
  `NoChildNoTree` carries both: a process whose parent dies becomes the helper's child,
  so when `waitid` finds no child nothing of the tree is left, whatever the scan of
  `/proc` saw. A pid is signalled only while it is a child or a descendant of one
  (`FamilyInv`, `ScanInv`), and a child's pid is not recycled before it is reaped
  (`BirthInv`, `GoneInv`).
* **The drain, in `OperationLifecycleProofs`** — `OutputHolds`, `ArtifactRowHolds`.
  `HeadInv` and `RingInv` say that what is kept is the beginning and the end of what was
  seen, cut at characters and within `maxBytes`; `WriterInv` that file, chunk in hand
  and queue together are all of the stream and that `pendingWriteBytes` is the sum of
  what waits; `PauseInv` that a paused stream has a job queued, whose end resumes it, and
  that at most one chunk more than the mark waits; `FileInv` and `DoneInv` that the file
  of an owner in charge is there, has a row and is hashed before a result can name it.
* **The session and the race, in `WorkspaceTransactionsProofs`** — `AccountsHold`,
  `ReplayHolds`, `RaceHolds`. `RecordInv` says that a command which is sure of its
  record has it; `OwedInv` that what is owed is in the record until a launch is up, and
  then in that launch's memory until a request is admitted; `CacheInv` that each entry
  has an answer of the upstream behind it whose file its stamp still means; `TapeInv`
  that a fork holds the steps before its own. A hit is fresh because the three ways to
  find an entry agree on the calls (`LookupIs`). In a race, `RaceTypes` says that
  nothing is torn before an exception, `OrderInv` that candidates are merged in their order
  and by the reconciliation only, with nothing stopped midway while it goes on; `GateGuards`
  is inductive with them and tells where each difference from the snapshot comes from,
  `WinnerInv` and `ClosedInv` what holds of those that have been reconciled so far. A commit
  overwrites no earlier one because what it puts is unchanged since the snapshot, or is a
  path where its own gate has undone the agent's write (`PutIsFree`), and it leaves out
  nothing that its agent wrote (`PutIsAll`); `PlaceSerial` gives both for a commit that
  ends and for one that stops anywhere.

Two properties were wrong as first stated, held on the instance of their run, and were
corrected because their proofs failed. `DurableOrder` of the instruction set looked at
the root now and not at the one under which an instruction had begun. The account of
`CrashedToolAccounted` was expected also after a launch whose own command had overwritten
the record, which TLC refutes with one launch and one trouble more.

Only model-checked: all liveness (`WaitIsAnswered`, `EveryCallEnds`,
`LoneAcquirerSucceeds`, the rest of `StopIsFinal`, `StopsEnd`, `SubmissionsEnd`,
`TreeEnds`), which is out of reach of the prover; and the pure functions of
`Algorithms`, which recurse or fold over data, where a proof for all inputs needs
induction.

## 5. Where the code disagrees with what it says

The following are stated in the modules, and TLC refutes each of them on a small
instance of its module (those of `Algorithms` on an input of its run). Comments are quoted
in translation. The definitions stay beside the properties that hold; no run includes them.

* `ResourceArbiter.ReturnedHoldsNothing` — a grant is cancelled before its
  continuation runs and its run was closed meanwhile: the bookkeeping of the cancel
  throws before the release, and the resources stay locked for the life of the owner.
* `OperationLifecycle.StopAnswerIsTrue` — the `finally` of `runProcess` answers an
  early cancel `confirmed_stopped` also when the stop pipeline rejected and the
  process lives.
* `OperationLifecycle.EveryLossIsRecovered` — recovery "advances unfinished operations to a
  terminal state or keeps them isolated" (`engine.ts:39`). A cancel between the recording of
  an indeterminate result and the end of `runProcess` sets the done row back to `stopping`
  (`supervisor.ts:444`; `updateOperationStatus` accepts any transition, `sqlite.ts:632`). At
  such a row `recordOperationResult` throws "result event already exists"
  (`sqlite.ts:736`), out of every `recover()` of the domain, and the operations that come
  after it are not looked at. The model has one operation; that the others wait with it
  follows from the loop at `engine.ts:88`.
* `OperationLifecycle.StrangersAreSafe` — recovery refuses to signal a group with a
  member older than the operation, but not one that took the group id over afterwards.
* `DomainOwnership.ResurrectedRejected` — the heartbeat of a process that lost the
  domain may take an expired row back, with a new epoch and the isolation table of
  its first one.
* `DomainOwnership.OwnerHoldsLockFile` — a process that judged a lock file stale
  removes by name the one another process has created since.
* `ServiceSupervisor.StoppedMeansGone` — `stop()` during the `await` of
  `driver.spawn` resolves with status `stopped`, and the instance is activated
  afterwards.
* `WorkspaceTransactions.NoLostUpdate` — a commit validated by observations releases
  the root before the replay and does not repeat the write-write check for what is
  written until it has the root again (`transactions.ts:342`).
* `WorkspaceTransactions.ListingsStillHold` — a file that is read and then written
  leaves the evidence of the write only, "so the verdict is not affected" (comment at
  `read-tracking.ts:15`). That is not so of a directory: an entry that is made or removed in
  the fork after the listing changes its modification time, `wasAccessed` is false, the
  directory is in no write set, and a commit "by files" goes over a changed listing.
  `ReadsStillHold` is what holds, and is proved.
* `Snapshots.IgnoredNeverTouched` — a rule file that cannot be restored counts as
  synced, and what only the old rules ignored is deleted (`git-shadow.ts:456`).
* `Snapshots.SnapshotRulesDecide` — "what may be deleted is judged by the rules of the
  snapshot" (comment at `git-shadow.ts:444`): rule files outside the snapshot's roots
  are not restored, so what only they ignored is judged by the rules of today; and a
  rule file that another rule file ignored is removed in the round that restores that
  one. `IgnoredKept` is what holds, and is proved.
* `Snapshots.CompleteIsWhole` — `complete` is to mean that all content of the roots is
  restored or proved unchanged (`types.ts:658`). A file that an operation changes
  between the manifest and the tree, ending before `SNAPSHOT_CAPTURED`, is in neither
  comparison (`snapshot-ops.ts:135`, `rollback.ts:203`); and a tracked file that was
  missing at the snapshot and comes back ignored is seen neither by the fingerprint
  nor by the list of ignored files. `ClaimsAreTrue` is what holds, and is proved.
* `Race.RedoSourceKept` — the fork is the redo source of a transaction that is
  committing (`transactions.ts:310`, `:338`). An exception after `TX_COMMITTING` makes
  the abort throw (`transactions.ts:256`); `runInVirtualWorkspace` swallows that and
  removes the fork, a race removes it without an abort (`virtual-workspace.ts:436`,
  `:710`). The workspace stays half written, and no redo can finish it.
* `Race.OnlyJudgedTrees` — the gate decides on what is committed (comment at
  `virtual-workspace.ts:239`): what it writes into the fork itself, after the tree was
  fingerprinted, is committed with the rest. `GateGuards` says what holds: what is written
  comes from a fork whose tree, as the agent left it, was let pass.
* `Race.ListingsMeantTheSame` — the observations of a shadow run claim to be closed
  (`virtual-workspace.ts:199`), but directories are filtered out of them (`:146`): a
  conflict on a listing is resolved by replaying nothing.
* `Race.NoMergeIsLost` — two candidates write the same path and the gate of the second
  puts it back as it was. The write-write check compares what the fork differs in at the
  commit, which leaves the path out; if a conflict of reads then has the observations
  replayed, the replay repeats the writes as they were inspected before the gate
  (`virtual-workspace.ts:183`), and the old content goes over what the first one merged.
  `MergeIsSerial` is about all other paths.
* `Algorithms.ConcurrencyIsShared` — the limit of concurrent operations of a capability
  counts the operations with its own id (`domain.ts:1204`), so a capability at its limit
  refuses while one attenuated from it admits. `NeverWidens` compares each ancestor with
  no more operations than the descendant has.
* `Algorithms.CborKeepsEverything` — JSON and CBOR are encodings of the same schema
  (`docs/XIO-ISA-PLAN.md:1377`, `spec/isa-v1/versioning.md:48`). A text that starts with
  U+FEFF loses it (`codec.ts:150`), half a surrogate pair comes back as U+FFFD (`:94`),
  so that two keys can become one and the object be refused, a long text is not written
  (`:96`), and what is nested too deep is written and not read. `CborRoundTrip` states
  the exact outcome of each.
* `Algorithms.RestoredIsOpen` — a recovery that selected a transaction retains its
  snapshot (`spec/agent-runtime.md:402`). If the agent is interrupted while the candidate is
  prepared, `recoverCheckpoint` discards it and returns (`runtime.ts:272`), and
  `recoverAgentWorkspace` still returns `restored` with the aborted transaction
  (`workspace-recovery.ts:65`).
* `Algorithms.ConfirmedMeansStopped` — "confirmed stopping means no observed process can
  continue execution" (`spec/current-contract.md:344`). When the child closes the driver
  deletes what it had sampled of the tree (`node-driver.ts:157`); a `terminate()` after
  that confirms over a daemon in a session of its own that it had observed.
  `StoppedIsEvident` states what each of the two answers is evidence of.
* `Algorithms.OtherRunIsSpared` — the watchdog tracks only its roots and what is below
  them so as not to kill other runs (`shell-shim.ts:259`). It follows children and
  groups of a tracked pid without a look at its start time, so those of a program that
  took the pid over are killed, and a run of the same host may be one of them.

## 6. Seen while modelling, not kept as runs

*Kernel.*
* A waiter that times out or is cancelled does not wake the ones behind it; they
  stay queued until the next release or their own timeout (`domain.ts:538`).
* The writes outside `transaction()` check the epoch with one statement and write
  with another (`sqlite.ts:204`); they touch no lease, result or operation status.
* `recover()` on a domain with operations in flight would adjudicate them under
  their supervisor (`engine.ts:43`); an `openOutputCapture` that throws leaves an
  active operation nobody supervises until then (`process-monitor.ts:29`).
* A readiness line during a stop sets a service back to `running`, so a second
  `stop()` runs a second pipeline (`service.ts:438`).
* When `finalizeStop` throws on a fenced store only its caller hears it; callers
  that joined wait for ever (`service.ts:721`). `close()` clears the back-off timer
  and then terminates an instance already settled (`service.ts:803`).
* Adjudicating a service instance leaves `service:X` among the allocated
  operations, where it counts against the cap (`domain.ts:677`).

*Workspace, snapshots, agents.*
* The leases of a commit are released before the fork is removed; a waiter that gets
  the fork makes `commit()` reject after `TX_COMMITTED` (`transactions.ts:393`). A
  failed scan joins later ones as the empty set (`:519`); a direct removal may be
  "explained" by a later transaction (`:602`).
* A `restore()` that throws leaves its row active and its leases free
  (`rollback.ts:126`); it writes in the snapshot's roots while lease and
  verification are about the caller's (`:86`).
* A recovery that fails does not reconcile scopes, so a child created meanwhile runs
  on until the next turn (`runtime.ts:291`); a restored root is cancelled again while
  a member of its task is still interrupted (`:562`).
* Merging an index drops `coverageNotes` and keeps the former `ignoredManifest`; if
  `beginWorkspaceTransaction` throws in a recovery, the baseline is not pruned.

*Instruction set, capabilities.*
* `normalizePathPattern` turns `dir/*` into `dir*` (`check.ts:25`). An empty list of
  workspaces means "none" to the validator and "all" to admission.
* `collectInstructionPaths` takes the snapshot names of `workspace.diff` for paths;
  the plan asks for all drivers of an opcode, not one of them; compiled opIds can
  collide; the CBOR writer has no depth limit, the reader has one.

*Drivers, helper, output.*
* A descendant that recycles the root's pid makes the helper report an exit again.
  After the end of its channel it leaves after two seconds whatever survives.
  Without pidfd a signal may reach a recycled pid. A `stopped` that arrives after the
  driver's timeout is dropped.
* `isGroupAlive` says no when `ps` lists a zombie of the group and misses a live
  member; seeds have no start token; what lives below an orphan found by its group is
  not looked for in that pass. The watchdog's kill of a group has no start token.
* Output between `headMax` and `maxBytes` is cut at `headMax` without a marker; for
  limits of 80 to about 115 bytes the marker is longer than the room kept for it. A
  crash between a file and its row leaves a file no prune sees; one between the
  removal and its record leaves the row `present`; artifacts of adjudicated operations
  stay for ever.

*Gateway, races.*
* `--at-step N` indexes the trace by position, while failed and replayed requests add
  entries (`time-fork.ts:285`). The account of an interrupted tool is used up even if
  the upstream fails. Of parallel calls the record names the first; a text answer
  leaves it as it was; a late handler of an abandoned tool clears the record of the
  next (`wire-proxy.ts:1551`). A command that a harness runs before its first request
  overwrites the record of the crash before; if that launch dies too, nobody accounts for
  the tool that crashed. The state file is read, changed and written by host
  and watchdog without a fence.
* Gemini results are enriched by tool name, so another call's result may carry the
  account; the text of a JSON answer of `responses` is not read. Stamps are taken when
  an answer is recorded, not when its files were read.
* An exception in a race leaves other forks undeleted and other agents running until
  they end by themselves; a shadow run that throws leaves its run row `running`.
* A `responses` request whose `input` is a plain string would lose that prompt when an
  account is injected (`wire-proxy.ts:1115`); it is not among the inputs of `WireProtocols`.

## 7. Not modelled

Byte budgets of leases (carried, never compared); joining an in-flight call; `close()`
of the service supervisor; subscribers of a drain and drains without a spill path; the
cgroup driver; the macOS tracker, Landlock and the preloaded shim; git plumbing below
the trees it writes; fork worktrees; the control operations of the instruction set;
fractions and numbers beyond the safe integers in CBOR; upstream HTTP and token counts;
the hosts (CLI, MCP, sockets, telemetry); configuration checks, whose verdict is an
input; confinement wrappers, which build a command line; schema and migrations; the
contract suites. Age and count filters of pruning are a free choice of what is pruned.
In `AgentRuntime` fence, barrier and abort are one action, so that an abort listener
which calls the runtime again in between is not an interleaving of its own.
`ProcessScans` has one table per look; a table that changes while `ps` reads it is a set
of rows it misses. In `Race` no agent and no gate removes a file. `PROJECT.json` lists
each component with the reason.

## 8. Plan

What is left is an abstract contract of an operation (one start, one true result, leases
until then) that both `OperationLifecycle` and `ServiceSupervisor` implement; a lemma
that one step of attenuation only narrows, for capabilities of any size; and the parts of
section 7 that keep state, the control operations of the instruction set first.
