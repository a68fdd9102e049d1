---------------------------- MODULE IsaPipeline -----------------------------
(***************************************************************************)
(* Programs of the instruction set (src/src/isa/): the pipeline scheduler, *)
(* the coordinator the programs of a domain share, and the adapter that    *)
(* binds instructions to durable kernel operations.                        *)
(*                                                                         *)
(* kernel = TRUE  : executeKernelPipeline; instructions with an opId are   *)
(*                  snapshots and rollbacks of the kernel.                 *)
(* kernel = FALSE : executePipeline with an executor of the host.          *)
(*                                                                         *)
(* Synchronous code between two awaits is one action.  A submission is one *)
(* call of execute(); two of them may carry the same Program (a retry).    *)
(***************************************************************************)
EXTENDS Integers, Sequences, FiniteSets, FiniteSetsExt, SequencesExt

CONSTANTS
    Sub,          \* submissions
    Id,           \* instruction ids
    OpId,         \* operation ids of the kernel
    None,
    Root,         \* what the bound workspace directory may resolve to
    Program,      \* Program[kernel][s]: a sequence of instructions
    RetryOf,      \* the submission a host submits again, or None
    MaxConcurrency,
    MaxFaults     \* bound: crashes, revocations, retargeted links, aborts

ASSUME IsaAssumption ==
    /\ None \notin Id \cup OpId /\ None \notin {"succeeded", "rolled_back"}
    /\ MaxConcurrency \in 1..256 /\ MaxFaults \in Nat

\* What validateProgram has checked: ids and operation ids, and dependencies that
\* are instructions of the same program.  A binding is not the absence of one.
ASSUME ProgramAssumption ==
    \A k \in BOOLEAN, s \in Sub :
        /\ Program[k][s] \in Seq(Range(Program[k][s]))
        /\ \A x \in Range(Program[k][s]) :
              /\ x.id \in Id /\ x.opId \in OpId \cup {None}
              /\ x.deps \subseteq { y.id : y \in Range(Program[k][s]) }
              /\ \A r \in Root : <<x.program, x.input, r>> # None

VARIABLES
    kernel,
    \* durable
    bound,        \* ISA_INSTRUCTION_BOUND: fingerprint of each opId, or None
    row,          \* the kernel's operation: none, open, or its result
    effects,      \* history: how often the operation took effect
    begunBy,      \* history: the execution that began the operation
    \* the domain's host
    capOK, runOK, \* the capability is valid, the Run is running
    root,         \* where the workspace's directory points now
    barred,       \* history: opIds not yet begun when the capability was revoked
    \* in memory
    phase,        \* idle, running, or the status of the finished call
    at, res,      \* place and result of each instruction
    joinedTo,     \* the execution a joined instruction waits for
    dig,          \* the roots the executor was called with
    waiters,      \* sequence of <<s, i>> waiting for resources
    holders,      \* executions that hold their resources
    commitTail,   \* the commit queue, its head is running
    inFlight,     \* the executions others may join, one per key
    aborted, wake, faults

durable == <<bound, row, effects, begunBy>>
host == <<capOK, runOK, root, barred>>
coordinator == <<waiters, holders, commitTail, inFlight>>
memory == <<phase, at, res, joinedTo, dig, coordinator, aborted, wake>>
vars == <<kernel, durable, host, memory, faults>>

-----------------------------------------------------------------------------
(* Programs *)

Prog(s) == Program[kernel][s]
IdTable == [k \in BOOLEAN |-> [s \in Sub |-> { x.id : x \in Range(Program[k][s]) }]]
Ids(s) == IdTable[kernel][s]
InsTable ==
    [k \in BOOLEAN |-> [s \in Sub |->
        [i \in IdTable[k][s] |-> CHOOSE x \in Range(Program[k][s]) : x.id = i]]]
Ins(s, i) == InsTable[kernel][s][i]

\* control.status and control.health have no opId: their key is programId:id
KeyOf(s, i) == IF Ins(s, i).opId # None THEN Ins(s, i).opId ELSE <<Prog(s)[1].program, i>>

instructionFingerprint(s, i) == Ins(s, i)

\* the adapter's own digest covers the resolved roots as well
fingerprint(s, i) == <<Ins(s, i).program, Ins(s, i).input, root>>

Resources(op) ==
    CASE op = "workspace.snapshot" -> {"io.scan", "artifact.write"}
      [] op = "workspace.rollback" -> {"io.scan", "io.write"}
      [] op = "control.health"     -> {"journal.read"}
      [] op = "fs.write"           -> {"io.write", "artifact.read"}
      [] op = "control.resolve"    -> {"journal.write"}
      [] op = "fs.stat"            -> {"io.metadata"}

Commits(op) == Resources(op) \cap {"io.write", "journal.write"} # {}
ResourcesOf(e) == Resources(Ins(e[1], e[2]).op)

dependencySucceeded(r, op) == r = "succeeded" \/ (op = "workspace.rollback" /\ r = "rolled_back")

finalStatus(rs) ==
    IF "indeterminate" \in rs THEN "indeterminate"
    ELSE IF "failed" \in rs THEN "failed"
    ELSE IF rs \cap {"partial", "cancelled"} # {} THEN "partial"
    ELSE "succeeded"

\* f with the entry of one instruction replaced
Put(f, s, i, v) == [f EXCEPT ![s][i] = v]

\* Op(v), with v evaluated once
Once(v, Op(_)) == CHOOSE r \in { Op(x) : x \in {v} } : TRUE

-----------------------------------------------------------------------------
(* The coordinator: waiters are served in order, those that cannot be      *)
(* served are passed over                                                  *)

Free(e, hs) == \A h \in hs : ResourcesOf(h) \cap ResourcesOf(e) = {}

\* one waiter: served, or kept in its place
serve(g, e) ==
    IF Free(e, g.holders) THEN [waiters |-> g.waiters, holders |-> g.holders \cup {e}]
                          ELSE [waiters |-> Append(g.waiters, e), holders |-> g.holders]

\* Mutant: a release wakes nobody
drainWaitersNever(ws, hs) ==
    IF Len(ws) = 1 THEN [waiters |-> SelectSeq(ws, LAMBDA e : ~Free(e, hs)),
                         holders |-> hs \cup { e \in Range(ws) : Free(e, hs) }]
                   ELSE [waiters |-> ws, holders |-> hs]

drainWaiters(ws, hs) ==
    LET from[n \in 0..Len(ws)] ==
            IF n = 0 THEN [waiters |-> <<>>, holders |-> hs]
            ELSE Once(from[n - 1], LAMBDA g : serve(g, ws[n]))
    IN from[Len(ws)]

-----------------------------------------------------------------------------
Init ==
    /\ kernel \in BOOLEAN
    /\ bound = [o \in OpId |-> None]
    /\ row = [o \in OpId |-> "none"]
    /\ effects = [o \in OpId |-> 0]
    /\ begunBy = [o \in OpId |-> None]
    /\ capOK = TRUE /\ runOK = TRUE /\ root \in Root /\ barred = {}
    /\ phase = [s \in Sub |-> "idle"]
    /\ at = [s \in Sub |-> [i \in Id |-> "pending"]]
    /\ res = [s \in Sub |-> [i \in Id |-> None]]
    /\ joinedTo = [s \in Sub |-> [i \in Id |-> None]]
    /\ dig = [s \in Sub |-> [i \in Id |-> None]]
    /\ waiters = <<>> /\ holders = {} /\ commitTail = <<>>
    /\ inFlight = {}
    /\ aborted = {} /\ wake = {} /\ faults = 0

Fault == faults < MaxFaults /\ faults' = faults + 1

(* admit() and bindOperation() of one instruction, as tests on the state *)
admit(s, i) == capOK /\ (Ins(s, i).opId # None => runOK)

Bindable(b, s, i) ==
    LET o == Ins(s, i).opId IN
    o # None => \/ b[o] = fingerprint(s, i)
                \/ b[o] = None /\ row[o] = "none"
Bound(b, s, i) ==
    IF Ins(s, i).opId = None THEN b ELSE [b EXCEPT ![Ins(s, i).opId] = fingerprint(s, i)]

(* executeKernelPipeline admits and binds the instructions one after the   *)
(* other; a refusal leaves the bindings made before it                     *)
AdmitOne(g, s, i) ==
    IF g.ok /\ admit(s, i) /\ Bindable(g.bound, s, i)
    THEN [ok |-> TRUE, bound |-> Bound(g.bound, s, i)]
    ELSE [ok |-> FALSE, bound |-> g.bound]

AdmitAll(s) ==
    LET upTo[n \in 0..Len(Prog(s))] ==
            IF n = 0 THEN [ok |-> TRUE, bound |-> bound]
            ELSE Once(upTo[n - 1], LAMBDA g : AdmitOne(g, s, Prog(s)[n].id))
    IN upTo[Len(Prog(s))]

Submit(s) ==
    /\ phase[s] = "idle"
    /\ RetryOf[s] # None => phase[RetryOf[s]] # "idle"
    /\ LET a == AdmitAll(s)
           sideEffects == \E x \in Range(Prog(s)) : x.opId # None IN
       IF ~kernel
       THEN /\ phase' = [phase EXCEPT ![s] = "running"]
            /\ wake' = wake \cup {s}
            /\ UNCHANGED bound
       ELSE IF sideEffects /\ ~runOK
       THEN phase' = [phase EXCEPT ![s] = "rejected"] /\ UNCHANGED <<bound, wake>>
       ELSE /\ bound' = a.bound
            /\ phase' = [phase EXCEPT ![s] = IF a.ok THEN "running" ELSE "rejected"]
            /\ wake' = IF a.ok THEN wake \cup {s} ELSE wake
    /\ UNCHANGED <<kernel, row, effects, begunBy, host, at, res, joinedTo, dig, coordinator, aborted, faults>>

-----------------------------------------------------------------------------
(* One turn of executePipeline's loop.  g holds what the turn changes.     *)

Active(g, s) == { i \in Ids(s) : g.at[s][i] \notin {"pending", "done"} }
Complete(g, s, i, r) == [g EXCEPT !.at = Put(@, s, i, "done"), !.res = Put(@, s, i, r)]

start(g, s, i) ==
    LET same == { e \in g.inFlight : KeyOf(e[1], e[2]) = KeyOf(s, i) }
        d == drainWaiters(Append(g.waiters, <<s, i>>), g.holders) IN
    IF \E e \in same : instructionFingerprint(e[1], e[2]) # instructionFingerprint(s, i)
    THEN Complete(g, s, i, "failed")
    ELSE IF same # {}
    THEN [g EXCEPT !.at = Put(@, s, i, "joined"), !.joinedTo = Put(@, s, i, CHOOSE e \in same : TRUE)]
    ELSE [g EXCEPT !.at = Put(@, s, i, "acquiring"), !.waiters = d.waiters, !.holders = d.holders,
                   !.inFlight = @ \cup {<<s, i>>}]

Launch(g, s, i) ==
    LET deps == Ins(s, i).deps IN
    IF \/ g.at[s][i] # "pending"
       \/ Cardinality(Active(g, s)) >= MaxConcurrency
       \/ \E j \in deps : g.at[s][j] # "done"
    THEN g
    ELSE IF \E j \in deps : ~dependencySucceeded(g.res[s][j], Ins(s, j).op)
    THEN Complete(g, s, i, "partial")
    ELSE start(g, s, i)

CancelPending(g, s) ==
    [g EXCEPT !.at[s] = [i \in Id |-> IF i \in Ids(s) /\ @[i] = "pending" THEN "done" ELSE @[i]],
              !.res[s] = [i \in Id |-> IF i \in Ids(s) /\ g.at[s][i] = "pending" THEN "cancelled" ELSE @[i]]]

(* The loop goes round without waiting while a turn made progress and left *)
(* nothing active; otherwise it sleeps on the race of its active ones.     *)
AfterTurn(s) ==
    LET g0 == [at |-> at, res |-> res, joinedTo |-> joinedTo, waiters |-> waiters,
               holders |-> holders, inFlight |-> inFlight]
        upTo[n \in 0..Len(Prog(s))] ==
            IF n = 0 THEN IF s \in aborted THEN CancelPending(g0, s) ELSE g0
            ELSE Once(upTo[n - 1], LAMBDA g : Launch(g, s, Prog(s)[n].id))
    IN upTo[Len(Prog(s))]

Turn(s) ==
    /\ s \in wake
    /\ \E g \in {AfterTurn(s)} :
       LET pending == { i \in Ids(s) : g.at[s][i] = "pending" } IN
       /\ at' = g.at /\ res' = g.res /\ joinedTo' = g.joinedTo
       /\ waiters' = g.waiters /\ holders' = g.holders /\ inFlight' = g.inFlight
       /\ phase' = IF Active(g, s) # {} \/ pending # {} THEN phase
                   ELSE [phase EXCEPT ![s] = finalStatus({ g.res[s][i] : i \in Ids(s) })]
       /\ wake' = IF Active(g, s) = {} /\ pending # {} THEN wake ELSE wake \ {s}
    /\ UNCHANGED <<kernel, durable, host, dig, commitTail, aborted, faults>>

-----------------------------------------------------------------------------
(* The life of one execution *)

\* acquire() has resolved: writers line up in the commit queue
Granted(s, i) ==
    /\ at[s][i] = "acquiring" /\ <<s, i>> \in holders
    /\ at' = Put(at, s, i, "queued")
    /\ commitTail' = IF Commits(Ins(s, i).op) THEN Append(commitTail, <<s, i>>) ELSE commitTail
    /\ UNCHANGED <<kernel, durable, host, phase, res, joinedTo, dig, waiters, holders, inFlight, aborted, wake, faults>>

Turned(s, i) == Commits(Ins(s, i).op) => Head(commitTail) = <<s, i>>

\* Mutant: the locks are released where the executor returns only
ReleasedUnlessCancelled(e) ==
    IF at[e[1]][e[2]] = "executing"
    THEN \E d \in {drainWaiters(waiters, holders \ {e})} :
         /\ holders' = d.holders /\ waiters' = d.waiters
         /\ commitTail' = IF Commits(Ins(e[1], e[2]).op) THEN Tail(commitTail) ELSE commitTail
    ELSE UNCHANGED <<holders, waiters, commitTail>>

(* The result is there: the commit queue and the resources are released,   *)
(* the key is free again and the loop of the submission wakes up           *)
Released(e) ==
    \E d \in {drainWaiters(waiters, holders \ {e})} :
    /\ holders' = d.holders /\ waiters' = d.waiters
    /\ commitTail' = IF Commits(Ins(e[1], e[2]).op) THEN Tail(commitTail) ELSE commitTail

Settle(s, i, r) ==
    /\ Released(<<s, i>>)
    /\ inFlight' = inFlight \ {<<s, i>>}
    /\ at' = Put(at, s, i, "done")
    /\ res' = Put(res, s, i, r)
    /\ wake' = wake \cup {s}
    /\ UNCHANGED <<phase, joinedTo, dig, aborted>>

preconditionHolds(s, i) ==
    Ins(s, i).pre = None \/ (at[s][Ins(s, i).pre] = "done" /\ res[s][Ins(s, i).pre] = "succeeded")

Place(s, i, p) == at' = Put(at, s, i, p)

\* Mutant: an operation without a result does not keep its id
ExistsFinished(o) == row[o] \notin {"none", "open"}

Exists(o) == row[o] # "none"

(* The adapter's executor up to its first await: admission is asked again, *)
(* the binding checked again, an operation that exists is replayed         *)
Result(r) == IF r = "restored" THEN "rolled_back" ELSE IF r = "open" THEN "indeterminate" ELSE r

\* Mutant: the admission made at submission is good for ever
ReAdmittedStale(s, i) == TRUE

ReAdmitted(s, i) == admit(s, i)

KernelExecutor(s, i) ==
    LET o == Ins(s, i).opId IN
    IF ~ReAdmitted(s, i) \/ ~Bindable(bound, s, i)
    THEN Settle(s, i, "failed") /\ UNCHANGED bound
    ELSE /\ bound' = Bound(bound, s, i)
         /\ IF o = None
            THEN Settle(s, i, "succeeded")
            ELSE IF Exists(o)
            THEN Settle(s, i, Result(row[o]))
            ELSE /\ Place(s, i, "probing")
                 /\ dig' = Put(dig, s, i, root)
                 /\ UNCHANGED <<phase, res, joinedTo, coordinator, aborted, wake>>

Enter(s, i) ==
    /\ at[s][i] = "queued" /\ Turned(s, i)
    /\ IF s \in aborted
       THEN Settle(s, i, "cancelled") /\ UNCHANGED bound
       ELSE IF ~preconditionHolds(s, i)
       THEN Settle(s, i, "failed") /\ UNCHANGED bound
       ELSE IF kernel THEN KernelExecutor(s, i)
       ELSE /\ Place(s, i, IF Ins(s, i).external THEN "checking" ELSE "executing")
            /\ UNCHANGED <<bound, phase, res, joinedTo, dig, coordinator, aborted, wake>>
    /\ UNCHANGED <<kernel, row, effects, begunBy, host, faults>>

\* options.checkPrecondition returns; it may also throw or say stale
Checked(s, i) ==
    /\ at[s][i] = "checking"
    /\ \/ /\ s \notin aborted /\ Place(s, i, "executing")
          /\ UNCHANGED <<phase, res, joinedTo, dig, coordinator, aborted, wake>>
       \/ s \in aborted /\ Settle(s, i, "cancelled")
       \/ Settle(s, i, "failed")
    /\ UNCHANGED <<kernel, durable, host, faults>>

(* captureSnapshot and rollback look at the repository before they insert  *)
(* their operation; an insert that finds a row throws                      *)
Activate(s, i) ==
    LET o == Ins(s, i).opId IN
    /\ at[s][i] = "probing"
    /\ IF Exists(o)
       THEN Settle(s, i, "failed") /\ UNCHANGED <<row, begunBy>>
       ELSE /\ Place(s, i, "executing")
            /\ row' = [row EXCEPT ![o] = "open"]
            /\ begunBy' = [begunBy EXCEPT ![o] = <<s, i>>]
            /\ UNCHANGED <<phase, res, joinedTo, dig, coordinator, aborted, wake>>
    /\ UNCHANGED <<kernel, bound, effects, host, faults>>

\* the operation acts on the directory tree
Effect(s, i) ==
    LET o == Ins(s, i).opId IN
    /\ kernel /\ at[s][i] = "executing" /\ effects[o] < 2
    /\ Place(s, i, "effected")
    /\ effects' = [effects EXCEPT ![o] = @ + 1]
    /\ UNCHANGED <<kernel, bound, row, begunBy, host, phase, res, joinedTo, dig, coordinator, aborted, wake, faults>>

(* The supervisor's promise: a durable result, or an error that leaves the *)
(* operation open                                                          *)
OperationEnds(s, i) ==
    LET o == Ins(s, i).opId
        good == IF Ins(s, i).op = "workspace.rollback" THEN "restored" ELSE "succeeded" IN
    /\ kernel /\ at[s][i] \in {"executing", "effected"}
    /\ \/ /\ at[s][i] = "effected"
          /\ row' = [row EXCEPT ![o] = good]
          /\ Settle(s, i, Result(good))
       \/ \E r \in {"failed", "indeterminate"} :
            row' = [row EXCEPT ![o] = r] /\ Settle(s, i, r)
       \/ UNCHANGED row /\ Settle(s, i, "failed")
    /\ UNCHANGED <<kernel, bound, effects, begunBy, host, faults>>

\* the host's executor returns or throws
HostEnds(s, i) ==
    /\ ~kernel /\ at[s][i] = "executing"
    /\ \E r \in {"succeeded", "failed"} : Settle(s, i, r)
    /\ UNCHANGED <<kernel, durable, host, faults>>

\* a joined instruction takes over the result, whatever it is
Joined(s, i) ==
    /\ at[s][i] = "joined"
    /\ LET e == joinedTo[s][i] IN
       /\ at[e[1]][e[2]] = "done"
       /\ at' = Put(at, s, i, "done")
       /\ res' = Put(res, s, i, res[e[1]][e[2]])
    /\ wake' = wake \cup {s}
    /\ UNCHANGED <<kernel, durable, host, phase, joinedTo, dig, coordinator, aborted, faults>>

-----------------------------------------------------------------------------
(* The host and its faults *)

Abort(s) ==
    /\ Fault /\ phase[s] = "running" /\ s \notin aborted
    /\ aborted' = aborted \cup {s}
    /\ UNCHANGED <<kernel, durable, host, phase, at, res, joinedTo, dig, coordinator, wake>>

Revoke ==
    /\ Fault /\ kernel /\ capOK
    /\ capOK' = FALSE
    /\ barred' = { o \in OpId : /\ row[o] = "none"
                                /\ \A s \in Sub, i \in Id : at[s][i] = "probing" => Ins(s, i).opId # o }
    /\ UNCHANGED <<kernel, durable, runOK, root, memory>>

RunEnds ==
    /\ Fault /\ kernel /\ runOK
    /\ runOK' = FALSE
    /\ UNCHANGED <<kernel, durable, capOK, root, barred, memory>>

Retarget ==
    /\ Fault /\ kernel
    /\ \E r \in Root \ {root} : root' = r
    /\ UNCHANGED <<kernel, durable, capOK, runOK, barred, memory>>

(* A crash loses the memory; the calls are lost with it and the host may   *)
(* submit again under the submissions it has left                          *)
Crash ==
    /\ Fault /\ kernel
    /\ \E s \in Sub : phase[s] = "running"
    /\ phase' = [s \in Sub |-> IF phase[s] = "running" THEN "lost" ELSE phase[s]]
    /\ at' = [s \in Sub |-> [i \in Id |-> IF phase[s] = "running" THEN "lost" ELSE at[s][i]]]
    /\ waiters' = <<>> /\ holders' = {} /\ commitTail' = <<>>
    /\ inFlight' = {}
    /\ wake' = {} /\ aborted' = {}
    /\ UNCHANGED <<kernel, durable, host, res, joinedTo, dig>>

\* recovery gives an operation that was open an indeterminate result
Recover ==
    /\ \E o \in OpId :
         /\ row[o] = "open"
         /\ \A s \in Sub, i \in Id : at[s][i] \in {"executing", "effected"} => Ins(s, i).opId # o
         /\ row' = [row EXCEPT ![o] = "indeterminate"]
    /\ UNCHANGED <<kernel, bound, effects, begunBy, host, memory, faults>>

Progress(s) ==
    \/ Turn(s)
    \/ \E i \in Ids(s) : \/ Granted(s, i) \/ Enter(s, i) \/ Checked(s, i) \/ Activate(s, i)
                         \/ Effect(s, i) \/ OperationEnds(s, i) \/ HostEnds(s, i) \/ Joined(s, i)

Next ==
    \/ \E s \in Sub : Submit(s) \/ Progress(s) \/ Abort(s)
    \/ Revoke \/ RunEnds \/ Retarget \/ Crash \/ Recover

(* A promise of the kernel, of the host's executor and of its checks       *)
(* settles; the event loop runs what is ready, in any order                *)
Spec == Init /\ [][Next]_vars /\ WF_vars(\E s \in Sub : Progress(s))

-----------------------------------------------------------------------------
(* Properties *)

\* Types of the pipeline's state.
TypeOK ==
    /\ row \in [OpId -> {"none", "open", "succeeded", "failed", "restored", "indeterminate"}]
    /\ effects \in [OpId -> 0..2]
    /\ phase \in [Sub -> {"idle", "running", "lost", "rejected", "succeeded", "failed", "partial", "indeterminate"}]
    /\ \A s \in Sub, i \in Id : res[s][i] \in {None, "succeeded", "failed", "partial", "cancelled",
                                               "indeterminate", "rolled_back"}
    /\ holders \subseteq Sub \X Id /\ wake \subseteq Sub /\ aborted \subseteq Sub

\* An operation takes effect at most once, whatever the number of concurrent
\* submissions, retries and crashes that name its opId.
EffectOnce == \A o \in OpId : effects[o] <= 1

\* A submission that reports success has every one of its operations durably
\* finished in the kernel: also when its results were joined or replayed.
SuccessIsDurable ==
    \A s \in Sub : phase[s] = "succeeded" /\ kernel =>
        \A i \in Ids(s) : Ins(s, i).opId # None => row[Ins(s, i).opId] \in {"succeeded", "restored"}

\* Every instruction of a submission that reports success really succeeded,
\* none was skipped or cancelled.
SuccessIsComplete ==
    \A s \in Sub : phase[s] = "succeeded" =>
        \A i \in Ids(s) : res[s][i] \in {"succeeded", "rolled_back"}

\* A rollback is not even begun before the snapshot it depends on is durable.
Ready(s, i) ==
    \A j \in Ins(s, i).deps : Ins(s, j).opId # None => row[Ins(s, j).opId] \in {"succeeded", "restored"}
DurableOrder ==
    \A o \in OpId : row[o] # "none" => Ready(begunBy[o][1], begunBy[o][2])

\* Two executions in progress never claim a common resource, and one at most is
\* past the commit queue.
Exclusive ==
    LET inside == { e \in Sub \X Id : at[e[1]][e[2]] \in {"checking", "probing", "executing", "effected"} } IN
    \A e, f \in inside : e # f =>
        /\ ResourcesOf(e) \cap ResourcesOf(f) = {}
        /\ ~(Commits(Ins(e[1], e[2]).op) /\ Commits(Ins(f[1], f[2]).op))

\* Two executions in flight never have the same key: who comes later joins.
OneInFlight ==
    \A e, f \in inFlight : KeyOf(e[1], e[2]) = KeyOf(f[1], f[2]) => e = f

\* An operation runs on the directory its durable binding was made for, though
\* the workspace's link may be moved while the instruction waits.
RunsOnBoundRoot ==
    \A o \in OpId : row[o] # "none" => dig[begunBy[o][1]][begunBy[o][2]] = bound[o][3]

\* An instruction that had not reached the kernel when its capability was revoked
\* never takes effect, though it was admitted at submission.
RevokedNeverStarts == \A o \in barred : row[o] = "none"

\* What the journal says of an operation is final: neither a retry, nor another
\* program that names its opId, nor recovery changes a binding or a result.
JournalStep ==
    \A o \in OpId : /\ bound[o] # None => bound'[o] = bound[o]
                    /\ row[o] \notin {"none", "open"} => row'[o] = row[o]
JournalIsFinal == [][JournalStep]_vars

\* When no submission is running, the coordinator is empty: no lock, no place in
\* a queue and no in-flight entry survives its execution.
NothingLeaks ==
    (\A s \in Sub : phase[s] # "running") =>
        /\ waiters = <<>> /\ holders = {} /\ commitTail = <<>> /\ inFlight = {}

\* Every submission ends: nobody waits for ever for a resource, for the commit
\* queue, or for an execution it joined.
SubmissionsEnd == []<>(\A s \in Sub : phase[s] # "running")

\* What a Program did is what it says: an operation takes effect once, in the
\* order of the dependencies, and success is durable and complete.
EffectsAreTrue ==
    /\ TypeOK
    /\ EffectOnce
    /\ DurableOrder
    /\ SuccessIsDurable
    /\ SuccessIsComplete

\* Admission and binding hold when an instruction runs, not only when it was
\* queued: a revoked capability starts nothing, and the root is the one bound.
AdmissionIsFresh ==
    /\ RunsOnBoundRoot
    /\ RevokedNeverStarts

\* The coordinator excludes, and keeps nothing for a submission that has ended.
LocksAreSound ==
    /\ Exclusive
    /\ OneInFlight
    /\ NothingLeaks
=============================================================================
