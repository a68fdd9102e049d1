---------------------------- MODULE AgentRuntime ----------------------------
(***************************************************************************)
(* The cooperative scheduler of agents (src/src/agents/).  The journal is  *)
(* the only durable state: status, reason and steps of every agent.  The   *)
(* quanta in flight, their commands, recoveries, interruption barriers and *)
(* the drain loop live in memory and are lost in a crash.                  *)
(*                                                                         *)
(* A quantum is: picked by schedule(), advance() marks the agent checking, *)
(* the host validates its evidence, the step is charged and runs, its      *)
(* commands are awaited, the result is recorded.  Every await is the end   *)
(* of an action.  Of an agent's reason only interrupt_requested matters.   *)
(* The agents are of one Run; which checkpoint is restored is left out.    *)
(***************************************************************************)
EXTENDS Integers, FiniteSets, FiniteSetsExt

CONSTANTS
    Agent, NoAgent,
    Parent,        \* parentId of each agent, NoAgent for a root
    MaxSteps,      \* maxSteps of each agent
    RunSteps,      \* budget.maxSteps of the Run
    MaxAgents,     \* budget.maxAgents
    MaxCommands,   \* budget.maxPendingCommands
    MaxConcurrent, \* maxConcurrentAgents
    MaxCalls,      \* bound: pauses, resumes, interrupts, restores, recoveries
    MaxCrashes     \* bound: crashes of the host

ASSUME AgentAssumption ==
    /\ IsFiniteSet(Agent) /\ NoAgent \notin Agent
    /\ Parent \in [Agent -> Agent \cup {NoAgent}]
    /\ MaxSteps \in [Agent -> Nat] /\ RunSteps \in Nat /\ MaxAgents \in Nat
    /\ MaxCommands \in Nat /\ MaxConcurrent \in Nat \ {0} /\ MaxCalls \in Nat /\ MaxCrashes \in Nat

VARIABLES
    st,        \* the journal's projection of each agent: status, cancel, pause
    steps,     \* stepsUsed
    runOpen,   \* the Run accepts execution
    quantum,   \* place of the agent's quantum
    aborted,   \* quanta whose signal is aborted
    cmds,      \* commands a quantum has not settled
    failed,    \* quanta with a failed step or command
    outcome,   \* what the adapter's step returned
    recov,     \* recoveries in flight
    prev,      \* the state that a recovery started from
    barriers,  \* roots with an interruption in flight
    sched,     \* the drain loop: off, wake, race (waits for a quantum), recov
    phase,     \* open, stopping, fenced (shutdown has recorded its states), closed
    gaveUp,    \* history: agents a failed recovery left interrupted, not yet reconciled
    calls, crashes

journal == <<st, steps>>
quanta == <<quantum, aborted, cmds, failed, outcome>>
recoveries == <<recov, prev, gaveUp>>
memory == <<quanta, recoveries, barriers, sched, phase>>
vars == <<journal, runOpen, memory, calls, crashes>>

Status == {"none", "ready", "checking", "running", "recovering", "waiting", "paused",
           "completed", "failed", "interrupted"}
Place == {"none", "queued", "checking", "stepping", "closing"}
Fresh(status) == [status |-> status, cancel |-> FALSE, pause |-> FALSE]

\* The chain of parents and the members of a task.
AncestorSets ==
    [a \in Agent |->
        {b \in Agent : \A S \in SUBSET Agent :
            a \in S /\ (\A c \in S : Parent[c] # NoAgent => Parent[c] \in S) => b \in S}]

\* A parent is there before its children: every chain ends at a root.
ASSUME ChainsEnd == \A a \in Agent : \E b \in AncestorSets[a] : Parent[b] = NoAgent

Roots == [a \in Agent |-> CHOOSE b \in AncestorSets[a] : Parent[b] = NoAgent]
Ancestors(a) == AncestorSets[a]
RootOf(a) == Roots[a]
Created == {a \in Agent : st[a].status # "none"}
Scope(r) == {a \in Created : r \in Ancestors(a)}
Children(a) == {b \in Created : Parent[b] = a}

Accepting == phase = "open"
Live == phase # "closed"
Active == {a \in Agent : quantum[a] # "none"}
Total(f, S) == MapThenSumSet(LAMBDA a : f[a], S)
RunUsed == Total(steps, Agent)
Pending == Total(cmds, Agent)

\* assertScopeOpen: no ancestor is interrupted, finished or being cancelled;
\* who restores is exempt itself, and nothing of its scope may be in flight.
ScopeOpen(a, restoring) ==
    /\ \A b \in Ancestors(a) :
          /\ b \notin barriers
          /\ (restoring /\ b = a) \/
                (~st[b].cancel /\ st[b].status \notin {"completed", "failed", "interrupted"})
    /\ restoring => Scope(a) \cap (Active \cup recov) = {}

\* cancelScope: all members are fenced in one transaction, then the signals go.
Fenced(s, r) ==
    [b \in Agent |->
        IF b \notin Scope(r) \/ s[b].cancel \/ s[b].status \in {"completed", "failed", "interrupted"}
        THEN s[b]
        ELSE [status |-> IF (s[b].status \in {"checking", "running"} /\ b \in Active)
                              \/ (s[b].status = "recovering" /\ b \in recov)
                         THEN s[b].status ELSE "interrupted",
              cancel |-> TRUE, pause |-> FALSE]]

\* The tasks with a member that was interrupted, failed or is being cancelled.
BrokenScopes(s) ==
    {RootOf(b) : b \in {c \in Agent : s[c].cancel \/ s[c].status \in {"interrupted", "failed"}}}

\* reconcileScopes: a broken task is cancelled, else who waits for children
\* that are all completed is completed, from the leaves up.
Reconciled(s) ==
    LET broken == BrokenScopes(s) IN
    [b \in Agent |->
        IF RootOf(b) \in broken THEN Fenced(s, RootOf(b))[b]
        ELSE IF s[b].status = "waiting"
                /\ \A c \in Scope(b) : s[c].status \in {"completed", "waiting"}
             THEN Fresh("completed") ELSE s[b]]

\* Mutant: the journal is fenced, the signals are forgotten.
AbortedByNone(s) == {}

\* Whose signal is aborted with it.
AbortedBy(s) == {b \in Active : RootOf(b) \in BrokenScopes(s)}

Init ==
    /\ st = [a \in Agent |-> Fresh("none")] /\ steps = [a \in Agent |-> 0] /\ runOpen = TRUE
    /\ quantum = [a \in Agent |-> "none"] /\ aborted = {} /\ cmds = [a \in Agent |-> 0]
    /\ failed = {} /\ outcome = [a \in Agent |-> "none"]
    /\ recov = {} /\ prev = [a \in Agent |-> Fresh("none")] /\ gaveUp = {}
    /\ barriers = {} /\ sched = "off" /\ phase = "open" /\ calls = 0 /\ crashes = 0

-----------------------------------------------------------------------------
\* Calls of the host, or of a step that runs.

Create(a) ==
    /\ Accepting /\ runOpen /\ st[a].status = "none"
    /\ Cardinality(Created) < MaxAgents
    /\ Parent[a] # NoAgent =>
          st[Parent[a]].status \notin {"none", "waiting"} /\ ScopeOpen(Parent[a], FALSE)
    /\ st' = [st EXCEPT ![a] = Fresh("ready")]
    /\ UNCHANGED <<steps, runOpen, memory, calls, crashes>>

Call == calls < MaxCalls /\ calls' = calls + 1

Pause(a) ==
    /\ Accepting /\ Call /\ ~st[a].cancel /\ a \notin aborted
    /\ LET active == st[a].status \in {"running", "checking", "recovering"} IN
       /\ active \/ st[a].status \in {"ready", "paused"}
       /\ st' = [st EXCEPT ![a] = [status |-> IF active THEN @.status ELSE "paused",
                                   cancel |-> FALSE, pause |-> active]]
    /\ UNCHANGED <<steps, runOpen, memory, crashes>>

Resume(a) ==
    /\ Accepting /\ Call /\ st[a].status = "paused" /\ runOpen
    /\ steps[a] < MaxSteps[a] /\ RunUsed < RunSteps /\ ScopeOpen(a, FALSE)
    /\ st' = [st EXCEPT ![a] = Fresh("ready")]
    /\ UNCHANGED <<steps, runOpen, memory, crashes>>

\* interrupt: the barrier is registered before any signal; a second call joins it.
Interrupt(a) ==
    /\ Live /\ Call /\ st[a].status \notin {"none", "completed", "failed"}
    /\ RootOf(a) \notin barriers
    /\ barriers' = barriers \cup {RootOf(a)}
    /\ st' = Fenced(st, RootOf(a))
    /\ aborted' = aborted \cup (Active \cap Scope(RootOf(a)))
    /\ UNCHANGED <<steps, runOpen, quantum, cmds, failed, outcome, recoveries, sched, phase, crashes>>

\* Its promise settles when the quanta and recoveries of the task have.
InterruptSettles(r) ==
    /\ Live /\ r \in barriers /\ Scope(r) \cap (Active \cup recov) = {}
    /\ barriers' = barriers \ {r}
    /\ UNCHANGED <<journal, runOpen, quanta, recoveries, sched, phase, calls, crashes>>

\* restoreCheckpoint: the host has rebuilt the workspace itself.
Restore(a) ==
    /\ Accepting /\ Call /\ runOpen /\ st[a].status \in {"paused", "interrupted"} /\ ScopeOpen(a, TRUE)
    /\ st' = [st EXCEPT ![a] = Fresh("paused")]
    /\ UNCHANGED <<steps, runOpen, memory, crashes>>

\* recoverCheckpoint, until the host's prepare().
RecoverBegin(a) ==
    /\ Accepting /\ Call /\ runOpen /\ st[a].status \in {"paused", "interrupted"} /\ ScopeOpen(a, TRUE)
    /\ st' = [st EXCEPT ![a] = Fresh("recovering")]
    /\ prev' = [prev EXCEPT ![a] = st[a]]
    /\ recov' = recov \cup {a}
    /\ UNCHANGED <<steps, runOpen, quanta, gaveUp, barriers, sched, phase, crashes>>

\* Mutant: a recovery whose task was cancelled is never taken off the map.
UnregisteredUnlessCancelled(a) == IF st[a].cancel THEN recov ELSE recov \ {a}

\* The finally of a recovery.
Unregistered(a) == recov \ {a}

\* prepare() is back: bound, abandoned or failed, and interrupted if the task was.
RecoverEnds(a) ==
    /\ Live /\ a \in recov
    /\ \/ st[a].cancel /\ st' = [st EXCEPT ![a] = [status |-> "interrupted", cancel |-> TRUE, pause |-> FALSE]]
       \/ ~st[a].cancel /\ runOpen /\ st' = [st EXCEPT ![a] = Fresh("paused")]
       \/ ~st[a].cancel /\ st' = [st EXCEPT ![a] = prev[a]]
    /\ recov' = Unregistered(a)
    /\ prev' = [prev EXCEPT ![a] = Fresh("none")]
    /\ gaveUp' = IF st'[a].status = "interrupted" THEN gaveUp \cup {a} ELSE gaveUp
    /\ UNCHANGED <<steps, runOpen, quanta, barriers, sched, phase, calls, crashes>>

\* The Run is cancelled or reported as finished.
RunEnds ==
    /\ runOpen /\ Live /\ Call
    /\ runOpen' = FALSE
    /\ UNCHANGED <<journal, memory, crashes>>

-----------------------------------------------------------------------------
\* drain() and one turn of schedule().

Drain ==
    /\ Accepting /\ sched = "off" /\ \E a \in Agent : st[a].status \in {"ready", "waiting"}
    /\ sched' = "wake"
    /\ UNCHANGED <<journal, runOpen, quanta, recoveries, barriers, phase, calls, crashes>>

Turn == sched = "wake" \/ (sched = "recov" /\ \A a \in recov : ~st[a].cancel)

Schedule ==
    /\ Live /\ Turn
    /\ LET s == Reconciled(st)
           ready == IF phase = "open" THEN {a \in Agent : s[a].status = "ready"} ELSE {}
           free == MaxConcurrent - Cardinality(Active)
       IN \E launch \in SUBSET ready :
            /\ Cardinality(launch) = IF Cardinality(ready) < free THEN Cardinality(ready) ELSE free
            /\ st' = s
            /\ quantum' = [a \in Agent |-> IF a \in launch THEN "queued" ELSE quantum[a]]
            /\ aborted' = aborted \cup AbortedBy(st)
            /\ sched' = IF launch \cup Active # {} THEN "race"
                        ELSE IF \E a \in recov : s[a].cancel THEN "recov" ELSE "off"
    /\ gaveUp' = {}
    /\ UNCHANGED <<steps, runOpen, cmds, failed, outcome, recov, prev, barriers, phase, calls, crashes>>

\* One of the recoveries that the loop waited for was rejected: so is drain().
DrainRejects ==
    /\ Live /\ sched = "recov" /\ \A a \in recov : ~st[a].cancel
    /\ sched' = "off"
    /\ UNCHANGED <<journal, runOpen, quanta, recoveries, barriers, phase, calls, crashes>>

\* The quantum of a is over and its promise wakes the loop.
SettledAnd(a, told) ==
    /\ quantum' = [quantum EXCEPT ![a] = "none"]
    /\ aborted' = (aborted \cup told) \ {a}
    /\ failed' = failed \ {a}
    /\ outcome' = [outcome EXCEPT ![a] = "none"]
    /\ sched' = IF sched = "race" THEN "wake" ELSE sched

Settled(a) == SettledAnd(a, {})

\* record, reconcileScopes and the end of the quantum.
SettledBroken(a, s) ==
    /\ st' = Reconciled([st EXCEPT ![a] = s])
    /\ SettledAnd(a, AbortedBy([st EXCEPT ![a] = s]))

\* advance, until the host validates.
Advance(a) ==
    /\ Live /\ quantum[a] = "queued"
    /\ \/ /\ phase # "open" \/ st[a].status # "ready"
          /\ Settled(a) /\ st' = st
       \/ /\ phase = "open" /\ st[a].status = "ready"
          /\ \/ /\ steps[a] >= MaxSteps[a] \/ RunUsed >= RunSteps
                /\ Settled(a) /\ st' = [st EXCEPT ![a].status = "paused"]
             \/ /\ steps[a] < MaxSteps[a] /\ RunUsed < RunSteps
                /\ IF runOpen /\ ScopeOpen(a, FALSE)
                   THEN /\ st' = [st EXCEPT ![a].status = "checking"]
                        /\ quantum' = [quantum EXCEPT ![a] = "checking"]
                        /\ UNCHANGED <<aborted, failed, outcome, sched>>
                   ELSE SettledBroken(a, [st[a] EXCEPT !.status = "failed"])
    /\ UNCHANGED <<steps, runOpen, cmds, recoveries, barriers, phase, calls, crashes>>

\* Mutant: the budget is not looked at again after the await.
AffordableOnce == TRUE

\* Another quantum may have taken the last step of the Run meanwhile.
Affordable == RunUsed < RunSteps

\* The verdict of validate is in; the Run, the scope, a pause and the budget are
\* looked at again, then the step is charged.
Validate(a) ==
    /\ Live /\ quantum[a] = "checking"
    /\ \/ /\ a \in aborted
          /\ SettledBroken(a, [status |-> "interrupted", cancel |-> TRUE, pause |-> FALSE])
          /\ steps' = steps
       \/ /\ a \notin aborted
          /\ SettledBroken(a, Fresh("failed"))
          /\ steps' = steps
       \/ /\ a \notin aborted /\ runOpen /\ ScopeOpen(a, FALSE)
          /\ Settled(a) /\ st' = [st EXCEPT ![a] = Fresh("paused")]
          /\ steps' = steps
       \/ /\ a \notin aborted /\ runOpen /\ ScopeOpen(a, FALSE)
          /\ ~st[a].pause /\ phase = "open" /\ Affordable
          /\ st' = [st EXCEPT ![a].status = "running"]
          /\ steps' = [steps EXCEPT ![a] = @ + 1]
          /\ quantum' = [quantum EXCEPT ![a] = "stepping"]
          /\ UNCHANGED <<aborted, failed, outcome, sched>>
    /\ UNCHANGED <<runOpen, cmds, recoveries, barriers, phase, calls, crashes>>

\* executeProcess of the step: a slot is reserved, or the batch has failed.
Command(a) ==
    /\ Live /\ quantum[a] = "stepping" /\ a \notin failed
    /\ IF a \notin aborted /\ Accepting /\ ScopeOpen(a, FALSE) /\ Pending < MaxCommands
       THEN cmds' = [cmds EXCEPT ![a] = @ + 1] /\ failed' = failed
       ELSE failed' = failed \cup {a} /\ cmds' = cmds
    /\ UNCHANGED <<journal, runOpen, quantum, aborted, outcome, recoveries, barriers, sched, phase, calls, crashes>>

\* A command ends; if rejected or indeterminate the batch has failed.
CommandEnds(a) ==
    /\ Live /\ cmds[a] > 0
    /\ cmds' = [cmds EXCEPT ![a] = @ - 1]
    /\ failed' \in {failed, failed \cup {a}}
    /\ UNCHANGED <<journal, runOpen, quantum, aborted, outcome, recoveries, barriers, sched, phase, calls, crashes>>

\* The adapter returns or throws; the command group is closed.
StepReturns(a) ==
    /\ Live /\ quantum[a] = "stepping"
    /\ \E o \in {"ready", "completed", "throws"} : outcome' = [outcome EXCEPT ![a] = o]
    /\ quantum' = [quantum EXCEPT ![a] = "closing"]
    /\ UNCHANGED <<journal, runOpen, aborted, cmds, failed, recoveries, barriers, sched, phase, calls, crashes>>

\* What a step that went well leaves: a parent waits for its children.
StepResult(a) ==
    IF outcome[a] = "completed" THEN Fresh(IF Children(a) # {} THEN "waiting" ELSE "completed")
    ELSE Fresh(IF st[a].pause \/ steps[a] >= MaxSteps[a] THEN "paused" ELSE "ready")

\* Mutant: the commands of the step are not awaited.
StepSettlesEarly(a) ==
    /\ Live /\ quantum[a] = "closing"
    /\ Settled(a) /\ st' = [st EXCEPT ![a] = StepResult(a)]
    /\ UNCHANGED <<steps, runOpen, cmds, recoveries, barriers, phase, calls, crashes>>

\* All commands have settled.
StepSettles(a) ==
    /\ Live /\ quantum[a] = "closing" /\ cmds[a] = 0
    /\ IF a \in aborted \cup failed \/ outcome[a] = "throws"
       THEN SettledBroken(a, [status |-> "interrupted", cancel |-> a \in aborted, pause |-> FALSE])
       ELSE Settled(a) /\ st' = [st EXCEPT ![a] = StepResult(a)]
    /\ UNCHANGED <<steps, runOpen, cmds, recoveries, barriers, phase, calls, crashes>>

-----------------------------------------------------------------------------
\* The end of the runtime.

Shutdown ==
    /\ Accepting
    /\ phase' = "stopping"
    /\ UNCHANGED <<journal, runOpen, quanta, recoveries, barriers, sched, calls, crashes>>

\* settleShutdown: what is ready is paused, what is at work is interrupted.
ShutdownFence ==
    /\ phase = "stopping"
    /\ LET hit == {RootOf(a) : a \in {b \in Agent : st[b].status \in {"checking", "running", "waiting"}}} IN
       /\ barriers' = barriers \cup hit
       /\ aborted' = aborted \cup {a \in Active : RootOf(a) \in hit}
       /\ st' = [a \in Agent |-> IF RootOf(a) \in hit THEN Fenced(st, RootOf(a))[a]
                               ELSE IF st[a].status = "ready" THEN Fresh("paused") ELSE st[a]]
    /\ phase' = "fenced"
    /\ UNCHANGED <<steps, runOpen, quantum, cmds, failed, outcome, recoveries, sched, calls, crashes>>

ShutdownSettles ==
    /\ phase = "fenced" /\ Active = {} /\ recov = {} /\ barriers = {} /\ sched = "off"
    /\ phase' = "closed"
    /\ UNCHANGED <<journal, runOpen, quanta, recoveries, barriers, sched, calls, crashes>>

Close ==
    /\ Accepting /\ sched = "off" /\ recov = {} /\ barriers = {}
    /\ phase' = "closed"
    /\ UNCHANGED <<journal, runOpen, quanta, recoveries, barriers, sched, calls, crashes>>

\* The constructor's reading of a journal.
Restarted(s) ==
    [a \in Agent |->
        IF s[a].status \in {"running", "recovering"} \/ (s[a].status = "checking" /\ s[a].cancel)
        THEN [Fresh("interrupted") EXCEPT !.pause = s[a].pause]
        ELSE IF s[a].status \in {"checking", "ready"}
             THEN [Fresh("paused") EXCEPT !.pause = s[a].pause] ELSE s[a]]

\* The host dies, or opens the journal again after close(); the map of what is
\* in flight is empty, and broken tasks are cancelled.
Crash ==
    /\ crashes < MaxCrashes /\ crashes' = crashes + 1
    /\ LET s == Restarted(st) IN
       st' = [b \in Agent |->
                 IF RootOf(b) \in BrokenScopes(s)
                 THEN IF s[b].cancel \/ s[b].status \in {"none", "completed", "failed", "interrupted"} THEN s[b]
                      ELSE [status |-> "interrupted", cancel |-> TRUE, pause |-> FALSE]
                 ELSE IF s[b].status = "waiting"
                         /\ \A c \in Scope(b) : s[c].status \in {"completed", "waiting"}
                      THEN Fresh("completed") ELSE s[b]]
    /\ quantum' = [a \in Agent |-> "none"] /\ aborted' = {} /\ cmds' = [a \in Agent |-> 0]
    /\ failed' = {} /\ outcome' = [a \in Agent |-> "none"]
    /\ recov' = {} /\ prev' = [a \in Agent |-> Fresh("none")] /\ gaveUp' = {}
    /\ barriers' = {} /\ sched' = "off" /\ phase' = "open"
    /\ UNCHANGED <<steps, runOpen, calls>>

Work(a) == Advance(a) \/ Validate(a) \/ CommandEnds(a) \/ StepReturns(a) \/ StepSettles(a)

Next ==
    \/ \E a \in Agent :
          \/ Create(a) \/ Pause(a) \/ Resume(a) \/ Interrupt(a) \/ InterruptSettles(a) \/ Restore(a)
          \/ RecoverBegin(a) \/ RecoverEnds(a) \/ Command(a) \/ Work(a)
    \/ RunEnds \/ Drain \/ Schedule \/ DrainRejects \/ Shutdown \/ ShutdownFence \/ ShutdownSettles
    \/ Close \/ Crash

\* Promises settle: the event loop runs what is due, the host's validate,
\* prepare and step return, a signalled command ends.
Fairness ==
    /\ \A a \in Agent : WF_vars(Advance(a)) /\ WF_vars(Validate(a)) /\ WF_vars(CommandEnds(a))
                        /\ WF_vars(StepReturns(a)) /\ WF_vars(StepSettles(a))
                        /\ WF_vars(RecoverEnds(a)) /\ WF_vars(InterruptSettles(a))
    /\ WF_vars(Schedule) /\ WF_vars(ShutdownFence) /\ WF_vars(ShutdownSettles)

Spec == Init /\ [][Next]_vars /\ Fairness

-----------------------------------------------------------------------------
\* Types.
TypeOK ==
    /\ st \in [Agent -> [status : Status, cancel : BOOLEAN, pause : BOOLEAN]]
    /\ steps \in [Agent -> Nat] /\ quantum \in [Agent -> Place] /\ cmds \in [Agent -> Nat]
    /\ aborted \subseteq Agent /\ failed \subseteq Agent /\ recov \subseteq Agent /\ barriers \subseteq Agent
    /\ sched \in {"off", "wake", "race", "recov"} /\ phase \in {"open", "stopping", "fenced", "closed"}
    /\ Cardinality(Active) <= MaxConcurrent

\* advance(): quanta that were validated at the same time never charge more
\* steps than the Run has, and their commands never exceed its slots.
BudgetsHold ==
    /\ RunUsed <= RunSteps /\ \A a \in Agent : steps[a] <= MaxSteps[a]
    /\ Pending <= MaxCommands

\* A step works only in a task that is whole: once a member has failed or was
\* interrupted, whatever still runs in the task has been told to stop; after a
\* recovery that was given up the next turn of the scheduler tells it.
BrokenTaskIsStopped ==
    \A a \in Active : RootOf(a) \in BrokenScopes(st) /\ quantum[a] # "queued" =>
        a \in aborted \/ \E b \in gaveUp : RootOf(b) = RootOf(a)

\* A parent is completed only when all its children are.
CompletedMeansAll ==
    \A a \in Created : st[a].status = "completed" =>
        \A b \in Scope(a) : st[b].status = "completed"

\* interrupt() resolves and shutdown ends when no command of the task runs any
\* more, and no recovery can bind what it prepared.
BarrierCoversWork ==
    [][\A r \in Agent : (r \in barriers /\ r \notin barriers' /\ crashes' = crashes) =>
          \A a \in Scope(r) : cmds'[a] = 0 /\ st'[a].status \notin {"ready", "checking", "running", "recovering"}]_vars

\* A step that was charged and cut off is not run again by itself: only a
\* restore brings an interrupted agent back, and what is finished stays so.
NoSilentRetry ==
    [][\A a \in Agent :
          /\ st[a].status \in {"completed", "failed"} => st'[a] = st[a]
          /\ st[a].status = "interrupted" /\ st'[a].status # "interrupted" =>
                a \in recov' \/ (calls' > calls /\ st'[a].status = "paused")
          /\ crashes' > crashes /\ st[a].status = "running" =>
                st'[a].status = "interrupted"]_vars

\* shutdown() and interrupt() end.
ShutdownEnds == (phase \in {"stopping", "fenced"}) ~> (phase \in {"closed", "open"})
InterruptEnds == \A r \in Agent : (r \in barriers) ~> (r \notin barriers)

\* A task is broken as a whole and completed as a whole.
TaskEndsTogether ==
    /\ TypeOK
    /\ BrokenTaskIsStopped
    /\ CompletedMeansAll

\* Neither an interruption nor a crash lets charged work go on or begin again
\* behind the journal's back.
InterruptionIsFenced ==
    /\ BarrierCoversWork
    /\ NoSilentRetry

\* shutdown() and interrupt() end.
StopsEnd ==
    /\ ShutdownEnds
    /\ InterruptEnds
=============================================================================
