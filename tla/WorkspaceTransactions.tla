----------------------- MODULE WorkspaceTransactions -----------------------
(***************************************************************************)
(* Optimistic transactions on a workspace (src/src/workspace/).  A         *)
(* transaction works in a fork made from a snapshot of the main workspace; *)
(* commit takes the evidence of what was read and written, validates it    *)
(* against later commits and direct changes, journals TX_COMMITTING and    *)
(* copies the write set file by file.  The journal is the redo log: after  *)
(* a crash the domain isolates target and source before anything runs, and *)
(* a repeated commit finishes the copy.                                    *)
(*                                                                         *)
(* The content of a path is who wrote it last.  Managed operations and     *)
(* outside writers take the lease of the root they write; a writer that    *)
(* ignores leases is not part of the model.  commit and abort run one at a *)
(* time (serialize), begin and inspect beside them.                        *)
(***************************************************************************)
EXTENDS Naturals, FiniteSets, TLC

CONSTANTS
    Tx, Path,
    NoTx,       \* nobody
    Present,    \* the files of the workspace at first
    Dir,        \* the entry './' of a read set: the directory was listed
    MaxWork,    \* bound: reads, writes and inspections of each transaction
    MaxOutside, \* bound: direct changes of the main workspace
    MaxFaults   \* bound: crashes and failing copies

ASSUME WorkspaceAssumption ==
    /\ IsFiniteSet(Path) /\ Dir \notin Path /\ NoTx \notin Tx /\ Present \subseteq Path
    /\ MaxWork \in [Tx -> Nat] /\ MaxOutside \in Nat /\ MaxFaults \in Nat

Value == {"absent", "base", "outside"} \cup Tx
Contents == [Path -> Value]

VARIABLES
    main,      \* the root of every transaction
    base,      \* the snapshot a transaction started from
    fork,      \* its worktree
    journal,   \* its TX_ events, as the state they stand for
    closed,    \* the host's own tools work in the forks, no process
    tracking,  \* probeReadTracking: "atime", or "unobserved" on a noatime mount
    atime,     \* entries whose access time tells of a read
    reads,     \* union of the readSets of its TX_READS events
    after,     \* write entries of the TX_COMMITTED events since its TX_BEGUN
    plan,      \* the journaled write entries of TX_COMMITTING
    rootLease, \* workspace:write:root
    forkLease, \* workspace:write:fork
    act,       \* the running commit: its transaction and place
    effects,   \* what its effects() returned: write set, read set or null
    snap,      \* the snapshot on which the observations were replayed
    todo,      \* entries that apply has still to copy
    seen,      \* history: what the agent really read before it wrote it
    blind,     \* history: what was read and left no evidence
    how,       \* history: validation of the commit
    work, outside, faults

disk == <<main, base, fork>>
evidence == <<closed, tracking, atime, reads>>
commit == <<act, effects, snap, todo>>
lease == <<rootLease, forkLease>>
bounds == <<work, outside, faults>>
history == <<seen, blind, how, bounds>>
vars == <<disk, journal, evidence, after, plan, lease, commit, history>>

Entry == Path \cup {Dir}
Change == [path : Path, status : {"A", "D", "M"}]
Journal == {"none", "captured", "begun", "conflicted", "committing", "committed",
            "aborted", "void"}
Place == {"idle", "effects", "validate", "replay", "recheck", "apply"}
Idle == [tx |-> NoTx, at |-> "idle"]
NoEffects == [writes |-> {}, reads |-> {}, known |-> TRUE]

\* diffTrees: the paths in which two trees differ, and how.
Diff(from, to) ==
    {[path |-> p, status |-> IF from[p] = "absent" THEN "A"
                             ELSE IF to[p] = "absent" THEN "D" ELSE "M"] :
        p \in {q \in Path : from[q] # to[q]}}

Paths(changes) == {c.path : c \in changes}

Init ==
    /\ main = [p \in Path |-> IF p \in Present THEN "base" ELSE "absent"]
    /\ base = [t \in Tx |-> main]
    /\ fork = [t \in Tx |-> main]
    /\ journal = [t \in Tx |-> "none"]
    /\ closed \in BOOLEAN
    /\ tracking \in {"atime", "unobserved"}
    /\ atime = [t \in Tx |-> {}]
    /\ reads = [t \in Tx |-> {}]
    /\ after = [t \in Tx |-> {}]
    /\ plan = [t \in Tx |-> {}]
    /\ rootLease = NoTx
    /\ forkLease = [t \in Tx |-> FALSE]
    /\ act = Idle /\ effects = NoEffects /\ snap = [t \in Tx |-> main] /\ todo = {}
    /\ seen = [t \in Tx |-> {}]
    /\ blind = [t \in Tx |-> {}]
    /\ how = [t \in Tx |-> "none"]
    /\ work = [t \in Tx |-> 0] /\ outside = 0 /\ faults = 0

\* apply() is one synchronous job: nothing else of the kernel runs during it.
Free == act.at # "apply"

-----------------------------------------------------------------------------
\* The life of a transaction before its commit.

\* begin: captureSnapshot under the lease of the root, or a saved snapshot.
Capture(t) ==
    /\ Free /\ journal[t] = "none"
    /\ \/ rootLease = NoTx /\ base' = [base EXCEPT ![t] = main]
       \/ \E u \in Tx \ {t} :
             journal[u] # "none" /\ base' = [base EXCEPT ![t] = base[u]]
    /\ journal' = [journal EXCEPT ![t] = "captured"]
    /\ UNCHANGED <<main, fork, evidence, after, plan, lease, commit, history>>

\* begin, after its awaits: the fork is made and its access times are set
\* back; TX_BEGUN is last.
Begun(t) ==
    /\ Free /\ journal[t] = "captured"
    /\ journal' = [journal EXCEPT ![t] = "begun"]
    /\ fork' = [fork EXCEPT ![t] = base[t]]
    /\ UNCHANGED <<main, base, evidence, after, plan, lease, commit, history>>

\* One more step of the agent in its fork: a process takes the lease of the fork, a
\* tool of the host runs while the host does not wait for this commit.
Work(t) ==
    /\ Free /\ journal[t] = "begun" /\ ~forkLease[t]
    /\ closed => act.tx # t
    /\ work[t] < MaxWork[t]
    /\ work' = [work EXCEPT ![t] = @ + 1]

\* It reads a file or lists the directory.
\* A file that the transaction wrote shows nothing of the workspace.
Read(t, e) ==
    /\ Work(t) /\ e \notin atime[t]
    /\ e \in Path => fork[t][e] = base[t][e] /\ fork[t][e] # "absent"
    /\ atime' = [atime EXCEPT ![t] = @ \cup {e}]
    /\ seen' = [seen EXCEPT ![t] = @ \cup {e}]
    /\ blind' = [blind EXCEPT ![t] = @ \ {e}]
    /\ UNCHANGED <<disk, journal, closed, tracking, reads, after, plan, lease, commit,
                   how, outside, faults>>

\* The entries whose modification time becomes later than their access time when p
\* gets the content v: p itself, and the directory when an entry is made or removed,
\* or when the writer puts a new file in the place of the old one.
Touched(t, p, v) ==
    IF (fork[t][p] = "absent") # (v = "absent") THEN {{p, Dir}} ELSE {{p}, {p, Dir}}

\* It writes, removes or restores a file.  What it touches does not look read any
\* more, the listing of the directory included.
Write(t, p) ==
    /\ Work(t)
    /\ \E v \in {t, "absent", base[t][p]} : \E lost \in Touched(t, p, v) :
          /\ fork[t][p] # v /\ fork' = [fork EXCEPT ![t][p] = v]
          /\ atime' = [atime EXCEPT ![t] = @ \ lost]
          /\ blind' = [blind EXCEPT ![t] = @ \cup ((atime[t] \cap lost) \ reads[t])]
    /\ UNCHANGED <<main, base, journal, closed, tracking, reads, after, plan, lease, commit,
                   seen, how, outside, faults>>

\* What the model keeps of a transaction that is over, or durable: nothing of its
\* evidence, which no later step looks at.
Forget(t) ==
    /\ atime' = [atime EXCEPT ![t] = {}]
    /\ reads' = [reads EXCEPT ![t] = {}]
    /\ after' = [after EXCEPT ![t] = {}]
    /\ seen' = [seen EXCEPT ![t] = {}]
    /\ blind' = [blind EXCEPT ![t] = {}]
    /\ fork' = [fork EXCEPT ![t] = base[t]]
    /\ work' = [work EXCEPT ![t] = 0]
    /\ UNCHANGED <<closed, tracking>>

\* Mutant: the journaled evidence of earlier inspections is not joined.
TakeEvidenceAnew(t, failed) ==
    /\ reads' = [reads EXCEPT ![t] =
                    IF failed \/ tracking = "unobserved" THEN {} ELSE atime[t]]
    /\ atime' = [atime EXCEPT ![t] = {}]
    /\ blind' = [blind EXCEPT ![t] = IF failed THEN @ \cup (atime[t] \ reads[t]) ELSE @]

\* effects(): TX_READS joins the present evidence to the journaled one, git reads
\* every file, and the access times are set back.  A scan that fails records null.
TakeEvidence(t, failed) ==
    /\ reads' = [reads EXCEPT ![t] =
                    IF failed \/ tracking = "unobserved" THEN @ ELSE @ \cup atime[t]]
    /\ atime' = [atime EXCEPT ![t] = {}]
    /\ blind' = [blind EXCEPT ![t] = IF failed THEN @ \cup (atime[t] \ reads[t]) ELSE @]

\* inspect: the lease of the fork is held around all of it.
Inspect(t, failed) ==
    /\ Work(t)
    /\ TakeEvidence(t, failed)
    /\ UNCHANGED <<disk, journal, closed, tracking, after, plan, lease, commit, seen, how,
                   outside, faults>>

\* abort waits for its turn; a transaction that is committing refuses it.
Abort(t) ==
    /\ act = Idle /\ journal[t] \in {"begun", "conflicted"} /\ ~forkLease[t]
    /\ journal' = [journal EXCEPT ![t] = "aborted"]
    /\ Forget(t)
    /\ UNCHANGED <<main, base, plan, lease, commit, how, outside, faults>>

\* A managed operation writes to the root itself.
Outside(p) ==
    /\ Free /\ rootLease = NoTx /\ outside < MaxOutside
    /\ \E v \in {"outside", "absent"} : main[p] # v /\ main' = [main EXCEPT ![p] = v]
    /\ outside' = outside + 1
    /\ UNCHANGED <<base, fork, journal, evidence, after, plan, lease, commit, seen,
                   blind, how, work, faults>>

-----------------------------------------------------------------------------
\* commitSerialized.

\* commit of an open transaction takes target and source together, or throws.
Commit(t) ==
    /\ act = Idle /\ journal[t] = "begun" /\ rootLease = NoTx /\ ~forkLease[t]
    /\ rootLease' = t /\ forkLease' = [forkLease EXCEPT ![t] = TRUE]
    /\ act' = [tx |-> t, at |-> "effects"]
    /\ UNCHANGED <<disk, journal, evidence, after, plan, effects, snap, todo, history>>

\* effects(): readSet is null on an unobserved mount or after a failed scan;
\* pathDependencies is null after a failed scan only.
Effects(t, failed) ==
    /\ act = [tx |-> t, at |-> "effects"]
    /\ TakeEvidence(t, failed)
    /\ effects' = [writes |-> Diff(base[t], fork[t]),
                   reads  |-> IF failed \/ tracking = "unobserved" THEN {} ELSE reads'[t],
                   known  |-> ~failed]
    /\ how' = [how EXCEPT ![t] = IF failed \/ tracking = "unobserved"
                                 THEN "write_only" ELSE "files"]
    /\ act' = [act EXCEPT !.at = "validate"]
    /\ UNCHANGED <<disk, journal, closed, tracking, after, plan, lease, snap, todo, seen, bounds>>

\* intersect(): the entries of my read and write sets that the others' changes hit.
\* A listed directory is hit by additions and removals only.
Intersect(others) ==
    {c \in others : \/ c.path \in Paths(effects.writes)
                    \/ c.path \in effects.reads
                    \/ ~effects.known
                    \/ Dir \in effects.reads /\ c.status \in {"A", "D"}}

\* validate(): later commits, and changes of the root that no commit explains.
Conflicts(t) ==
    LET external == {c \in Diff(base[t], main) : c.path \notin Paths(after[t])}
    IN  Intersect(after[t]) \cup Intersect(external)

\* TX_COMMITTING: from here on the journal is the redo log.
Committing(t, writes) ==
    /\ journal' = [journal EXCEPT ![t] = "committing"]
    /\ plan' = [plan EXCEPT ![t] = writes]
    /\ todo' = writes
    /\ act' = [act EXCEPT !.at = "apply"]
    /\ effects' = NoEffects
    /\ Forget(t)

\* What a write entry of t leaves in the target.
Copied(t, c) == IF c.status = "D" THEN "absent" ELSE t

\* Contents with the write entries of t applied.
Overlay(t, contents, writes) ==
    [p \in Path |-> IF p \in Paths(writes)
                    THEN Copied(t, CHOOSE c \in writes : c.path = p)
                    ELSE contents[p]]

\* Leave the queue and give back what the commit holds.
Leave(t) ==
    /\ act' = Idle /\ effects' = NoEffects
    /\ rootLease' = IF rootLease = t THEN NoTx ELSE rootLease
    /\ forkLease' = [forkLease EXCEPT ![t] = FALSE]

\* No conflict.
Validated(t) ==
    /\ act = [tx |-> t, at |-> "validate"] /\ Conflicts(t) = {}
    /\ Committing(t, effects.writes)
    /\ UNCHANGED <<main, base, lease, snap, how, outside, faults>>

\* A conflict and no observations to replay: final.
Conflicted(t) ==
    /\ act = [tx |-> t, at |-> "validate"] /\ Conflicts(t) # {}
    /\ journal' = [journal EXCEPT ![t] = "conflicted"]
    /\ how' = [how EXCEPT ![t] = "none"]
    /\ Leave(t) /\ Forget(t)
    /\ UNCHANGED <<main, base, plan, snap, todo, outside, faults>>

\* validateByObservations: not for a path that both sides wrote, and not when a
\* process ran in the fork and may have read more than was logged.  The leases are
\* given back for the replay, which takes its own snapshot of the root.
StartReplay(t) ==
    /\ act = [tx |-> t, at |-> "validate"] /\ closed
    /\ Conflicts(t) # {} /\ Paths(Conflicts(t)) \cap Paths(effects.writes) = {}
    /\ act' = [act EXCEPT !.at = "replay"]
    /\ rootLease' = NoTx /\ forkLease' = [forkLease EXCEPT ![t] = FALSE]
    /\ UNCHANGED <<disk, journal, evidence, after, plan, effects, snap, todo, history>>

\* captureSnapshot of the root, under its lease.
ReplaySnapshot(t) ==
    /\ act = [tx |-> t, at |-> "replay"]
    /\ rootLease = NoTx
    /\ snap' = [snap EXCEPT ![t] = main]
    /\ act' = [act EXCEPT !.at = "recheck"]
    /\ UNCHANGED <<disk, journal, evidence, after, plan, lease, effects, todo, history>>

\* The observations differ, or the root is not what they were replayed on any more.
ReplayRefused(t) ==
    /\ act = [tx |-> t, at |-> "recheck"]
    /\ journal' = [journal EXCEPT ![t] = "conflicted"]
    /\ snap' = [snap EXCEPT ![t] = base[t]]
    /\ how' = [how EXCEPT ![t] = "none"]
    /\ Leave(t) /\ Forget(t)
    /\ UNCHANGED <<main, base, plan, todo, outside, faults>>

\* Mutant: the root is not compared with the replayed state again.
ReplayAcceptedUnchecked(t) ==
    /\ act = [tx |-> t, at |-> "recheck"] /\ rootLease = NoTx
    /\ rootLease' = t
    /\ how' = [how EXCEPT ![t] = "observations"]
    /\ Committing(t, Diff(snap[t], Overlay(t, snap[t], effects.writes)))
    /\ UNCHANGED <<main, base, forkLease, snap, outside, faults>>

\* They match, and under the lease of the root it still is the replayed state
\* (unchangedSince).  The write set is the difference that the replay made.
ReplayAccepted(t) ==
    /\ act = [tx |-> t, at |-> "recheck"] /\ rootLease = NoTx /\ main = snap[t]
    /\ rootLease' = t
    /\ how' = [how EXCEPT ![t] = "observations"]
    /\ Committing(t, Diff(snap[t], Overlay(t, snap[t], effects.writes)))
    /\ UNCHANGED <<main, base, forkLease, snap, outside, faults>>

\* apply(): one file.
Apply(t, c) ==
    /\ act = [tx |-> t, at |-> "apply"] /\ c \in todo
    /\ main' = [main EXCEPT ![c.path] = Copied(t, c)]
    /\ todo' = todo \ {c}
    /\ UNCHANGED <<base, fork, journal, evidence, after, plan, lease, act, effects,
                   snap, history>>

\* TX_COMMITTED, release and recovery of the fork.
Committed(t) ==
    /\ act = [tx |-> t, at |-> "apply"] /\ todo = {}
    /\ journal' = [journal EXCEPT ![t] = "committed"]
    /\ after' = [u \in Tx |-> IF journal[u] = "begun" THEN after[u] \cup plan[t]
                                                      ELSE after[u]]
    /\ plan' = [plan EXCEPT ![t] = {}]
    /\ Leave(t)
    /\ UNCHANGED <<disk, evidence, snap, todo, history>>

\* A copy fails, or TX_COMMITTED cannot be written: the leases stay.
ApplyFails(t) ==
    /\ act = [tx |-> t, at |-> "apply"] /\ faults < MaxFaults
    /\ act' = Idle /\ faults' = faults + 1 /\ todo' = {}
    /\ UNCHANGED <<disk, journal, evidence, after, plan, lease, effects, snap,
                   seen, blind, how, work, outside>>

\* commit() again: the journaled plan is copied from its beginning.
Redo(t) ==
    /\ act = Idle /\ journal[t] = "committing"
    /\ act' = [tx |-> t, at |-> "apply"]
    /\ rootLease' = t
    /\ todo' = plan[t]
    /\ UNCHANGED <<disk, journal, evidence, after, plan, forkLease, effects, snap,
                   history>>

\* Mutant: the rebuild looks at leases and operations only.
CrashForgetsJournal ==
    /\ faults < MaxFaults /\ faults' = faults + 1
    /\ act' = Idle /\ effects' = NoEffects /\ todo' = {}
    /\ rootLease' = NoTx /\ forkLease' = [t \in Tx |-> FALSE]
    /\ snap' = [t \in Tx |-> IF act = [tx |-> t, at |-> "recheck"] THEN base[t] ELSE snap[t]]
    /\ journal' = [t \in Tx |-> IF journal[t] = "captured" THEN "void" ELSE journal[t]]
    /\ UNCHANGED <<disk, evidence, after, plan, seen, blind, how, work, outside>>

\* The owner dies; the next one rebuilds the isolation from the journal.  A
\* transaction whose TX_BEGUN is not written cannot be begun again: its snapshot
\* has taken the name.
Crash ==
    /\ faults < MaxFaults /\ faults' = faults + 1
    /\ act' = Idle /\ effects' = NoEffects /\ todo' = {}
    /\ LET pending == {t \in Tx : journal[t] = "committing"}
       IN  /\ rootLease' = IF pending = {} THEN NoTx ELSE CHOOSE t \in pending : TRUE
           /\ forkLease' = [t \in Tx |-> t \in pending]
    /\ snap' = [t \in Tx |-> IF act = [tx |-> t, at |-> "recheck"] THEN base[t] ELSE snap[t]]
    /\ journal' = [t \in Tx |-> IF journal[t] = "captured" THEN "void" ELSE journal[t]]
    /\ UNCHANGED <<disk, evidence, after, plan, seen, blind, how, work, outside>>

\* The replay cannot have the lease of the root: commit rejects, and the
\* transaction stays open.
ReplayRejects(t) ==
    /\ act.tx = t /\ act.at \in {"replay", "recheck"}
    /\ snap' = [snap EXCEPT ![t] = base[t]]
    /\ how' = [how EXCEPT ![t] = "none"]
    /\ Leave(t)
    /\ UNCHANGED <<disk, journal, evidence, after, plan, todo, seen, blind, bounds>>

Next ==
    \/ Crash
    \/ \E p \in Path : Outside(p)
    \/ \E t \in Tx :
          \/ Capture(t) \/ Begun(t) \/ Abort(t)
          \/ \E e \in Entry : Read(t, e)
          \/ \E p \in Path : Write(t, p)
          \/ \E failed \in BOOLEAN : Inspect(t, failed) \/ Effects(t, failed)
          \/ Commit(t) \/ Validated(t) \/ Conflicted(t)
          \/ StartReplay(t) \/ ReplaySnapshot(t) \/ ReplayRejects(t)
          \/ ReplayRefused(t) \/ ReplayAccepted(t)
          \/ \E c \in todo : Apply(t, c)
          \/ Committed(t) \/ ApplyFails(t) \/ Redo(t)

Spec == Init /\ [][Next]_vars

-----------------------------------------------------------------------------
TypeOK ==
    /\ main \in Contents
    /\ base \in [Tx -> Contents] /\ fork \in [Tx -> Contents]
    /\ journal \in [Tx -> Journal]
    /\ closed \in BOOLEAN /\ tracking \in {"atime", "unobserved"}
    /\ atime \in [Tx -> SUBSET Entry] /\ reads \in [Tx -> SUBSET Entry]
    /\ after \in [Tx -> SUBSET Change] /\ plan \in [Tx -> SUBSET Change]
    /\ rootLease \in Tx \cup {NoTx} /\ forkLease \in [Tx -> BOOLEAN]
    /\ act \in [tx : Tx \cup {NoTx}, at : Place]
    /\ effects \in [writes : SUBSET Change, reads : SUBSET Entry, known : BOOLEAN]
    /\ snap \in [Tx -> Contents] /\ todo \subseteq Change
    /\ seen \in [Tx -> SUBSET Entry] /\ blind \in [Tx -> SUBSET Entry]
    /\ how \in [Tx -> {"none", "files", "write_only", "observations"}]
    /\ work \in [Tx -> Nat] /\ outside \in 0 .. MaxOutside /\ faults \in 0 .. MaxFaults

\* Between TX_COMMITTING and TX_COMMITTED, crashes and failed copies included, the
\* commit has the lease of its target, and only one transaction is there: nobody
\* meets a half-copied workspace, and a redo overwrites nobody's later work.
HalfCopyIsIsolated ==
    \A t \in Tx : journal[t] = "committing" =>
        /\ rootLease = t
        /\ how[t] # "observations" => forkLease[t]

\* The step that makes t durable.
Decides(t) == journal[t] # "committing" /\ journal'[t] = "committing"

\* The entries of the directory, as far as a later commit's own changes do not
\* explain them, are those of the snapshot of t.
SameListing(t) ==
    \A p \in Path \ Paths(after[t]) : (main[p] = "absent") = (base[t][p] = "absent")

\* A commit whose validation says "files" read nothing that has changed since: every
\* file it read, and the entries of the directory if it listed it, are in the main
\* workspace as in its snapshot.  Not covered: what left no evidence (blind), which
\* after an entry was made or removed includes the listing, and entries at a path
\* that a later transaction modified in place.
ReadsStillHold ==
    [][\A t \in Tx : Decides(t) /\ how'[t] = "files" =>
        /\ \A p \in (seen[t] \cap Path) \ blind[t] : main[p] = base[t][p]
        /\ Dir \in seen[t] \ blind[t] => SameListing(t)]_vars

\* "A file that is read and then written leaves the evidence of the write only; it
\* is in the write set, so the verdict is not affected" (read-tracking.ts:15).  For a
\* directory that is refuted: making or removing a file hides that it was listed, and
\* it is in no write set.
ListingsStillHold ==
    [][\A t \in Tx : Decides(t) /\ how'[t] = "files" /\ Dir \in seen[t]
                          => SameListing(t)]_vars

\* A commit overwrites no change that came after its snapshot.
NoLostUpdate ==
    [][\A t \in Tx : Decides(t) =>
        \A c \in plan'[t] : main[c.path] = base[t][c.path]]_vars

-----------------------------------------------------------------------------
\* The abstract workspace: a journaled commit counts as done.
Pending == {t \in Tx : journal[t] = "committing"}

Ws ==
    IF Pending = {} THEN main
    ELSE LET t == CHOOSE t \in Pending : TRUE IN Overlay(t, main, plan[t])

\* The state on which the observations of t were found to hold.
Replayed ==
    [t \in Tx |-> IF how[t] = "observations" \/ act = [tx |-> t, at |-> "recheck"]
                  THEN {snap[t]} ELSE {}]

Phase ==
    [t \in Tx |-> CASE journal[t] = "none" -> "none"
                    [] journal[t] \in {"captured", "begun"} -> "open"
                    [] OTHER -> "over"]

Abstract == INSTANCE AtomicWorkspace WITH
    ws <- Ws, start <- base, replayed <- Replayed, phase <- Phase

\* Forks, journal, leases, copies and crashes together implement transactions
\* whose writes arrive at once over what the transaction, or its replay, found.
CommitIsAtomic == Abstract!Spec

\* The whole state is well formed, and a half-copied workspace is isolated.
CopyIsIsolated ==
    /\ TypeOK
    /\ HalfCopyIsIsolated
=============================================================================
