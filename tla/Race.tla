-------------------------------- MODULE Race --------------------------------
(***************************************************************************)
(* Agents in shadow worktrees (src/src/gateway/virtual-workspace.ts).      *)
(* "shadow" is runInVirtualWorkspace: one agent, a gate, a commit.  "merge"*)
(* and "winner" are raceAgentsInVirtualWorkspaces: candidates start from   *)
(* one snapshot, run in parallel, pass a gate that is run once per tree,   *)
(* and are reconciled in their order.  Workspace transactions are used as  *)
(* their own module shows them to behave: a commit is one step.            *)
(*                                                                         *)
(* A tree is a function from paths to values.  "tidy" differs from "base"  *)
(* in what the early cutoff leaves out; "none" is no file, and the paths   *)
(* of New have none before somebody creates it; "torn" is what a copy      *)
(* leaves that fails.  Whether an agent has listed the directory of these  *)
(* paths is one bit.                                                       *)
(***************************************************************************)
EXTENDS Integers, FiniteSets, TLC

CONSTANTS N,            \* candidates
          File,
          New,          \* those that are not in the workspace yet
          MaxForeign,   \* edits of the workspace by others
          MaxGateWrites \* files written by gates

ASSUME RaceAssumption ==
    N \in Nat \ {0} /\ New \subseteq File /\ MaxForeign \in Nat /\ MaxGateWrites \in Nat

Content == {"none", "base", "tidy", "x", "y", "torn"}
Written == {"tidy", "x"}
Meaning(v) == IF v = "tidy" THEN "base" ELSE v
Tree == [File -> Content]
Base == [p \in File |-> IF p \in New THEN "none" ELSE "base"]

VARIABLES
    mode,      \* "shadow" | "merge" | "winner"
    gated,     \* there is a gate command
    tracked,   \* the mount shows what an agent reads
    ws,        \* the workspace
    origin,    \* the snapshot that all transactions start from
    pc,        \* the coordinator
    next,      \* the candidate it reconciles
    cand,      \* the candidates
    verdict,   \* what the gate said, by tree: the operation is keyed by the tree
    foreign,   \* paths that others changed since the snapshot
    spent

raceVars == <<mode, gated, tracked, ws, origin, pc, next, cand, verdict, foreign, spent>>
config == <<mode, gated, tracked>>

Cands == IF mode = "shadow" THEN {1} ELSE 1..N

\* tree is the fork as it was inspected and fingerprinted, fork as it will be
\* committed; put is what its commit writes into the workspace.
NoCand == [at |-> "none", ok |-> FALSE, reads |-> {}, listed |-> FALSE, tree |-> Base, fork |-> Base,
           put |-> {}, tx |-> "none", run |-> "none", dir |-> FALSE]

RaceInit ==
    /\ mode \in {"shadow", "merge", "winner"}
    /\ gated \in BOOLEAN
    /\ tracked \in BOOLEAN
    /\ ws = Base
    /\ origin = Base
    /\ pc = "capture"
    /\ next = 1
    /\ cand = [c \in 1..N |-> NoCand]
    /\ verdict = <<>>
    /\ foreign = {}
    /\ spent = [edits |-> 0, gate |-> 0]

\* What the agent wrote, and what the fork differs in when it is committed
Wrote(c) == {p \in File : cand[c].tree[p] # origin[p]}
Writes(c) == {p \in File : cand[c].fork[p] # origin[p]}
Merged == {c \in 1..N : cand[c].tx = "committed"}

\* Those that have written into the workspace, one perhaps not to the end
Placed == {c \in 1..N : cand[c].tx \in {"committed", "committing"}}

(***************************************************************************)
(* Up to the reconciliation                                                *)
(***************************************************************************)
\* The snapshot is the transaction's own.
ShadowBegin ==
    /\ mode = "shadow"
    /\ pc = "capture"
    /\ origin' = ws
    /\ foreign' = {}
    /\ cand' = [cand EXCEPT ![1] = [@ EXCEPT !.at = "open", !.tree = ws, !.fork = ws,
                                             !.tx = "open", !.run = "running", !.dir = TRUE]]
    /\ pc' = "run"
    /\ UNCHANGED <<config, ws, next, verdict, spent>>

CaptureBase ==
    /\ mode # "shadow"
    /\ pc = "capture"
    /\ origin' = ws
    /\ foreign' = {}
    /\ pc' = "open"
    /\ UNCHANGED <<config, ws, next, cand, verdict, spent>>

\* saveRun, mkdtemp, beginWorkspaceTransaction
Open(c) ==
    /\ pc = "open"
    /\ cand[c].at = "none"
    /\ cand' = [cand EXCEPT ![c] = [@ EXCEPT !.at = "open", !.tree = origin, !.fork = origin,
                                             !.tx = "open", !.run = "running", !.dir = TRUE]]
    /\ UNCHANGED <<config, ws, origin, pc, next, verdict, foreign, spent>>

\* The first Promise.all
AllOpen ==
    /\ pc = "open"
    /\ \A c \in Cands : cand[c].at = "open"
    /\ pc' = "run"
    /\ UNCHANGED <<config, ws, origin, next, cand, verdict, foreign, spent>>

\* Candidate c once its agent has ended, with what it wrote and how it had read.  A
\* file that it read and then wrote is evidence of a write only.
Worked(c, ok, reads, listed, new) ==
    LET tree == [p \in File |-> IF p \in DOMAIN new THEN new[p] ELSE origin[p]] IN
    [cand[c] EXCEPT !.at = IF ok /\ gated THEN "gate" ELSE "ready", !.ok = ok, !.reads = reads,
                    !.listed = listed, !.tree = tree, !.fork = tree]

\* wrapAgent in the fork, and the inspection of its effects (nobody asks what an
\* agent that fails has done)
Agent(c) ==
    /\ pc = "run"
    /\ cand[c].at = "open"
    /\ \E ok \in BOOLEAN, paths \in SUBSET File :
       \E new \in {f \in [paths -> Written] : \A p \in paths : origin[p] = "none" => f[p] = "x"},
          reads \in SUBSET {p \in File \ paths : tracked /\ origin[p] # "none"},
          listed \in IF tracked THEN BOOLEAN ELSE {FALSE} :
          /\ ok \/ (paths = {} /\ reads = {} /\ ~listed)
          /\ cand' = [cand EXCEPT ![c] = Worked(c, ok, reads, listed, new)]
    /\ UNCHANGED <<config, ws, origin, pc, next, verdict, foreign, spent>>

\* executeWorkspaceCommand: a tree that has been judged is not judged again.
GateKnown(c) ==
    /\ pc = "run"
    /\ cand[c].at = "gate"
    /\ cand[c].tree \in DOMAIN verdict
    /\ cand' = [cand EXCEPT ![c].at = "ready"]
    /\ UNCHANGED <<config, ws, origin, pc, next, verdict, foreign, spent>>

\* The fork of c with what its gate wrote: something of its own, or what was there
\* before the agent.
GateWrote(c) ==
    {cand[c].fork} \cup
    {[cand[c].fork EXCEPT ![p] = v] :
        p \in {q \in File : spent.gate < MaxGateWrites /\ origin[q] # "none"}, v \in {"y", "base"}}

\* The gate runs in the fork, and what it writes there stays.  A gate of which it is
\* not known how it ended has not passed.
Gate(c) ==
    /\ pc = "run"
    /\ cand[c].at = "gate"
    /\ cand[c].tree \notin DOMAIN verdict
    /\ \E v \in {"passed", "rejected"} : verdict' = (cand[c].tree :> v) @@ verdict
    /\ \E f \in GateWrote(c) :
          /\ cand' = [cand EXCEPT ![c] = [@ EXCEPT !.at = "ready", !.fork = f]]
          /\ spent' = [spent EXCEPT !.gate = IF f = cand[c].fork THEN @ ELSE @ + 1]
    /\ UNCHANGED <<config, ws, origin, pc, next, foreign>>

\* The second Promise.all
AllReady ==
    /\ pc = "run"
    /\ \A c \in Cands : cand[c].at = "ready"
    /\ pc' = "reconcile"
    /\ UNCHANGED <<config, ws, origin, next, cand, verdict, foreign, spent>>

(***************************************************************************)
(* Reconciliation                                                          *)
(***************************************************************************)
Passed(c) == gated => verdict[cand[c].tree] = "passed"

\* abortWorkspaceTransaction, reportRunFailed, and the finally that removes the fork
Close(c, how) ==
    [cand EXCEPT ![c] = [@ EXCEPT !.at = how, !.tx = "aborted", !.run = "failed", !.dir = FALSE]]

\* The transaction's validation: what others committed since the snapshot, and what
\* the workspace differs in.
Changed == {p \in File : ws[p] # origin[p]} \cup UNION {cand[d].put : d \in Merged}

\* What changed under its reads: a file that it read, or a new name where it listed.
Conflicting(c) ==
    \/ Changed \cap cand[c].reads # {}
    \/ cand[c].listed /\ \E p \in Changed : origin[p] = "none"

\* Mutant: a read that others have overwritten is no conflict.
MayCommitBlindly(c) == Changed \cap Writes(c) = {}

\* A conflict of reads is resolved by observing the files again, on the workspace as
\* it is now.  The observations hold no listing, so that one is resolved by nothing.
MayCommit(c) ==
    /\ Changed \cap Writes(c) = {}
    /\ \A p \in Changed \cap cand[c].reads : Meaning(ws[p]) = Meaning(origin[p])

\* Once its observations have been replayed, what a candidate commits is what the
\* replay did: the writes that were inspected, with what the fork holds now.
Put(c) == IF Conflicting(c) THEN {p \in Wrote(c) : cand[c].fork[p] # ws[p]} ELSE Writes(c)

Fate(c) ==
    IF ~cand[c].ok THEN "agent_failed"
    ELSE IF ~Passed(c) THEN "gate_rejected"
    ELSE IF mode = "winner" /\ Merged # {} THEN "race_loser"
    ELSE IF ~MayCommit(c) THEN "conflict" ELSE "committed"

\* The workspace with the writes of c, all or some
With(c, done) == [p \in File |-> IF p \in done THEN cand[c].fork[p] ELSE ws[p]]

\* What becomes of candidate c: its writes in the workspace, or nothing.
Settle(c) ==
    IF Fate(c) = "committed"
    THEN /\ ws' = With(c, Put(c))
         /\ cand' = [cand EXCEPT ![c] = [@ EXCEPT !.at = "committed", !.put = Put(c), !.tx = "committed",
                                                  !.run = "succeeded", !.dir = FALSE]]
    ELSE cand' = Close(c, Fate(c)) /\ UNCHANGED ws

ShadowSettle ==
    /\ mode = "shadow"
    /\ pc = "reconcile"
    /\ Settle(1)
    /\ pc' = "returned"
    /\ UNCHANGED <<config, origin, next, verdict, foreign, spent>>

Reconcile ==
    /\ mode # "shadow"
    /\ pc = "reconcile"
    /\ next \in Cands
    /\ next' = next + 1
    /\ Settle(next)
    /\ UNCHANGED <<config, origin, pc, verdict, foreign, spent>>

Return ==
    /\ pc = "reconcile"
    /\ next \notin Cands
    /\ pc' = "returned"
    /\ UNCHANGED <<config, ws, origin, next, cand, verdict, foreign, spent>>

(***************************************************************************)
(* Something throws                                                        *)
(***************************************************************************)
\* The fork of c is removed; a transaction that is neither committed nor aborted
\* stays as it is.
Dropped(c, tx, put) == [cand EXCEPT ![c] = [@ EXCEPT !.tx = tx, !.put = put, !.dir = FALSE]]

\* Before the reconciliation a race stops where it is.  A shadow run tries to abort,
\* and whether that succeeds or not it removes the fork.
ThrowEarly ==
    /\ pc \in {"capture", "open", "run"}
    /\ IF mode = "shadow"
       THEN \E tx \in {cand[1].tx} \cup (IF cand[1].tx = "open" THEN {"aborted"} ELSE {}) :
               cand' = Dropped(1, tx, {})
       ELSE UNCHANGED cand
    /\ UNCHANGED ws

\* Before TX_COMMITTING, or around the abort of what is not to be committed.
ThrowBefore(c) ==
    /\ \E tx \in {"open"} \cup (IF mode = "shadow" \/ Fate(c) # "committed" THEN {"aborted"} ELSE {}) :
          cand' = Dropped(c, tx, {})
    /\ UNCHANGED ws

\* While the writes are applied: what is done stays, and a transaction that is
\* committing is not aborted.
ThrowApplying(c) ==
    /\ Fate(c) = "committed"
    /\ \E done \in SUBSET Put(c) : \E torn \in {{}} \cup {{p} : p \in Put(c) \ done} :
          ws' = [p \in File |-> IF p \in torn THEN "torn" ELSE With(c, done)[p]]
    /\ cand' = Dropped(c, "committing", Put(c))

\* After TX_COMMITTED: the run is not told.
ThrowAfter(c) ==
    /\ Fate(c) = "committed"
    /\ ws' = With(c, Put(c))
    /\ cand' = Dropped(c, "committed", Put(c))

Throw ==
    /\ \/ ThrowEarly
       \/ /\ pc = "reconcile"
          /\ next \in Cands
          /\ ThrowBefore(next) \/ ThrowApplying(next) \/ ThrowAfter(next)
    /\ pc' = "thrown"
    /\ UNCHANGED <<config, origin, next, verdict, foreign, spent>>

ForeignEdit(p) ==
    /\ pc \notin {"returned", "thrown"}
    /\ spent.edits < MaxForeign
    /\ spent' = [spent EXCEPT !.edits = @ + 1]
    /\ \E v \in IF ws[p] = "none" THEN {"y"} ELSE {"tidy", "y"} : ws' = [ws EXCEPT ![p] = v]
    /\ foreign' = foreign \cup {p}
    /\ UNCHANGED <<config, origin, pc, next, cand, verdict>>

Progress ==
    \/ ShadowBegin \/ ShadowSettle \/ CaptureBase \/ AllOpen \/ AllReady \/ Reconcile \/ Return
    \/ \E c \in Cands : Open(c) \/ Agent(c) \/ GateKnown(c) \/ Gate(c)

RaceNext == Progress \/ Throw \/ \E p \in File : ForeignEdit(p)

RaceSpec == RaceInit /\ [][RaceNext]_raceVars

(***************************************************************************)
(* Properties                                                              *)
(***************************************************************************)
RaceTypeOK ==
    /\ ws \in Tree /\ origin \in Tree
    /\ \A c \in 1..N : /\ cand[c].tree \in Tree /\ cand[c].fork \in Tree /\ cand[c].put \subseteq File
                       /\ cand[c].tx \in {"none", "open", "aborted", "committing", "committed"}
                       /\ cand[c].run = "succeeded" => cand[c].tx = "committed"

\* What a gate has put back that an agent had written
Undone == UNION {Wrote(c) \ Writes(c) : c \in Placed}

\* No committed work is lost to another candidate: what a candidate wrote is in
\* the workspace as long as nobody outside the race changed that path and no gate
\* undid a write to it, and a file that it had read meant the same when it was
\* committed as when it was read.  A replay loses no write of an agent.
MergeIsSerial ==
    /\ \A c \in Merged : /\ Wrote(c) \subseteq cand[c].put \cup Undone
                         /\ \A p \in cand[c].put : p \in foreign \cup Undone \/ ws[p] = cand[c].fork[p]
    /\ \A c, d \in Merged : c < d =>
          \A p \in (cand[c].put \cap cand[d].reads) \ (foreign \cup Undone) :
             Meaning(cand[c].fork[p]) = Meaning(origin[p])

\* What is in the workspace, however a commit ended, and was not there before and is
\* of nobody outside, is from the fork of a candidate whose agent succeeded and whose
\* tree the gate let pass, judged for this or for an identical candidate.
GateGuards ==
    \A p \in File \ foreign :
       \/ ws[p] = origin[p]
       \/ \E c \in Placed : /\ p \in cand[c].put /\ cand[c].ok
                            /\ gated => verdict[cand[c].tree] = "passed"
                            /\ \/ ws[p] = cand[c].fork[p]
                               \/ ws[p] = "torn" /\ cand[c].tx = "committing"

\* A race for one winner has at most one, and none only if nobody was fit or
\* somebody outside changed the workspace meanwhile.
WinnerTakesAll ==
    mode = "winner" =>
        /\ Cardinality(Placed) <= 1
        /\ pc = "returned" /\ Merged = {} /\ foreign = {} =>
              \A c \in Cands : ~cand[c].ok \/ ~Passed(c)

\* A call that returns leaves nothing behind: no transaction is open, no run
\* without an end, no fork on the disk, no file half written.  A shadow run removes
\* its fork also when it throws.
ReturnClosesAll ==
    /\ pc = "returned" => \A c \in Cands : /\ cand[c].tx \in {"aborted", "committed"}
                                           /\ cand[c].run \in {"failed", "succeeded"}
                                           /\ ~cand[c].dir
    /\ pc # "thrown" => \A p \in File : ws[p] # "torn"
    /\ pc = "thrown" /\ mode = "shadow" => ~cand[1].dir

\* Whatever is merged or wins, the workspace is what the candidates give one
\* after the other, through their gates, and nothing is left open.
RaceIsSerial ==
    /\ RaceTypeOK
    /\ MergeIsSerial
    /\ GateGuards
    /\ WinnerTakesAll
    /\ ReturnClosesAll

(***************************************************************************)
(* What the code says of itself and does not keep                          *)
(***************************************************************************)
\* The fork is the redo source of a transaction that is committing
\* (transactions.ts:310, 338) and must outlast it.
RedoSourceKept == \A c \in 1..N : cand[c].tx = "committing" => cand[c].dir

\* The gate has let pass what is committed (virtual-workspace.ts:239-241).
OnlyJudgedTrees == \A c \in Merged : gated => cand[c].fork = cand[c].tree

\* The observations are all that the agent has read (virtual-workspace.ts:199): a
\* directory that it listed has no new names when it is committed.
ListingsMeantTheSame ==
    \A c, d \in Merged : c < d /\ cand[d].listed => \A p \in cand[c].put : origin[p] # "none"

\* A merge takes nothing back of another one, even where a gate has undone a write.
NoMergeIsLost == \A c \in Merged : \A p \in cand[c].put \ foreign : ws[p] = cand[c].fork[p]
=============================================================================
