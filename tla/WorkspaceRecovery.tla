-------------------------- MODULE WorkspaceRecovery --------------------------
(***************************************************************************)
(* The workspace of a stopped agent, rebuilt from its newest checkpoint    *)
(* whose observations still hold (src/src/agents/workspace-recovery.ts,    *)
(* src/src/agents/runtime.ts, src/src/workspace/observation-replay.ts), and the index of what a       *)
(* transaction observed (src/src/workspace/incremental-index.ts).  Pure    *)
(* operators.                                                              *)
(*                                                                         *)
(* An entry of a log has a kind, the result hash that was recorded (NoHash *)
(* for none) and a cutoff hash.  The replay is deterministic: what a step  *)
(* sees on a fork of the baseline depends on the mutations up to it.       *)
(***************************************************************************)
EXTENDS Integers, Sequences, SequencesExt, FiniteSets, TLC

NoHash == -1

\* The host's replay callback: what entry i sees.
SeenHash(log, i) == Cardinality({j \in 1..i : log[j].kind = "mutate"}) % 2
SeenCutoff(log, i) == 0

\* One step of replayObservationLog holds: nothing to compare, the same result,
\* or the same projection of it (Early Cutoff).
StepHolds(log, i) ==
    \/ log[i].kind = "mutate" /\ log[i].hash = NoHash
    \/ SeenHash(log, i) = log[i].hash
    \/ log[i].cut # NoHash /\ SeenCutoff(log, i) = log[i].cut

\* It stops at the first step that throws (failing; 0: none) or does not hold.
replayObservationLog(log, failing) ==
    LET bad == {i \in 1..Len(log) : i = failing \/ ~ StepHolds(log, i)}
        at == CHOOSE i \in bad : \A j \in bad : i <= j
    IN  [matched |-> bad = {}, divergedAt |-> IF bad = {} THEN 0 ELSE at, error |-> bad # {} /\ at = failing]

\* A closed log has a result hash for every observation.
IsClosed(log) == \A i \in 1..Len(log) : log[i].kind = "observe" => log[i].hash # NoHash

\* A log that begins with a prefix that was disproved on the same tree.
KnownFailure(known, log) == \E p \in known : IsPrefix(p, log)

\* Mutant: a step that threw is evidence too.
LearnAlways(known, log, r) == known \cup {SubSeq(log, 1, r.divergedAt)}

\* What a rejected replay proves: nothing, if it threw.
Learn(known, log, r) == IF r.error THEN known ELSE known \cup {SubSeq(log, 1, r.divergedAt)}

\* pending: a candidate is open, as the code sees it; open: the open transactions;
\* base: the baseline exists; threw: the checkpoints whose replay threw.
FreshSearch == [status |-> "searching", seq |-> 0, attempts |-> 0, open |-> {}, known |-> {}, base |-> FALSE,
                pending |-> FALSE, threw |-> {}]

\* The abort of the transaction may throw.
Discard(st, aborts) ==
    IF aborts THEN [st EXCEPT !.open = @ \ {st.attempts}, !.pending = FALSE]
    ELSE [st EXCEPT !.status = "threw"]

\* A candidate: begin, replay on its fork, keep it or discard it.  fault names the
\* attempt in which begin, the last step of the replay, or the abort throws.
TryCandidate(st, log, seq, fault) ==
    LET n == st.attempts + 1
        begun == [st EXCEPT !.attempts = n, !.pending = TRUE]
        r == replayObservationLog(log, IF fault = <<"replay", n>> THEN Len(log) ELSE 0)
        opened == [begun EXCEPT !.open = @ \cup {n}, !.base = TRUE]
    IN  IF fault = <<"begin", n>> THEN [begun EXCEPT !.status = "threw"]
        ELSE IF r.matched THEN [opened EXCEPT !.status = "restored", !.seq = seq]
        ELSE Discard([opened EXCEPT !.known = Learn(@, log, r),
                                    !.threw = IF r.error THEN @ \cup {seq} ELSE @],
                     fault # <<"abort", n>>)

\* One round of the loop of prepareCandidates, over the checkpoint seq.
Candidate(st, logs, seq, deterministic, fault) ==
    IF st.status # "searching" THEN st
    ELSE IF ~ IsClosed(logs[seq]) THEN [st EXCEPT !.status = "threw"]
    ELSE IF deterministic /\ KnownFailure(st.known, logs[seq]) THEN st
    ELSE TryCandidate(st, logs[seq], seq, fault)

\* prepareCandidates: newest checkpoint first; at the end the shared baseline is
\* pruned unless a candidate is pending, and the pruning may throw.
prepareCandidates(logs, deterministic, fault) ==
    LET st == FoldLeft(LAMBDA acc, seq : Candidate(acc, logs, seq, deterministic, fault),
                       FreshSearch, Reverse([i \in 1..Len(logs) |-> i]))
        prunes == st.base /\ ~st.pending
        fails == prunes /\ fault[1] = "prune"
    IN  [status |-> IF fails THEN "threw" ELSE IF st.status = "searching" THEN "no_valid_checkpoint" ELSE st.status,
         seq |-> st.seq, open |-> st.open, threw |-> st.threw, base |-> IF prunes THEN fails ELSE st.base,
         attempts |-> st.attempts]

\* recoverAgentWorkspace: the runtime binds the candidate, or cannot, or finds that
\* the agent was interrupted during the preparation.  Unbound it discards it: abort,
\* then prune, and either may throw.  After an interruption it returns nothing, and
\* the result is that of prepareCandidates.
recoverAgentWorkspace(logs, deterministic, fault, ending) ==
    LET p == prepareCandidates(logs, deterministic, fault)
        bound == [bound |-> ending = "binds" /\ p.status = "restored"]
        aborts == fault # <<"abort", p.attempts>>
        prunes == aborts /\ fault[1] # "prune"
    IN  IF ending = "binds" \/ p.status # "restored" THEN p @@ bound
        ELSE [p EXCEPT !.status = IF ending = "interrupted" /\ prunes THEN @ ELSE "threw",
                       !.open = IF aborts THEN {} ELSE @, !.base = ~prunes] @@ bound

-----------------------------------------------------------------------------
(* The incremental index.  A set that could not be observed is <<>>, one   *)
(* that was is <<S>>.                                                      *)

buildWorkspaceIncrementalIndex(in) ==
    [reads |-> in.reads, found |-> in.found, deps |-> in.deps, writes |-> in.writes, manifest |-> in.manifest,
     coverage |-> IF <<>> \in {in.reads, in.found, in.deps} THEN "unknown"
                  ELSE IF in.manifest # NoHash THEN "complete" ELSE "non_ignored"]

mergeNullableSets(a, b) == IF <<>> \in {a, b} THEN <<>> ELSE <<a[1] \cup b[1]>>

mergeWorkspaceIncrementalIndex(previous, current) ==
    IF previous = <<>> THEN <<current>>
    ELSE <<buildWorkspaceIncrementalIndex(
             [reads |-> mergeNullableSets(previous[1].reads, current.reads),
              found |-> mergeNullableSets(previous[1].found, current.found),
              deps |-> mergeNullableSets(previous[1].deps, current.deps),
              writes |-> current.writes,
              manifest |-> IF previous[1].manifest # NoHash THEN previous[1].manifest ELSE current.manifest])>>
=============================================================================
