----------------------------- MODULE Snapshots -----------------------------
(***************************************************************************)
(* One snapshot of a workspace and the rollbacks to it                     *)
(* (src/src/supervisor/snapshot-ops.ts, rollback.ts, src/src/snapshot/).   *)
(*                                                                         *)
(* A snapshot is a tree that git keeps alive through a private ref, a row  *)
(* of the store and, if asked for, a manifest of the ignored files.  A     *)
(* rollback restores the tree in steps: the ignore rules first, then what  *)
(* is to be removed, then what is to be checked out; it verifies the       *)
(* result by its fingerprint and derives a claim of what was covered.      *)
(*                                                                         *)
(* The content of a file is a value; the content of a rule file is the set *)
(* of the paths it ignores.  Operations write in the root they lease, the  *)
(* ones that are not confined anywhere.                                    *)
(***************************************************************************)
EXTENDS Naturals, FiniteSets

CONSTANTS
    Path, Root, RootOf, \* files and the root each is in
    Tracked,            \* the paths of git's own index and HEAD
    Absent,             \* the content of a path that is not there
    Contents,           \* the contents a path may get; a rule file: sets of paths
    Head, First,        \* the tree of HEAD, the files at first
    Op, OpRoot, Confined, \* operations, their mutation root, the confined ones
    Nobody,
    MaxEdits,     \* bound: writes of the operations
    MaxRollbacks, \* bound: rollbacks
    MaxFaults     \* bound: crashes and failures of the file system, of git

ASSUME SnapshotsAssumption ==
    /\ IsFiniteSet(Path) /\ RootOf \in [Path -> Root] /\ Tracked \subseteq Path
    /\ OpRoot \in [Op -> Root] /\ Confined \subseteq Op
    /\ Nobody \notin Op \cup {"capture", "rollback"}
    /\ Op \cap {"capture", "rollback"} = {}
    /\ Head \in [Path -> UNION {Contents[p] : p \in Path}]
    /\ First \in [Path -> UNION {Contents[p] : p \in Path}]
    /\ \A p \in Path : First[p] \in Contents[p]
    /\ \A p \in Path \ Tracked : Absent \in Contents[p] \* git does not count on it
    /\ MaxEdits \in Nat /\ MaxRollbacks \in Nat /\ MaxFaults \in Nat

VARIABLES
    tree,     \* the files
    cap,      \* the running captureSnapshot
    row,      \* the row of the snapshot, or none
    ref,      \* the private ref of git
    manifest, \* the manifest file
    pruning,  \* pruneSnapshots has begun with this snapshot
    rb,       \* the running or interrupted rollback
    rollback, \* status of its operation
    lease,    \* workspace:write of each root
    ops,      \* operations: none, running, done
    results,  \* operations with a result after SNAPSHOT_CAPTURED, recorded as confined or not
    up,       \* the domain has recovered
    claim,    \* the result of the last rollback, beside what is true of it
    touched,  \* history: paths written since the manifest was taken
    spilled,  \* history: roots an operation wrote to since the snapshot
    half,     \* history: roots changed by a rollback that has no result
    thrown,   \* history: a rollback threw and left its row active
    robbed,   \* history: ignored files that a rollback removed; ignored inside its roots or not
    unruly,   \* history: a rule file could not be restored, or changed meanwhile
    edits, count, faults

repo == <<row, ref, manifest, pruning>>
kernel == <<lease, ops, results, up>>
history == <<touched, spilled, half, thrown, robbed, unruly>>
bounds == <<edits, count, faults>>
vars == <<tree, cap, repo, rb, rollback, kernel, claim, history, bounds>>

Rules == {p \in Path : \E c \in Contents[p] : c # Absent /\ c \subseteq Path}
Trees == [Path -> UNION {Contents[p] : p \in Path}]
\* all, torn: history, the files when the tree was written, and that they had
\* changed since the manifest was taken.
NoRow == [kept |-> FALSE, tree |-> Head, all |-> Head, roots |-> {},
          full |-> FALSE, listed |-> FALSE, ignored |-> {}, torn |-> FALSE]
NoClaim == [status |-> "none", coverage |-> "none", spill |-> "possible", full |-> FALSE,
            torn |-> FALSE, same |-> TRUE, told |-> TRUE, whole |-> TRUE, quiet |-> TRUE]
Idle == [at |-> "idle", roots |-> {}, remove |-> FALSE, snap |-> NoRow, synced |-> {},
         checkout |-> {}, delete |-> {}, unrestored |-> {}, kept |-> {}, match |-> FALSE]

-----------------------------------------------------------------------------
\* Git, as the driver uses it.

\* The paths that the rule files of a tree ignore.
Matched(t) == UNION {t[r] : r \in {q \in Rules : t[q] # Absent}}

\* The ones that rule files inside some roots ignore.
MatchedIn(t, roots) ==
    UNION {t[r] : r \in {q \in Rules : t[q] # Absent /\ RootOf[q] \in roots}}

\* listIgnored: others, ignored, present.
Ignored(t) == {p \in Matched(t) \ Tracked : t[p] # Absent}

In(roots) == {p \in Path : RootOf[p] \in roots}

\* capture: HEAD, then "add -A [-f] -- roots", then write-tree.
CapturedTree(t, roots, full) ==
    [p \in Path |-> IF p \notin In(roots) THEN Head[p]
                    ELSE IF full \/ p \in Tracked \/ p \notin Matched(t) THEN t[p] ELSE Absent]

\* fingerprint(roots, against): the snapshot's tree, then "add -A [-f] -- roots".
Fingerprint(t, roots, s, force) ==
    [p \in Path |-> IF p \notin In(roots) THEN s.tree[p]
                    ELSE IF force \/ s.tree[p] # Absent \/ p \notin Matched(t) THEN t[p] ELSE Absent]

\* diffAgainstSnapshot: the paths to check out and the ones to delete.
Changes(t, s) ==
    LET now == Fingerprint(t, s.roots, s, s.full)
        differ == {p \in In(s.roots) : now[p] # s.tree[p]}
    IN [checkout |-> {p \in differ : s.tree[p] # Absent},
        delete |-> {p \in differ : s.tree[p] = Absent}]

\* deletableOf: with ignored files in the snapshot only what git does not ignore.
Deletable(t, s, delete) ==
    IF s.full THEN {p \in delete : p \in Tracked \/ p \notin Matched(t)} ELSE delete

Removed(t, paths) == [p \in Path |-> IF p \in paths THEN Absent ELSE t[p]]
CheckedOut(t, s, paths) == [p \in Path |-> IF p \in paths THEN s.tree[p] ELSE t[p]]

-----------------------------------------------------------------------------
Init ==
    /\ tree = First /\ cap = [at |-> "idle", row |-> NoRow]
    /\ row = NoRow /\ ref = FALSE /\ manifest = FALSE /\ pruning = FALSE
    /\ rb = Idle /\ rollback = "none"
    /\ lease = [r \in Root |-> Nobody] /\ ops = [o \in Op |-> "none"]
    /\ results = {} /\ up = TRUE /\ claim = NoClaim
    /\ touched = {} /\ spilled = {} /\ half = {} /\ thrown = FALSE /\ robbed = {} /\ unruly = FALSE
    /\ edits = 0 /\ count = 0 /\ faults = 0

\* SNAPSHOT_CAPTURED is in the journal.
Recorded == row.kept \/ pruning

\* A managed operation takes the lease of its root and writes.
Start(o) ==
    /\ up /\ ops[o] = "none" /\ lease[OpRoot[o]] = Nobody
    /\ ops' = [ops EXCEPT ![o] = "running"]
    /\ lease' = [lease EXCEPT ![OpRoot[o]] = o]
    /\ UNCHANGED <<tree, cap, repo, rb, rollback, results, up, claim, history, bounds>>

Edit(o, p) ==
    /\ up /\ ops[o] = "running" /\ edits < MaxEdits
    /\ o \in Confined => RootOf[p] = OpRoot[o]
    /\ \E c \in Contents[p] \ {tree[p]} : tree' = [tree EXCEPT ![p] = c]
    /\ touched' = IF manifest THEN touched \cup {p} ELSE touched
    /\ spilled' = IF Recorded THEN spilled \cup {RootOf[p]} ELSE spilled
    /\ unruly' = (unruly \/ (rb.at \notin {"idle", "dead"} /\ p \in Rules))
    /\ edits' = edits + 1
    /\ UNCHANGED <<cap, repo, rb, rollback, kernel, claim, half, thrown, robbed, count, faults>>

\* Its result says whether it was confined.
Finish(o) ==
    /\ up /\ ops[o] = "running"
    /\ ops' = [ops EXCEPT ![o] = "done"]
    /\ lease' = [r \in Root |-> IF lease[r] = o THEN Nobody ELSE lease[r]]
    /\ results' = IF Recorded THEN results \cup {[op |-> o, confined |-> o \in Confined]} ELSE results
    /\ UNCHANGED <<tree, cap, repo, rb, rollback, up, claim, history, bounds>>

-----------------------------------------------------------------------------
\* captureSnapshot.

\* The operation is active and has the roots; the manifest is taken first.
CaptureBegin(roots, full, listed) ==
    /\ up /\ cap.at = "idle" /\ ~row.kept /\ ~ref /\ ~pruning
    /\ \A r \in roots : lease[r] = Nobody
    /\ lease' = [r \in Root |-> IF r \in roots THEN "capture" ELSE lease[r]]
    /\ cap' = [at |-> "listed",
               row |-> [NoRow EXCEPT !.roots = roots, !.full = full, !.listed = listed /\ ~full,
                                     !.all = tree,
                                     !.ignored = IF listed /\ ~full THEN Ignored(tree) \cap In(roots) ELSE {}]]
    /\ manifest' = (listed /\ ~full)
    /\ touched' = {}
    /\ UNCHANGED <<tree, row, ref, pruning, rb, rollback, ops, results, up, claim, spilled, half,
                   thrown, robbed, unruly, bounds>>

\* driver.capture: the tree is written and update-ref makes it last.
CaptureTree ==
    /\ up /\ cap.at = "listed"
    /\ ref' = TRUE
    /\ cap' = [cap EXCEPT !.at = "captured",
                          !.row = [cap.row EXCEPT
                                      !.tree = CapturedTree(tree, cap.row.roots, cap.row.full),
                                      !.all = tree,
                                      !.torn = cap.row.listed /\ cap.row.all # tree]]
    /\ UNCHANGED <<tree, row, manifest, pruning, rb, rollback, kernel, claim, history, bounds>>

ReleasedBy(owner) == [r \in Root |-> IF lease[r] = owner THEN Nobody ELSE lease[r]]

\* One transaction: SNAPSHOT_CAPTURED, the row and the result; then the release.
CaptureRecord ==
    /\ up /\ cap.at = "captured"
    /\ row' = [cap.row EXCEPT !.kept = TRUE]
    /\ cap' = [at |-> "idle", row |-> NoRow]
    /\ lease' = ReleasedBy("capture")
    /\ spilled' = {}
    /\ UNCHANGED <<tree, ref, manifest, pruning, rb, rollback, ops, results, up, claim, touched, half,
                   thrown, robbed, unruly, bounds>>

\* recordFailedSnapshot: the manifest is removed, a ref stays.
CaptureFails ==
    /\ up /\ cap.at \in {"listed", "captured"} /\ faults < MaxFaults
    /\ faults' = faults + 1
    /\ manifest' = FALSE
    /\ cap' = [at |-> "idle", row |-> NoRow]
    /\ lease' = ReleasedBy("capture")
    /\ UNCHANGED <<tree, row, ref, pruning, rb, rollback, ops, results, up, claim, history, edits, count>>

-----------------------------------------------------------------------------
\* pruneSnapshots: ref, manifest, row, each on its own.  Nothing is leased.

PruneRef ==
    /\ up /\ row.kept /\ ~pruning
    /\ pruning' = TRUE /\ ref' = FALSE
    /\ UNCHANGED <<tree, cap, row, manifest, rb, rollback, kernel, claim, history, bounds>>

\* After a crash the prune is asked for again: a ref that is gone is no error.
PruneManifest ==
    /\ up /\ row.kept /\ pruning /\ manifest
    /\ manifest' = FALSE
    /\ UNCHANGED <<tree, cap, row, ref, pruning, rb, rollback, kernel, claim, history, bounds>>

PruneRow ==
    /\ up /\ row.kept /\ pruning /\ ~manifest
    /\ row' = NoRow
    /\ UNCHANGED <<tree, cap, ref, manifest, pruning, rb, rollback, kernel, claim, history, bounds>>

-----------------------------------------------------------------------------
\* rollback.

\* assertRootsQuiescent: no lease and no unfinished rollback on the roots.
Quiescent(roots) ==
    /\ \A r \in roots : lease[r] = Nobody
    /\ rollback \in {"active", "indeterminate"} => roots \cap rb.roots = {}

\* The roots are the caller's, or the snapshot's.  Only the row is looked at.
RollbackBegin(roots, remove) ==
    /\ up /\ rb.at \in {"idle", "dead"} /\ row.kept /\ count < MaxRollbacks
    /\ rollback \in {"none", "done"} /\ Quiescent(roots)
    /\ count' = count + 1
    /\ rollback' = "active"
    /\ rb' = [Idle EXCEPT !.at = "rules", !.roots = roots, !.remove = remove, !.snap = row]
    /\ lease' = [r \in Root |-> IF r \in roots THEN "rollback" ELSE lease[r]]
    /\ claim' = NoClaim
    /\ UNCHANGED <<tree, cap, repo, ops, results, up, history, edits, faults>>

\* The files of a step that cannot be unlinked or written.
FailingOf(paths) == {{}} \cup (IF faults < MaxFaults THEN {{p} : p \in paths} ELSE {})

\* What a step of restore leaves: the tree, and what the history says of it.
Written(t) ==
    /\ tree' = t
    /\ LET wrote == {p \in Path : t[p] # tree[p]}
           lost == {p \in wrote \cap (Matched(rb.snap.tree) \ Tracked) :
                      t[p] = Absent /\ rb.snap.all[p] # Absent /\ rb.snap.tree[p] = Absent}
       IN /\ touched' = IF manifest THEN touched \cup wrote ELSE touched
          /\ half' = half \cup {RootOf[p] : p \in wrote}
          /\ robbed' = robbed \cup {[file |-> p, inside |-> p \in MatchedIn(rb.snap.tree, rb.snap.roots)] :
                                     p \in lost}

\* Mutant: the rules are restored with everything else, at the end.
SyncRulesNot ==
    /\ up /\ rb.at = "rules"
    /\ LET ch == Changes(tree, rb.snap) IN
       rb' = [rb EXCEPT !.at = "delete", !.checkout = ch.checkout, !.delete = ch.delete]
    /\ UNCHANGED <<tree, cap, repo, rollback, kernel, claim, history, bounds>>

\* The loop that restores rule files, until the difference shows no new one.
SyncRules ==
    /\ up /\ rb.at = "rules"
    /\ LET ch == Changes(tree, rb.snap)
           out == (ch.checkout \cap Rules) \ rb.synced
           del == (ch.delete \cap Rules) \ rb.synced
           gone == Deletable(tree, rb.snap, del)
       IN \/ /\ out \cup del = {}
             /\ rb' = [rb EXCEPT !.at = "delete", !.checkout = ch.checkout, !.delete = ch.delete]
             /\ UNCHANGED <<tree, touched, half, robbed, unruly, faults>>
          \/ /\ out \cup del # {}
             /\ \E bad \in FailingOf(out \cup gone) :
                  /\ Written(CheckedOut(Removed(tree, gone \ bad), rb.snap, out \ bad))
                  /\ rb' = [rb EXCEPT !.synced = @ \cup out \cup del, !.unrestored = @ \cup bad]
                  /\ unruly' = (unruly \/ bad # {})
                  /\ faults' = faults + Cardinality(bad)
    /\ UNCHANGED <<cap, repo, rollback, kernel, claim, spilled, thrown, edits, count>>

\* What is not in the snapshot and not ignored is unlinked.
DeleteNew ==
    /\ up /\ rb.at = "delete"
    /\ LET gone == Deletable(tree, rb.snap, rb.delete) IN
       \E bad \in FailingOf({p \in gone : tree[p] # Absent}) :
          /\ Written(Removed(tree, gone \ bad))
          /\ rb' = [rb EXCEPT !.at = "ignored", !.delete = @ \ gone, !.unrestored = @ \cup bad]
          /\ faults' = faults + Cardinality(bad)
    /\ UNCHANGED <<cap, repo, rollback, kernel, claim, spilled, thrown, unruly, edits, count>>

\* New files that are ignored are kept and reported, or removed if so asked.
NewIgnored ==
    /\ up /\ rb.at = "ignored"
    /\ IF rb.remove
       THEN \E bad \in FailingOf({p \in rb.delete : tree[p] # Absent}) :
              /\ Written(Removed(tree, rb.delete \ bad))
              /\ rb' = [rb EXCEPT !.at = "checkout", !.unrestored = @ \cup bad]
              /\ faults' = faults + Cardinality(bad)
       ELSE /\ rb' = [rb EXCEPT !.at = "checkout", !.kept = rb.delete]
            /\ UNCHANGED <<tree, touched, half, robbed, faults>>
    /\ UNCHANGED <<cap, repo, rollback, kernel, claim, spilled, thrown, unruly, edits, count>>

Checkout ==
    /\ up /\ rb.at = "checkout"
    /\ \E bad \in FailingOf(rb.checkout) :
          /\ Written(CheckedOut(tree, rb.snap, rb.checkout \ bad))
          /\ rb' = [rb EXCEPT !.at = "verify", !.unrestored = @ \cup bad]
          /\ faults' = faults + Cardinality(bad)
    /\ UNCHANGED <<cap, repo, rollback, kernel, claim, spilled, thrown, unruly, edits, count>>

\* The fingerprint of the roots of the rollback; kept files are left out.
Verify ==
    /\ up /\ rb.at = "verify"
    /\ rb' = [rb EXCEPT !.at = "claim",
                        !.match = Fingerprint(tree, rb.roots, rb.snap, rb.snap.full /\ rb.kept = {})
                                    = rb.snap.tree]
    /\ UNCHANGED <<tree, cap, repo, rollback, kernel, claim, history, bounds>>

\* compareIgnoredManifest: a manifest is compared by path, size, mode and times;
\* a rewritten file may differ in its ctime only.
ManifestStates(s) ==
    LET then == s.ignored
        now == Ignored(tree) \cap In(s.roots)
    IN CASE ~s.listed -> {"absent"}
         [] s.listed /\ ~manifest -> {"unreadable"}
         [] s.listed /\ manifest /\ then # now -> {"changed"}
         [] OTHER -> IF then \cap touched = {} THEN {"unchanged"} ELSE {"changed", "inconclusive"}

\* Mutant: an operation that still runs is not asked.
EffectsConfinedIfDone(roots) ==
    \A e \in results : e.confined /\ OpRoot[e.op] \in roots

\* allEffectsConfinedToRoots.
EffectsConfined(roots) ==
    /\ \A o \in Op : ops[o] # "running"
    /\ \A e \in results : e.confined /\ OpRoot[e.op] \in roots

\* deriveRollbackCoverage.
Coverage(status, effects, full, ignored) ==
    LET files == IF full THEN "restored" ELSE IF ignored = "unchanged" THEN "unchanged" ELSE "not_captured"
    IN CASE status = "failed" -> [coverage |-> "none", spill |-> "possible"]
         [] status = "partial" \/ (status = "restored" /\ effects # "confined") ->
              [coverage |-> "declared_roots", spill |-> "possible"]
         [] OTHER -> [coverage |-> IF files = "not_captured" THEN "non_ignored" ELSE "complete",
                      spill |-> "none_possible"]

\* What a result says, and what is true when it is recorded.
Claimed(status, effects, ignored) ==
    LET c == Coverage(status, effects, rb.snap.full, ignored) IN
    [status |-> status, coverage |-> c.coverage, spill |-> c.spill,
     full |-> rb.snap.full, torn |-> rb.snap.torn,
     same |-> \A p \in In(rb.roots \cap rb.snap.roots) : rb.snap.tree[p] # Absent => tree[p] = rb.snap.tree[p],
     told |-> \A p \in In(rb.roots \cap rb.snap.roots) :
                  p \notin Tracked \/ rb.snap.all[p] # Absent => tree[p] = rb.snap.all[p],
     whole |-> \A p \in In(rb.roots \cap rb.snap.roots) : tree[p] = rb.snap.all[p],
     quiet |-> spilled \subseteq rb.roots]

\* The result and the status are one transaction, then the leases go.
Claim ==
    /\ up /\ rb.at = "claim"
    /\ \E m \in ManifestStates(rb.snap) :
          claim' = Claimed(IF ~rb.match THEN "failed"
                           ELSE IF rb.unrestored \cup rb.kept # {} THEN "partial" ELSE "restored",
                           IF EffectsConfined(rb.roots) THEN "confined" ELSE "unconfined", m)
    /\ rollback' = "done"
    /\ rb' = Idle
    /\ lease' = ReleasedBy("rollback")
    /\ half' = {} /\ thrown' = FALSE
    /\ UNCHANGED <<tree, cap, repo, ops, results, up, touched, spilled, robbed, unruly, bounds>>

\* restore, fingerprint or the manifest throw: the leases go and no result is recorded.
RollbackThrows ==
    /\ up /\ rb.at \notin {"idle", "dead"} /\ faults < MaxFaults
    /\ faults' = faults + 1
    /\ rb' = [rb EXCEPT !.at = "dead"]
    /\ lease' = ReleasedBy("rollback")
    /\ thrown' = TRUE
    /\ UNCHANGED <<tree, cap, repo, rollback, ops, results, up, claim, touched, spilled, half, robbed,
                   unruly, edits, count>>

-----------------------------------------------------------------------------
\* The owner dies.  The next one locks what unfinished operations declare,
\* in the order of their rows, and asks the drivers of the processes.

Unfinished == IF rollback \in {"active", "indeterminate"} THEN rb.roots ELSE {}

Crash ==
    /\ up /\ faults < MaxFaults
    /\ faults' = faults + 1
    /\ up' = FALSE
    /\ lease' = [r \in Root |->
                   IF \E o \in Op : ops[o] = "running" /\ OpRoot[o] = r
                   THEN CHOOSE o \in Op : ops[o] = "running" /\ OpRoot[o] = r
                   ELSE IF r \in Unfinished THEN "rollback" ELSE lease[r]]
    /\ rb' = IF rb.at = "idle" THEN rb ELSE [rb EXCEPT !.at = "dead"]
    /\ UNCHANGED <<tree, cap, repo, rollback, ops, results, claim, history, edits, count>>

\* Mutant: an interrupted rollback is released whatever its fingerprint.
RecoverReleases ==
    /\ ~up /\ up' = TRUE
    /\ cap' = [at |-> "idle", row |-> NoRow]
    /\ ops' = [o \in Op |-> IF ops[o] = "running" THEN "done" ELSE ops[o]]
    /\ results' = results
    /\ lease' = [r \in Root |-> Nobody]
    /\ rollback' = IF rollback = "active" THEN "indeterminate" ELSE rollback
    /\ UNCHANGED <<tree, repo, rb, claim, history, bounds>>

\* recover(): a snapshot failed, a rollback is done if its fingerprint is the
\* snapshot's and stays isolated if not, the processes are gone.
Recover ==
    /\ ~up /\ up' = TRUE
    /\ cap' = [at |-> "idle", row |-> NoRow]
    /\ ops' = [o \in Op |-> IF ops[o] = "running" THEN "done" ELSE ops[o]]
    /\ results' = IF Recorded
                  THEN results \cup {[op |-> o, confined |-> FALSE] : o \in {q \in Op : ops[q] = "running"}}
                  ELSE results
    /\ LET match == row.kept /\ Fingerprint(tree, rb.roots, rb.snap, rb.snap.full) = rb.snap.tree
           still(owner) == owner = "rollback" /\ (rollback = "indeterminate" \/ ~match)
       IN /\ lease' = [r \in Root |-> IF still(lease[r]) THEN lease[r] ELSE Nobody]
          /\ CASE rollback = "active" /\ match ->
                    /\ rollback' = "done" /\ rb' = Idle /\ half' = {} /\ thrown' = FALSE
                    /\ claim' = Claimed("restored", "unverified", "absent")
               [] rollback = "active" /\ ~match ->
                    rollback' = "indeterminate" /\ UNCHANGED <<rb, half, thrown, claim>>
               [] OTHER -> UNCHANGED <<rollback, rb, half, thrown, claim>>
    /\ UNCHANGED <<tree, repo, touched, spilled, robbed, unruly, bounds>>

\* adjudicate: a human has looked at the workspace; the leases are released.
Adjudicate ==
    /\ up /\ rollback = "indeterminate"
    /\ rollback' = "done" /\ rb' = Idle
    /\ lease' = ReleasedBy("rollback")
    /\ half' = {} /\ thrown' = FALSE
    /\ UNCHANGED <<tree, cap, repo, ops, results, up, claim, touched, spilled, robbed, unruly, bounds>>

Next ==
    \/ \E o \in Op : Start(o) \/ Finish(o) \/ \E p \in Path : Edit(o, p)
    \/ \E roots \in SUBSET Root \ {{}} :
          \/ \E full, listed \in BOOLEAN : CaptureBegin(roots, full, listed)
          \/ \E remove \in {FALSE, row.full} : RollbackBegin(roots, remove)
    \/ CaptureTree \/ CaptureRecord \/ CaptureFails
    \/ PruneRef \/ PruneManifest \/ PruneRow
    \/ SyncRules \/ DeleteNew \/ NewIgnored \/ Checkout \/ Verify \/ Claim \/ RollbackThrows
    \/ Crash \/ Recover \/ Adjudicate

Spec == Init /\ [][Next]_vars

-----------------------------------------------------------------------------
\* Types of the files, the leases and the statuses.
TypeOK ==
    /\ tree \in Trees /\ \A p \in Path : tree[p] \in Contents[p]
    /\ lease \in [Root -> Op \cup {Nobody, "capture", "rollback"}]
    /\ ops \in [Op -> {"none", "running", "done"}]
    /\ rollback \in {"none", "active", "indeterminate", "done"}
    /\ rb.at \in {"idle", "dead", "rules", "delete", "ignored", "checkout", "verify", "claim"}
    /\ cap.at \in {"idle", "listed", "captured"}
    /\ claim.coverage \in {"none", "declared_roots", "non_ignored", "complete"}
    /\ rb.checkout \cap rb.delete = {}

\* deriveRollbackCoverage: a rollback that is called complete has brought back
\* every file of its roots that the snapshot covers, the ignored ones too, and no
\* operation has changed anything outside of them since the snapshot; one that is
\* called non_ignored has brought back what the snapshot holds.  With a manifest
\* instead of the files themselves this is so unless a file changed between the
\* manifest and the tree, and but for tracked files that were missing.
ClaimsAreTrue ==
    /\ claim.coverage = "complete" =>
          /\ claim.same
          /\ claim.full => claim.whole
          /\ claim.torn \/ claim.told
    /\ claim.coverage = "non_ignored" => claim.same
    /\ claim.spill = "none_possible" => claim.quiet

\* The comment on RollbackOperationResult.coverage: all content of the roots is
\* restored or proved unchanged.
CompleteIsWhole == claim.coverage = "complete" => claim.whole

\* restore(): a file that rules inside the snapshot's roots ignored and the
\* snapshot does not hold is not removed, whatever has become of the rules since
\* then, unless it is a rule file itself, a rule file could not be restored or an
\* operation changed one meanwhile.
IgnoredKept == unruly \/ \A x \in robbed : x.inside => x.file \in Rules

\* The comment on the rule files in restore(): the rules of the snapshot decide.
SnapshotRulesDecide == unruly \/ robbed = {}

\* The comment on deletableOf: ignored files are never touched.
IgnoredNeverTouched == robbed = {}

\* recover(): no operation works in a root which a crashed rollback has left
\* half restored; a human decides first.
NoWorkInHalfRestored ==
    \A o \in Op : ops[o] = "running" /\ OpRoot[o] \in half \cap rb.roots => thrown

\* A row that nobody prunes has its ref: the tree cannot be collected by git.
RowHasRef == row.kept /\ ~pruning => ref

\* What is to be kept is kept: ignored files through a rollback, and the tree of
\* a snapshot as long as its row is there, whatever step a crash interrupts.
NothingKeptIsLost ==
    /\ TypeOK
    /\ IgnoredKept
    /\ RowHasRef
=============================================================================
