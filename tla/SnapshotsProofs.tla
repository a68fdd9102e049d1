------------------------- MODULE SnapshotsProofs -------------------------
(***************************************************************************)
(* Proofs about Snapshots, for any files, roots, rules and operations:     *)
(* type correctness, that nothing to be kept is lost, that nobody works in *)
(* a half restored root, and that the claims of a rollback are true.       *)
(***************************************************************************)
EXTENDS Snapshots, TLAPS

Phases == {"idle", "dead", "rules", "delete", "ignored", "checkout", "verify", "claim"}
Rows == [kept : BOOLEAN, tree : Trees, all : Trees, roots : SUBSET Root, full : BOOLEAN,
         listed : BOOLEAN, ignored : SUBSET Path, torn : BOOLEAN]
Rollbacks == [at : Phases, roots : SUBSET Root, remove : BOOLEAN, snap : Rows,
              synced : SUBSET Path, checkout : SUBSET Path, delete : SUBSET Path,
              unrestored : SUBSET Path, kept : SUBSET Path, match : BOOLEAN]
Claims == [status : {"none", "restored", "partial", "failed"},
           coverage : {"none", "declared_roots", "non_ignored", "complete"},
           spill : {"possible", "none_possible"}, full : BOOLEAN, torn : BOOLEAN,
           same : BOOLEAN, told : BOOLEAN, whole : BOOLEAN, quiet : BOOLEAN]

\* Every file has one of its contents.
Filed(t) == t \in Trees /\ \A p \in Path : t[p] \in Contents[p]

\* The types of everything but the bounds.
RepoOK ==
    /\ Filed(tree)
    /\ cap \in [at : {"idle", "listed", "captured"}, row : Rows]
    /\ row \in Rows
    /\ ref \in BOOLEAN /\ manifest \in BOOLEAN /\ pruning \in BOOLEAN
KernelOK ==
    /\ lease \in [Root -> Op \cup {Nobody, "capture", "rollback"}]
    /\ ops \in [Op -> {"none", "running", "done"}]
    /\ results \in SUBSET [op : Op, confined : BOOLEAN]
    /\ up \in BOOLEAN
RollbackOK ==
    /\ rb \in Rollbacks
    /\ rollback \in {"none", "active", "indeterminate", "done"}
    /\ claim \in Claims
HistoryOK ==
    /\ touched \in SUBSET Path /\ spilled \in SUBSET Root /\ half \in SUBSET Root
    /\ thrown \in BOOLEAN /\ unruly \in BOOLEAN

\* A captured snapshot: the tree is what capture makes of the files, a manifest
\* that is not torn lists the files that are ignored in it.
Sound(s) ==
    /\ Filed(s.all)
    /\ \A p \in In(s.roots) :
          s.tree[p] = IF s.full \/ p \in Tracked \/ p \notin Matched(s.all) THEN s.all[p]
                      ELSE Absent
    /\ s.listed /\ ~s.torn => s.ignored = Ignored(s.all) \cap In(s.roots)

\* What was not touched since the manifest is as it was.
Fresh(s) == manifest /\ s.listed /\ ~s.torn => \A p \in Path \ touched : tree[p] = s.all[p]

\* captureSnapshot between its steps; it is over before anything is recorded.
CaptureInv ==
    /\ cap.at = "listed" =>
          /\ Filed(cap.row.all) /\ ~cap.row.torn
          /\ cap.row.listed =>
                /\ ~cap.row.full /\ manifest
                /\ cap.row.ignored = Ignored(cap.row.all) \cap In(cap.row.roots)
    /\ cap.at = "captured" => Sound(cap.row) /\ Fresh(cap.row) /\ ref
    /\ cap.at # "idle" => ~Recorded

\* The row, and the copy of it that a rollback works from.
RowInv ==
    /\ row.kept => Sound(row) /\ Fresh(row)
    /\ RowHasRef
    /\ rb.at # "idle" => Sound(rb.snap) /\ Fresh(rb.snap) /\ Recorded
    /\ rb.remove => rb.snap.full

\* Where a rollback stands and what it is about to do.
StepInv ==
    /\ rollback \in {"none", "done"} <=> rb.at = "idle"
    /\ rollback \in {"none", "done"} => rb.roots = {} /\ ~thrown
    /\ rollback = "indeterminate" => rb.at = "dead"
    /\ rb.at \notin {"idle", "dead"} => up /\ ~thrown
    /\ rb.synced \subseteq Rules
    /\ \A p \in rb.checkout : p \in In(rb.snap.roots) /\ rb.snap.tree[p] # Absent
    /\ \A p \in rb.delete : p \in In(rb.snap.roots) /\ rb.snap.tree[p] = Absent

\* A rule file that was synced is the snapshot's, and what is to be removed then
\* is ignored by none of them.
RulesInv ==
    ~unruly =>
        /\ rb.at = "rules" =>
              \A r \in rb.synced : rb.snap.tree[r] # Absent => tree[r] = rb.snap.tree[r]
        /\ rb.at = "delete" /\ ~rb.snap.full =>
              rb.delete \cap MatchedIn(rb.snap.tree, rb.snap.roots) = {}

\* Who runs has the lease of its root; so has a rollback that did not throw.
HolderInv ==
    /\ \A o \in Op : ops[o] = "running" => lease[OpRoot[o]] = o
    /\ rollback \in {"active", "indeterminate"} /\ ~thrown =>
          \A r \in rb.roots : lease[r] = "rollback"

\* An operation that is running, or has a result since the snapshot.
Ran(o) == ops[o] = "running" \/ \E e \in results : e.op = o

\* One of them may have written outside of the roots.
Foreign(roots) == \E o \in Op : Ran(o) /\ ~(o \in Confined /\ OpRoot[o] \in roots)

\* Every write since the snapshot has its operation.
SpillInv ==
    /\ ~Recorded => spilled = {}
    /\ \A e \in results : e.confined => e.op \in Confined
    /\ \A r \in spilled : \E o \in Op : Ran(o) /\ (o \in Confined => OpRoot[o] = r)

\* What was verified is still so, or somebody foreign has run.
Verified ==
    Fingerprint(tree, rb.roots, rb.snap, rb.snap.full /\ rb.kept = {}) = rb.snap.tree
MatchInv == rb.at = "claim" /\ rb.match => Verified \/ Foreign(rb.roots)

\* The inductive invariant.
Types == RepoOK /\ KernelOK /\ RollbackOK /\ HistoryOK
IInv ==
    /\ Types
    /\ CaptureInv /\ RowInv /\ StepInv /\ RulesInv /\ HolderInv /\ SpillInv /\ MatchInv
    /\ IgnoredKept /\ ClaimsAreTrue

-----------------------------------------------------------------------------
\* The operators on trees.

\* The paths in some roots are paths.
LEMMA InPaths == \A roots : In(roots) \subseteq Path
  BY DEF In

\* A captured tree is a tree of files.
LEMMA CapturedType ==
  ASSUME NEW t, Filed(t), NEW roots, NEW full
  PROVE  CapturedTree(t, roots, full) \in Trees
<1>1. \A p \in Path : t[p] \in UNION {Contents[q] : q \in Path}
                       /\ Head[p] \in UNION {Contents[q] : q \in Path}
  BY SnapshotsAssumption DEF Filed, Trees
<1>2. \A p \in Path \ Tracked : Absent \in UNION {Contents[q] : q \in Path}
  BY SnapshotsAssumption
<1> QED
  BY <1>1, <1>2 DEF CapturedTree, Trees

\* What a snapshot holds of its roots are contents; one it does not hold may be
\* missing.
LEMMA SoundContents ==
  ASSUME NEW s, Sound(s), NEW p \in In(s.roots)
  PROVE  s.tree[p] \in Contents[p]
  BY SnapshotsAssumption, InPaths DEF Sound, Filed

\* With the ignored files in it, the tree is all there was.
LEMMA FullIsAll ==
  ASSUME NEW s, Sound(s), s.full, NEW p \in In(s.roots)
  PROVE  s.tree[p] = s.all[p]
  BY DEF Sound

\* Removing files that may be missing leaves a tree of files.
LEMMA RemovedFiled ==
  ASSUME NEW t, Filed(t), NEW gone, \A p \in gone \cap Path : Absent \in Contents[p]
  PROVE  Filed(Removed(t, gone))
<1>1. \A p \in Path : Removed(t, gone)[p] \in Contents[p]
  BY DEF Removed, Filed
<1>2. Removed(t, gone) \in Trees
  BY <1>1 DEF Removed, Trees
<1> QED
  BY <1>1, <1>2 DEF Filed

\* So does checking out what a snapshot holds of its roots.
LEMMA CheckedOutFiled ==
  ASSUME NEW t, Filed(t), NEW s, Sound(s), NEW out \in SUBSET In(s.roots)
  PROVE  Filed(CheckedOut(t, s, out))
<1>1. \A p \in Path : CheckedOut(t, s, out)[p] \in Contents[p]
  BY SoundContents DEF CheckedOut, Filed
<1>2. CheckedOut(t, s, out) \in Trees
  BY <1>1 DEF CheckedOut, Trees
<1> QED
  BY <1>1, <1>2 DEF Filed

\* The difference to a snapshot is about its roots, and splits by what it holds.
LEMMA ChangesSplit ==
  ASSUME NEW t, NEW s
  PROVE  LET ch == Changes(t, s) IN
         /\ ch.checkout \in SUBSET In(s.roots) /\ \A p \in ch.checkout : s.tree[p] # Absent
         /\ ch.delete \in SUBSET In(s.roots) /\ \A p \in ch.delete : s.tree[p] = Absent
  BY DEF Changes

\* Only what is to be removed is found to be removable.
LEMMA DeletablePart ==
  ASSUME NEW t, NEW s, NEW delete
  PROVE  /\ Deletable(t, s, delete) \subseteq delete
         /\ ~s.full => Deletable(t, s, delete) = delete
  BY DEF Deletable

\* A step of restore keeps the types of the history.
LEMMA WrittenType ==
  ASSUME Types, NEW t, Filed(t), Written(t), UNCHANGED <<spilled, thrown>>,
         unruly' \in BOOLEAN
  PROVE  HistoryOK' /\ Filed(tree)'
<1>1. tree' = t
  BY DEF Written
<1>2. touched' \in SUBSET Path
  BY DEF Written, Types, HistoryOK
<1>3. half' \in SUBSET Root
  BY SnapshotsAssumption DEF Written, Types, HistoryOK
<1> QED
  BY <1>1, <1>2, <1>3 DEF Types, HistoryOK, Filed

\* The initial rows, rollbacks and claims.
LEMMA InitialTypes == NoRow \in Rows /\ Idle \in Rollbacks /\ NoClaim \in Claims
<1>1. Head \in Trees
  BY SnapshotsAssumption DEF Trees
<1>2. NoRow \in Rows
  BY <1>1 DEF NoRow, Rows
<1>3. Idle \in Rollbacks
  BY <1>2 DEF Idle, Rollbacks, Phases
<1> QED
  BY <1>2, <1>3 DEF NoClaim, Claims

\* A result is a claim.
LEMMA ClaimedType ==
  ASSUME Types, NEW status \in {"restored", "partial", "failed"}, NEW effects, NEW ignored
  PROVE  Claimed(status, effects, ignored) \in Claims
<1> DEFINE c == Coverage(status, effects, rb.snap.full, ignored)
<1>1. c.coverage \in {"none", "declared_roots", "non_ignored", "complete"}
      /\ c.spill \in {"possible", "none_possible"}
  BY DEF Coverage
<1>2. rb.snap.full \in BOOLEAN /\ rb.snap.torn \in BOOLEAN
  BY DEF Types, RollbackOK, Rollbacks, Rows
<1> HIDE DEF c
<1> QED
  BY <1>1, <1>2 DEF Claimed, Claims, c

-----------------------------------------------------------------------------
\* The steps of restore, each by what it removes and what it checks out.

\* Some paths the snapshot does not hold are removed, some it holds checked out.
Restores(gone, out) ==
    /\ gone \in SUBSET In(rb.snap.roots) /\ \A p \in gone : rb.snap.tree[p] = Absent
    /\ out \in SUBSET In(rb.snap.roots) /\ \A p \in out : rb.snap.tree[p] # Absent
    /\ Written([p \in Path |-> IF p \in out THEN rb.snap.tree[p]
                               ELSE IF p \in gone THEN Absent ELSE tree[p]])

\* The loop over the rule files ends.
SyncEnds ==
    LET ch == Changes(tree, rb.snap)
    IN  /\ (ch.checkout \cup ch.delete) \cap Rules \subseteq rb.synced
        /\ rb' = [rb EXCEPT !.at = "delete", !.checkout = ch.checkout, !.delete = ch.delete]
        /\ UNCHANGED <<tree, touched, half, robbed, unruly>>

\* One round of it: without a failure every rule file it saw that the snapshot
\* holds is checked out.
SyncsRules(gone, out, bad) ==
    /\ Restores(gone, out) /\ gone \subseteq Rules
    /\ \E seen \in SUBSET Rules :
          /\ rb' = [rb EXCEPT !.synced = rb.synced \cup seen,
                              !.unrestored = rb.unrestored \cup bad]
          /\ bad = {} => \A r \in seen : rb.snap.tree[r] # Absent => r \in out
    /\ unruly' = (unruly \/ bad # {})

Deletes(gone, bad) ==
    /\ Restores(gone, {})
    /\ rb' = [rb EXCEPT !.at = "ignored",
                        !.delete = rb.delete \ Deletable(tree, rb.snap, rb.delete),
                        !.unrestored = rb.unrestored \cup bad]

KeepsNew ==
    /\ rb' = [rb EXCEPT !.at = "checkout", !.kept = rb.delete]
    /\ UNCHANGED <<tree, touched, half, robbed>>

RemovesNew(gone, bad) ==
    /\ rb.remove
    /\ Restores(gone, {})
    /\ rb' = [rb EXCEPT !.at = "checkout", !.unrestored = rb.unrestored \cup bad]

ChecksOut(out, bad) ==
    /\ Restores({}, out)
    /\ rb' = [rb EXCEPT !.at = "verify", !.unrestored = rb.unrestored \cup bad]

\* What fails is part of what was tried.
LEMMA FailingPart ==
  ASSUME NEW paths, NEW bad \in FailingOf(paths)
  PROVE  bad \subseteq paths
  BY DEF FailingOf

\* SyncRules is one or the other.
LEMMA SyncStep ==
  ASSUME Types, SyncRules
  PROVE  SyncEnds \/ \E gone, out, bad \in SUBSET Path : SyncsRules(gone, out, bad)
<1> DEFINE ch == Changes(tree, rb.snap)
           out == (ch.checkout \cap Rules) \ rb.synced
           del == (ch.delete \cap Rules) \ rb.synced
           gone == Deletable(tree, rb.snap, del)
<1>1. /\ ch.checkout \in SUBSET In(rb.snap.roots) /\ \A p \in ch.checkout : rb.snap.tree[p] # Absent
      /\ ch.delete \in SUBSET In(rb.snap.roots) /\ \A p \in ch.delete : rb.snap.tree[p] = Absent
      /\ In(rb.snap.roots) \subseteq Path
  BY ChangesSplit, InPaths
<1>2. gone \subseteq del
  BY DeletablePart
<1>3. CASE /\ out \cup del = {}
           /\ rb' = [rb EXCEPT !.at = "delete", !.checkout = ch.checkout, !.delete = ch.delete]
           /\ UNCHANGED <<tree, touched, half, robbed, unruly, faults>>
  <2> HIDE DEF ch
  <2>1. (ch.checkout \cup ch.delete) \cap Rules \subseteq rb.synced
    BY <1>3
  <2> QED
    BY <1>3, <2>1 DEF SyncEnds, ch
<1>4. CASE \E bad \in FailingOf(out \cup gone) :
             /\ Written(CheckedOut(Removed(tree, gone \ bad), rb.snap, out \ bad))
             /\ rb' = [rb EXCEPT !.synced = @ \cup out \cup del, !.unrestored = @ \cup bad]
             /\ unruly' = (unruly \/ bad # {})
             /\ faults' = faults + Cardinality(bad)
  <2> HIDE DEF ch, gone
  <2>1. PICK bad \in FailingOf(out \cup gone) :
             /\ Written(CheckedOut(Removed(tree, gone \ bad), rb.snap, out \ bad))
             /\ rb' = [rb EXCEPT !.synced = @ \cup out \cup del, !.unrestored = @ \cup bad]
             /\ unruly' = (unruly \/ bad # {})
    BY <1>4
  <2>2. bad \subseteq out \cup gone
    BY FailingPart
  <2>3. bad \in SUBSET Path /\ gone \ bad \in SUBSET Path /\ out \ bad \in SUBSET Path
        /\ out \cup del \in SUBSET Path
    BY <1>1, <1>2, <2>2
  <2>4. CheckedOut(Removed(tree, gone \ bad), rb.snap, out \ bad)
          = [p \in Path |-> IF p \in out \ bad THEN rb.snap.tree[p]
                            ELSE IF p \in gone \ bad THEN Absent ELSE tree[p]]
    BY DEF CheckedOut, Removed
  <2>5. Restores(gone \ bad, out \ bad)
    BY <1>1, <1>2, <2>1, <2>4 DEF Restores
  <2>6. bad = {} => \A r \in out \cup del : rb.snap.tree[r] # Absent => r \in out \ bad
    BY <1>1
  <2>7. rb' = [rb EXCEPT !.synced = rb.synced \cup (out \cup del),
                         !.unrestored = rb.unrestored \cup bad]
    BY <2>1 DEF Types, RollbackOK, Rollbacks
  <2>8. SyncsRules(gone \ bad, out \ bad, bad)
    BY <1>2, <2>1, <2>3, <2>5, <2>6, <2>7 DEF SyncsRules
  <2> QED
    BY <2>3, <2>8
<1> QED
  BY <1>3, <1>4 DEF SyncRules

\* DeleteNew removes what it may of the new files.
LEMMA DeleteStep ==
  ASSUME Types, StepInv, DeleteNew
  PROVE  \E gone \in SUBSET rb.delete, bad \in SUBSET Path : Deletes(gone, bad)
<1> DEFINE del == Deletable(tree, rb.snap, rb.delete)
<1>1. del \subseteq rb.delete /\ rb.delete \subseteq Path
  BY DeletablePart DEF Types, RollbackOK, Rollbacks
<1> HIDE DEF del
<1>2. PICK bad \in FailingOf({p \in del : tree[p] # Absent}) :
          /\ Written(Removed(tree, del \ bad))
          /\ rb' = [rb EXCEPT !.at = "ignored", !.delete = @ \ del, !.unrestored = @ \cup bad]
  BY DEF DeleteNew, del
<1>3. bad \subseteq del
  BY FailingPart
<1>4. Removed(tree, del \ bad)
        = [p \in Path |-> IF p \in {} THEN rb.snap.tree[p]
                          ELSE IF p \in del \ bad THEN Absent ELSE tree[p]]
  BY DEF Removed
<1>5. Restores(del \ bad, {})
  BY <1>1, <1>2, <1>4 DEF Restores, StepInv
<1>6. Deletes(del \ bad, bad)
  BY <1>2, <1>5 DEF Deletes, del
<1> QED
  BY <1>1, <1>3, <1>6

\* NewIgnored keeps the new ignored files or removes what it may.
LEMMA NewIgnoredStep ==
  ASSUME Types, StepInv, NewIgnored
  PROVE  KeepsNew \/ \E gone \in SUBSET rb.delete, bad \in SUBSET Path : RemovesNew(gone, bad)
<1>1. CASE ~rb.remove
  BY <1>1 DEF NewIgnored, KeepsNew
<1>2. CASE rb.remove
  <2>1. PICK bad \in FailingOf({p \in rb.delete : tree[p] # Absent}) :
            /\ Written(Removed(tree, rb.delete \ bad))
            /\ rb' = [rb EXCEPT !.at = "checkout", !.unrestored = @ \cup bad]
    BY <1>2 DEF NewIgnored
  <2>2. bad \subseteq rb.delete /\ rb.delete \subseteq Path
    BY FailingPart DEF Types, RollbackOK, Rollbacks
  <2>3. Removed(tree, rb.delete \ bad)
          = [p \in Path |-> IF p \in {} THEN rb.snap.tree[p]
                            ELSE IF p \in rb.delete \ bad THEN Absent ELSE tree[p]]
    BY DEF Removed
  <2>4. Restores(rb.delete \ bad, {})
    BY <2>1, <2>2, <2>3 DEF Restores, StepInv
  <2>5. RemovesNew(rb.delete \ bad, bad)
    BY <1>2, <2>1, <2>4 DEF RemovesNew
  <2> QED
    BY <2>2, <2>5
<1> QED
  BY <1>1, <1>2

\* Checkout writes what it can of the files of the snapshot.
LEMMA CheckoutStep ==
  ASSUME Types, StepInv, Checkout
  PROVE  \E out \in SUBSET rb.checkout, bad \in SUBSET Path : ChecksOut(out, bad)
<1>1. PICK bad \in FailingOf(rb.checkout) :
          /\ Written(CheckedOut(tree, rb.snap, rb.checkout \ bad))
          /\ rb' = [rb EXCEPT !.at = "verify", !.unrestored = @ \cup bad]
  BY DEF Checkout
<1>2. bad \subseteq rb.checkout /\ rb.checkout \subseteq Path
  BY FailingPart DEF Types, RollbackOK, Rollbacks
<1>3. CheckedOut(tree, rb.snap, rb.checkout \ bad)
        = [p \in Path |-> IF p \in rb.checkout \ bad THEN rb.snap.tree[p]
                          ELSE IF p \in {} THEN Absent ELSE tree[p]]
  BY DEF CheckedOut
<1>4. Restores({}, rb.checkout \ bad)
  BY <1>1, <1>2, <1>3 DEF Restores, StepInv
<1>5. ChecksOut(rb.checkout \ bad, bad)
  BY <1>1, <1>4 DEF ChecksOut
<1> QED
  BY <1>2, <1>5

\* A step of restore leaves a tree of files, and what it writes is touched.
LEMMA RestoresFiles ==
  ASSUME Types, Sound(rb.snap), NEW gone, NEW out, Restores(gone, out),
         UNCHANGED <<manifest, spilled, thrown>>, unruly' \in BOOLEAN
  PROVE  /\ Filed(tree)' /\ HistoryOK'
         /\ \A s : Fresh(s) => (manifest' /\ s.listed /\ ~s.torn =>
                                    \A p \in Path \ touched' : tree'[p] = s.all[p])
<1> DEFINE t == [p \in Path |-> IF p \in out THEN rb.snap.tree[p]
                                ELSE IF p \in gone THEN Absent ELSE tree[p]]
<1>1. Written(t) /\ tree' = t
  BY DEF Restores, Written
<1>2. \A p \in out : rb.snap.tree[p] \in Contents[p]
  BY SoundContents DEF Restores
<1>3. \A p \in gone : Absent \in Contents[p]
  BY SoundContents DEF Restores
<1>4. \A p \in Path : t[p] \in Contents[p]
  BY <1>2, <1>3 DEF Types, RepoOK, Filed
<1>5. Filed(t)
  BY <1>4 DEF Filed, Trees
<1>6. HistoryOK' /\ Filed(tree)'
  BY <1>1, <1>5, WrittenType
<1>7. manifest => touched \subseteq touched' /\ \A p \in Path \ touched' : tree'[p] = tree[p]
  BY <1>1 DEF Written
<1>8. \A s : Fresh(s) => (manifest' /\ s.listed /\ ~s.torn =>
                              \A p \in Path \ touched' : tree'[p] = s.all[p])
  BY <1>7 DEF Fresh
<1> QED
  BY <1>6, <1>8

-----------------------------------------------------------------------------
\* Types.

\* The initial states are well typed.
LEMMA TypeInit == Init => Types
<1> SUFFICES ASSUME Init PROVE Types
  OBVIOUS
<1>1. Filed(tree)
  BY SnapshotsAssumption DEF Init, Filed, Trees
<1>2. RepoOK
  BY <1>1, InitialTypes DEF Init, RepoOK
<1>3. KernelOK /\ HistoryOK
  BY DEF Init, KernelOK, HistoryOK
<1>4. RollbackOK
  BY InitialTypes DEF Init, RollbackOK
<1> QED
  BY <1>2, <1>3, <1>4 DEF Types

\* Every step keeps the types; restoring needs what is known of the snapshot.
LEMMA TypeNext == IInv /\ [Next]_vars => Types'
<1> SUFFICES ASSUME IInv, [Next]_vars PROVE Types'
  OBVIOUS
<1> DEFINE Goal == RepoOK' /\ KernelOK' /\ RollbackOK' /\ HistoryOK'
<1>0. /\ RepoOK /\ KernelOK /\ RollbackOK /\ HistoryOK /\ Types /\ RowInv /\ StepInv
      /\ CaptureInv
  BY DEF IInv, Types
<1>1. ASSUME NEW o \in Op, Start(o) PROVE Goal
  <2>1. KernelOK'
    BY <1>0, <1>1 DEF Start, KernelOK, ReleasedBy, Rows, Rollbacks, Phases, repo,
       kernel, history, bounds
  <2>2. RepoOK' /\ RollbackOK' /\ HistoryOK'
    BY <1>0, <1>1 DEF Start, RepoOK, RollbackOK, HistoryOK, repo, kernel, history
  <2> QED
    BY <2>1, <2>2
<1>2. ASSUME NEW o \in Op, Finish(o) PROVE Goal
  <2>1. KernelOK'
    <3>1. [op |-> o, confined |-> o \in Confined] \in [op : Op, confined : BOOLEAN]
      OBVIOUS
    <3>2. results' \in SUBSET [op : Op, confined : BOOLEAN]
      BY <1>0, <1>2, <3>1 DEF Finish, KernelOK
    <3> QED
      BY <1>0, <1>2, <3>2 DEF Finish, KernelOK
  <2>2. RepoOK' /\ RollbackOK' /\ HistoryOK'
    BY <1>0, <1>2 DEF Finish, RepoOK, RollbackOK, HistoryOK, repo, kernel, history
  <2> QED
    BY <2>1, <2>2
<1>3. ASSUME NEW o \in Op, NEW p \in Path, Edit(o, p) PROVE Goal
  <2>1. RepoOK'
    <3>1. PICK c \in Contents[p] : tree' = [tree EXCEPT ![p] = c]
      BY <1>3 DEF Edit
    <3>2. Filed(tree)'
      BY <1>0, <3>1 DEF RepoOK, Filed, Trees
    <3> QED
      BY <1>0, <1>3, <3>2 DEF Edit, RepoOK, repo
  <2>2. HistoryOK'
    BY <1>0, <1>3, SnapshotsAssumption DEF Edit, HistoryOK
  <2>3. KernelOK' /\ RollbackOK'
    BY <1>0, <1>3 DEF Edit, KernelOK, RollbackOK, kernel
  <2> QED
    BY <2>1, <2>2, <2>3
<1>4. ASSUME NEW roots \in SUBSET Root, NEW full \in BOOLEAN, NEW listed \in BOOLEAN, CaptureBegin(roots, full, listed) PROVE Goal
  <2>1. RepoOK'
    <3>1. Ignored(tree) \cap In(roots) \in SUBSET Path
      BY InPaths
    <3>2. cap'.row \in Rows
      BY <1>0, <1>4, <3>1, InitialTypes DEF CaptureBegin, RepoOK, Filed, Rows
    <3> QED
      BY <1>0, <1>4, <3>2 DEF CaptureBegin, RepoOK
  <2>2. KernelOK'
    BY <1>0, <1>4 DEF CaptureBegin, KernelOK, repo, kernel, history
  <2>3. HistoryOK'
    BY <1>0, <1>4 DEF CaptureBegin, HistoryOK, repo, kernel, history
  <2>4. RollbackOK'
    BY <1>0, <1>4 DEF CaptureBegin, RollbackOK, repo, kernel, history
  <2> QED
    BY <2>1, <2>2, <2>3, <2>4
<1>5. ASSUME CaptureTree PROVE Goal
  <2>1. RepoOK'
    <3>1. CapturedTree(tree, cap.row.roots, cap.row.full) \in Trees /\ tree \in Trees
      BY <1>0, CapturedType DEF RepoOK, Filed
    <3>2. cap' \in [at : {"idle", "listed", "captured"}, row : Rows]
      BY <1>0, <1>5, <3>1 DEF CaptureTree, RepoOK, Rows
    <3> QED
      BY <1>0, <1>5, <3>2 DEF CaptureTree, RepoOK
  <2>2. KernelOK' /\ RollbackOK' /\ HistoryOK'
    BY <1>0, <1>5 DEF CaptureTree, KernelOK, RollbackOK, HistoryOK, repo, kernel,
       history
  <2> QED
    BY <2>1, <2>2
<1>6. ASSUME CaptureRecord PROVE Goal
  <2>1. RepoOK'
    BY <1>0, <1>6, InitialTypes DEF CaptureRecord, RepoOK, Rows
  <2>2. KernelOK'
    BY <1>0, <1>6 DEF CaptureRecord, KernelOK, ReleasedBy, repo, kernel, history
  <2>3. HistoryOK'
    BY <1>0, <1>6 DEF CaptureRecord, HistoryOK, repo, kernel, history
  <2>4. RollbackOK'
    BY <1>0, <1>6 DEF CaptureRecord, RollbackOK, repo, kernel, history
  <2> QED
    BY <2>1, <2>2, <2>3, <2>4
<1>7. ASSUME CaptureFails PROVE Goal
  <2>1. RepoOK'
    BY <1>0, <1>7, InitialTypes DEF CaptureFails, RepoOK
  <2>2. KernelOK'
    BY <1>0, <1>7 DEF CaptureFails, KernelOK, ReleasedBy, repo, kernel
  <2>3. RollbackOK' /\ HistoryOK'
    BY <1>0, <1>7 DEF CaptureFails, RollbackOK, HistoryOK, repo, kernel, history, bounds
  <2> QED
    BY <2>1, <2>2, <2>3
<1>8. ASSUME PruneRef PROVE Goal
  <2>1. RepoOK'
    BY <1>0, <1>8 DEF PruneRef, RepoOK, ReleasedBy, Rows, Rollbacks, Phases, repo,
       kernel, history, bounds
  <2>2. KernelOK' /\ RollbackOK' /\ HistoryOK'
    BY <1>0, <1>8 DEF PruneRef, KernelOK, RollbackOK, HistoryOK, repo, kernel, history
  <2> QED
    BY <2>1, <2>2
<1>9. ASSUME PruneManifest PROVE Goal
  <2>1. RepoOK'
    BY <1>0, <1>9 DEF PruneManifest, RepoOK, ReleasedBy, Rows, Rollbacks, Phases, repo,
       kernel, history, bounds
  <2>2. KernelOK' /\ RollbackOK' /\ HistoryOK'
    BY <1>0, <1>9 DEF PruneManifest, KernelOK, RollbackOK, HistoryOK, repo, kernel,
       history
  <2> QED
    BY <2>1, <2>2
<1>10. ASSUME PruneRow PROVE Goal
  <2>1. RepoOK'
    BY <1>0, <1>10, InitialTypes DEF PruneRow, RepoOK
  <2>2. KernelOK' /\ RollbackOK' /\ HistoryOK'
    BY <1>0, <1>10 DEF PruneRow, KernelOK, RollbackOK, HistoryOK, repo, kernel, history
  <2> QED
    BY <2>1, <2>2
<1>11. ASSUME NEW roots \in SUBSET Root, NEW remove \in {FALSE, row.full}, RollbackBegin(roots, remove) PROVE Goal
  <2>1. KernelOK'
    BY <1>0, <1>11 DEF RollbackBegin, KernelOK
  <2>2. RollbackOK'
    <3>1. rb' \in Rollbacks
      BY <1>0, <1>11, InitialTypes DEF RollbackBegin, RepoOK, Rollbacks, Rows, Phases
    <3> QED
      BY <1>0, <1>11, <3>1, InitialTypes DEF RollbackBegin, RollbackOK
  <2>3. RepoOK' /\ HistoryOK'
    BY <1>0, <1>11 DEF RollbackBegin, RepoOK, HistoryOK, repo, kernel, history, bounds
  <2> QED
    BY <2>1, <2>2, <2>3
<1>12. ASSUME SyncRules PROVE Goal
  <2>1. UNCHANGED <<cap, repo, rollback, kernel, claim, spilled, thrown>> /\ rb.at = "rules"
    BY <1>12 DEF SyncRules
  <2>2. CASE SyncEnds
    <3>1. rb' \in Rollbacks
      BY <1>0, <2>2, ChangesSplit, InPaths DEF SyncEnds, RollbackOK, Rollbacks, Phases
    <3> QED
      BY <1>0, <2>1, <2>2, <3>1 DEF SyncEnds, RepoOK, KernelOK, RollbackOK, HistoryOK,
         repo, kernel
  <2>3. CASE \E gone, out, bad \in SUBSET Path : SyncsRules(gone, out, bad)
    <3>1. PICK gone, out, bad \in SUBSET Path : SyncsRules(gone, out, bad)
      BY <2>3
    <3>2. rb' \in Rollbacks
      BY <1>0, <3>1 DEF SyncsRules, RollbackOK, Rollbacks, Rules
    <3>3. unruly' \in BOOLEAN
      BY <1>0, <3>1 DEF SyncsRules
    <3>4. Sound(rb.snap) /\ Restores(gone, out) /\ UNCHANGED <<manifest, spilled, thrown>>
      BY <1>0, <2>1, <3>1 DEF RowInv, SyncsRules, repo
    <3>5. Filed(tree)' /\ HistoryOK'
      BY <1>0, <3>3, <3>4, RestoresFiles
    <3> QED
      BY <1>0, <2>1, <3>2, <3>5 DEF RepoOK, KernelOK, RollbackOK, repo, kernel
  <2> QED
    BY <1>12, <1>0, <2>2, <2>3, SyncStep
<1>13. ASSUME DeleteNew PROVE Goal
  <2>1. UNCHANGED <<cap, repo, rollback, kernel, claim, spilled, thrown, unruly>>
        /\ rb.at = "delete"
    BY <1>13 DEF DeleteNew
  <2>2. PICK gone \in SUBSET rb.delete, bad \in SUBSET Path : Deletes(gone, bad)
    BY <1>13, <1>0, DeleteStep
  <2>3. rb' \in Rollbacks
    BY <1>0, <2>2 DEF Deletes, RollbackOK, Rollbacks, Phases
  <2>4. Sound(rb.snap) /\ Restores(gone, {}) /\ UNCHANGED <<manifest, spilled, thrown>>
        /\ unruly' \in BOOLEAN
    BY <1>0, <2>1, <2>2 DEF RowInv, Deletes, repo, HistoryOK
  <2>5. Filed(tree)' /\ HistoryOK'
    BY <1>0, <2>4, RestoresFiles
  <2> QED
    BY <1>0, <2>1, <2>3, <2>5 DEF RepoOK, KernelOK, RollbackOK, repo, kernel
<1>14. ASSUME NewIgnored PROVE Goal
  <2>1. UNCHANGED <<cap, repo, rollback, kernel, claim, spilled, thrown, unruly>>
        /\ rb.at = "ignored"
    BY <1>14 DEF NewIgnored
  <2>2. CASE KeepsNew
    <3>1. rb' \in Rollbacks
      BY <1>0, <2>2 DEF KeepsNew, RollbackOK, Rollbacks, Phases
    <3> QED
      BY <1>0, <2>1, <2>2, <3>1 DEF KeepsNew, RepoOK, KernelOK, RollbackOK, HistoryOK,
         repo, kernel
  <2>3. CASE \E gone \in SUBSET rb.delete, bad \in SUBSET Path : RemovesNew(gone, bad)
    <3>1. PICK gone \in SUBSET rb.delete, bad \in SUBSET Path : RemovesNew(gone, bad)
      BY <2>3
    <3>2. rb' \in Rollbacks
      BY <1>0, <3>1 DEF RemovesNew, RollbackOK, Rollbacks, Phases
    <3>3. Sound(rb.snap) /\ Restores(gone, {}) /\ UNCHANGED <<manifest, spilled, thrown>>
          /\ unruly' \in BOOLEAN
      BY <1>0, <2>1, <3>1 DEF RowInv, RemovesNew, repo, HistoryOK
    <3>4. Filed(tree)' /\ HistoryOK'
      BY <1>0, <3>3, RestoresFiles
    <3> QED
      BY <1>0, <2>1, <3>2, <3>4 DEF RepoOK, KernelOK, RollbackOK, repo, kernel
  <2> QED
    BY <1>14, <1>0, <2>2, <2>3, NewIgnoredStep
<1>15. ASSUME Checkout PROVE Goal
  <2>1. UNCHANGED <<cap, repo, rollback, kernel, claim, spilled, thrown, unruly>>
        /\ rb.at = "checkout"
    BY <1>15 DEF Checkout
  <2>2. PICK out \in SUBSET rb.checkout, bad \in SUBSET Path : ChecksOut(out, bad)
    BY <1>15, <1>0, CheckoutStep
  <2>3. rb' \in Rollbacks
    BY <1>0, <2>2 DEF ChecksOut, RollbackOK, Rollbacks, Phases
  <2>4. Sound(rb.snap) /\ Restores({}, out) /\ UNCHANGED <<manifest, spilled, thrown>>
        /\ unruly' \in BOOLEAN
    BY <1>0, <2>1, <2>2 DEF RowInv, ChecksOut, repo, HistoryOK
  <2>5. Filed(tree)' /\ HistoryOK'
    BY <1>0, <2>4, RestoresFiles
  <2> QED
    BY <1>0, <2>1, <2>3, <2>5 DEF RepoOK, KernelOK, RollbackOK, repo, kernel
<1>16. ASSUME Verify PROVE Goal
  <2>1. RollbackOK'
    BY <1>0, <1>16 DEF Verify, RollbackOK, Rollbacks, Phases
  <2>2. RepoOK' /\ KernelOK' /\ HistoryOK'
    BY <1>0, <1>16 DEF Verify, RepoOK, KernelOK, HistoryOK, repo, kernel, history
  <2> QED
    BY <2>1, <2>2
<1>17. ASSUME Claim PROVE Goal
  <2>1. KernelOK'
    BY <1>0, <1>17 DEF Claim, KernelOK, ReleasedBy
  <2>2. RollbackOK'
    <3>1. claim' \in Claims
      BY <1>0, <1>17, ClaimedType DEF Claim
    <3> QED
      BY <1>0, <1>17, <3>1, InitialTypes DEF Claim, RollbackOK
  <2>3. HistoryOK'
    BY <1>0, <1>17 DEF Claim, HistoryOK, ReleasedBy, Rows, Rollbacks, Phases, repo,
       kernel, history, bounds
  <2>4. RepoOK'
    BY <1>0, <1>17 DEF Claim, RepoOK, repo, kernel, history
  <2> QED
    BY <2>1, <2>2, <2>3, <2>4
<1>18. ASSUME RollbackThrows PROVE Goal
  <2>1. KernelOK'
    BY <1>0, <1>18 DEF RollbackThrows, KernelOK, ReleasedBy
  <2>2. RollbackOK'
    BY <1>0, <1>18 DEF RollbackThrows, RollbackOK, Rollbacks, Phases
  <2>3. HistoryOK'
    BY <1>0, <1>18 DEF RollbackThrows, HistoryOK
  <2>4. RepoOK'
    BY <1>0, <1>18 DEF RollbackThrows, RepoOK, repo, kernel, history, bounds
  <2> QED
    BY <2>1, <2>2, <2>3, <2>4
<1>19. ASSUME Crash PROVE Goal
  <2>1. KernelOK'
    <3>1. ASSUME NEW r \in Root, \E o \in Op : ops[o] = "running" /\ OpRoot[o] = r
          PROVE  (CHOOSE o \in Op : ops[o] = "running" /\ OpRoot[o] = r) \in Op
      BY <3>1
    <3> QED
      BY <1>0, <1>19, <3>1 DEF Crash, KernelOK
  <2>2. RollbackOK'
    BY <1>0, <1>19 DEF Crash, RollbackOK, Rollbacks, Phases
  <2>3. RepoOK' /\ HistoryOK'
    BY <1>0, <1>19 DEF Crash, RepoOK, HistoryOK, repo, kernel, history, bounds
  <2> QED
    BY <2>1, <2>2, <2>3
<1>20. ASSUME Recover PROVE Goal
  <2>1. RepoOK'
    BY <1>0, <1>20, InitialTypes DEF Recover, RepoOK, repo
  <2>2. KernelOK'
    <3>1. \A o \in Op : [op |-> o, confined |-> FALSE] \in [op : Op, confined : BOOLEAN]
      OBVIOUS
    <3>2. \A e \in results' : e \in results \/ \E o \in Op : e = [op |-> o, confined |-> FALSE]
      BY <1>20 DEF Recover
    <3>3. ops' \in [Op -> {"none", "running", "done"}]
      BY <1>0, <1>20 DEF Recover, KernelOK
    <3>4. lease' \in [Root -> Op \cup {Nobody, "capture", "rollback"}]
      BY <1>0, <1>20 DEF Recover
    <3>5. ASSUME NEW e \in results' PROVE e \in [op : Op, confined : BOOLEAN]
      <4>1. CASE e \in results
        BY <1>0, <4>1 DEF KernelOK
      <4>2. CASE \E o \in Op : e = [op |-> o, confined |-> FALSE]
        BY <3>1, <4>2
      <4> QED
        BY <3>2, <3>5, <4>1, <4>2
    <3> QED
      BY <1>20, <3>3, <3>4, <3>5 DEF Recover, KernelOK
  <2>3. RollbackOK'
    <3>1. Claimed("restored", "unverified", "absent") \in Claims
      BY <1>0, ClaimedType
    <3> QED
      BY <1>0, <1>20, <3>1, InitialTypes DEF Recover, RollbackOK
  <2>4. HistoryOK'
    BY <1>0, <1>20 DEF Recover, HistoryOK, ReleasedBy, Rows, Rollbacks, Phases, repo,
       kernel, history, bounds
  <2> QED
    BY <2>1, <2>2, <2>3, <2>4
<1>21. ASSUME Adjudicate PROVE Goal
  <2>1. KernelOK'
    BY <1>0, <1>21 DEF Adjudicate, KernelOK, ReleasedBy
  <2>2. RollbackOK'
    BY <1>0, <1>21, InitialTypes DEF Adjudicate, RollbackOK
  <2>3. HistoryOK'
    BY <1>0, <1>21 DEF Adjudicate, HistoryOK, ReleasedBy, Rows, Rollbacks, Phases, repo,
       kernel, history, bounds
  <2>4. RepoOK'
    BY <1>0, <1>21 DEF Adjudicate, RepoOK, repo, kernel, history
  <2> QED
    BY <2>1, <2>2, <2>3, <2>4
<1>22. ASSUME UNCHANGED vars PROVE Goal
  BY <1>0, <1>22 DEF vars, repo, kernel, history, RepoOK, KernelOK, RollbackOK,
     HistoryOK
<1>23. Goal
  BY <1>1, <1>2, <1>3, <1>4, <1>5, <1>6, <1>7, <1>8, <1>9, <1>10, <1>11, <1>12, <1>13,
     <1>14, <1>15, <1>16, <1>17, <1>18, <1>19, <1>20, <1>21, <1>22 DEF Next
<1> QED
  BY <1>23 DEF Types

-----------------------------------------------------------------------------
\* What the steps of a rollback keep.

\* What is written since the manifest is touched, by an operation too.
LEMMA EditFresh ==
  ASSUME Types, NEW o \in Op, NEW p \in Path, Edit(o, p)
  PROVE  \A s : Fresh(s) => (manifest' /\ s.listed /\ ~s.torn =>
                                 \A q \in Path \ touched' : tree'[q] = s.all[q])
<1>1. manifest' = manifest /\ \A q \in Path \ {p} : tree'[q] = tree[q]
  BY DEF Edit, repo, Filed, Trees
<1>2. manifest => touched' = touched \cup {p}
  BY DEF Edit
<1> QED
  BY <1>1, <1>2 DEF Fresh

\* The history of what was robbed: an ignored file is removed only if it is
\* among the paths a step removes, the snapshot does not hold all files, and
\* then only if the rules inside the roots did not ignore it or it is a rule.
LEMMA RobsOnly ==
  ASSUME Types, Sound(rb.snap), NEW gone, NEW out, Restores(gone, out),
         NEW x \in robbed', x \notin robbed
  PROVE  /\ x.file \in gone /\ ~rb.snap.full
         /\ x.inside <=> x.file \in MatchedIn(rb.snap.tree, rb.snap.roots)
<1> DEFINE t == [p \in Path |-> IF p \in out THEN rb.snap.tree[p]
                                ELSE IF p \in gone THEN Absent ELSE tree[p]]
<1>1. PICK p \in Path :
          /\ x = [file |-> p, inside |-> p \in MatchedIn(rb.snap.tree, rb.snap.roots)]
          /\ t[p] # tree[p] /\ t[p] = Absent
          /\ rb.snap.all[p] # Absent /\ rb.snap.tree[p] = Absent
  BY DEF Restores, Written
<1>2. p \in gone
  BY <1>1 DEF Restores
<1>3. ~rb.snap.full
  BY <1>1, <1>2, FullIsAll DEF Restores
<1> QED
  BY <1>1, <1>2, <1>3

\* When the loop over the rule files ends, the rule files of the roots are the
\* snapshot's and git lists none of the files they ignore.
LEMMA RulesEnd ==
  ASSUME Types, RulesInv, rb.at = "rules", SyncEnds
  PROVE  ~unruly /\ ~rb.snap.full =>
            Changes(tree, rb.snap).delete \cap MatchedIn(rb.snap.tree, rb.snap.roots) = {}
<1> SUFFICES ASSUME ~unruly, ~rb.snap.full, NEW p \in Changes(tree, rb.snap).delete,
                    p \in MatchedIn(rb.snap.tree, rb.snap.roots)
             PROVE  FALSE
  OBVIOUS
<1> DEFINE s == rb.snap
           now == Fingerprint(tree, s.roots, s, s.full)
<1>1. PICK r \in Rules : s.tree[r] # Absent /\ RootOf[r] \in s.roots /\ p \in s.tree[r]
  BY DEF MatchedIn
<1>2. r \in In(s.roots) /\ r \in Path /\ p \in In(s.roots) /\ p \in Path
  BY <1>1, ChangesSplit DEF Rules, In
<1>3. now[r] = tree[r] /\ (p \in Matched(tree) /\ s.tree[p] = Absent => now[p] = Absent)
  BY <1>1, <1>2 DEF Fingerprint
<1>4. now[p] # s.tree[p] /\ s.tree[p] = Absent
  BY DEF Changes
<1>5. r \in Changes(tree, s).checkout \/ tree[r] = s.tree[r]
  BY <1>1, <1>2, <1>3 DEF Changes
<1>6. tree[r] = s.tree[r]
  BY <1>1, <1>5 DEF SyncEnds, RulesInv
<1>7. p \in Matched(tree)
  BY <1>1, <1>6 DEF Matched
<1> QED
  BY <1>3, <1>4, <1>7

-----------------------------------------------------------------------------
\* What a claim of complete or confined effects rests on.

\* allEffectsConfinedToRoots says that nobody foreign has run.
LEMMA ConfinedNotForeign ==
  ASSUME Types, SpillInv, NEW roots, EffectsConfined(roots)
  PROVE  ~Foreign(roots)
  BY DEF EffectsConfined, Foreign, Ran, SpillInv

\* Then nothing was written outside of the roots.
LEMMA ConfinedQuiet ==
  ASSUME Types, SpillInv, NEW roots, ~Foreign(roots)
  PROVE  spilled \subseteq roots
  BY DEF Foreign, SpillInv

\* A verified tree holds what the snapshot holds; all of it if the ignored files
\* are in the snapshot.
LEMMA VerifiedSame ==
  ASSUME Types, Sound(rb.snap), Verified, rb.kept = {},
         NEW p \in In(rb.roots \cap rb.snap.roots)
  PROVE  /\ rb.snap.tree[p] # Absent => tree[p] = rb.snap.tree[p]
         /\ rb.snap.full => tree[p] = rb.snap.all[p]
         /\ rb.snap.tree[p] = Absent /\ p \notin Matched(tree) => tree[p] = Absent
<1>1. p \in In(rb.roots) /\ p \in In(rb.snap.roots) /\ p \in Path
  BY DEF In
<1>2. Fingerprint(tree, rb.roots, rb.snap, rb.snap.full /\ rb.kept = {})[p] = rb.snap.tree[p]
  BY DEF Verified
<1>3. (IF (rb.snap.full /\ rb.kept = {}) \/ rb.snap.tree[p] # Absent \/ p \notin Matched(tree)
       THEN tree[p] ELSE Absent) = rb.snap.tree[p]
  BY <1>1, <1>2 DEF Fingerprint
<1>4. rb.snap.full => rb.snap.tree[p] = rb.snap.all[p]
  BY <1>1, FullIsAll
<1> QED
  BY <1>3, <1>4

\* A manifest is called unchanged only if it lists what is ignored now and
\* nothing on it was touched.
LEMMA ManifestUnchanged ==
  ASSUME NEW s, "unchanged" \in ManifestStates(s)
  PROVE  /\ s.listed /\ manifest
         /\ s.ignored = Ignored(tree) \cap In(s.roots)
         /\ s.ignored \cap touched = {}
  BY DEF ManifestStates

\* With such a manifest the ignored files are as they were as well.
LEMMA UnchangedTold ==
  ASSUME Types, Sound(rb.snap), Fresh(rb.snap), Verified, rb.kept = {},
         "unchanged" \in ManifestStates(rb.snap), ~rb.snap.torn, ~rb.snap.full,
         NEW p \in In(rb.roots \cap rb.snap.roots),
         p \notin Tracked \/ rb.snap.all[p] # Absent
  PROVE  tree[p] = rb.snap.all[p]
<1> DEFINE s == rb.snap
<1>1. p \in In(s.roots) /\ p \in Path
  BY DEF In
<1>2. s.tree[p] = IF p \in Tracked \/ p \notin Matched(s.all) THEN s.all[p] ELSE Absent
  BY <1>1 DEF Sound
<1>3. /\ s.listed /\ manifest /\ s.ignored \cap touched = {}
      /\ s.ignored = Ignored(tree) \cap In(s.roots)
      /\ s.ignored = Ignored(s.all) \cap In(s.roots)
  BY ManifestUnchanged DEF Sound
<1>4. CASE s.tree[p] # Absent
  BY <1>2, <1>4, VerifiedSame
<1>5. CASE s.tree[p] = Absent
  <2>1. p \notin Tracked
    BY <1>2, <1>5
  <2>2. p \in s.ignored <=> p \in Matched(tree) /\ tree[p] # Absent
    BY <1>1, <1>3, <2>1 DEF Ignored
  <2>3. p \in s.ignored <=> p \in Matched(s.all) /\ s.all[p] # Absent
    BY <1>1, <1>3, <2>1 DEF Ignored
  <2>4. CASE p \in s.ignored
    BY <1>1, <1>3, <2>4 DEF Fresh
  <2>5. CASE p \notin s.ignored
    <3>1. s.all[p] = Absent
      BY <1>2, <1>5, <2>1, <2>3, <2>5
    <3>2. tree[p] = Absent
      BY <1>5, <2>2, <2>5, VerifiedSame
    <3> QED
      BY <3>1, <3>2
  <2> QED
    BY <2>4, <2>5
<1> QED
  BY <1>4, <1>5

\* The claim that a rollback ends with is true.
LEMMA ClaimHolds ==
  ASSUME IInv, Claim
  PROVE  ClaimsAreTrue'
<1>1. /\ Types /\ SpillInv /\ Sound(rb.snap) /\ Fresh(rb.snap)
      /\ rb.match => Verified \/ Foreign(rb.roots)
  BY DEF IInv, RowInv, MatchInv, Claim
<1> DEFINE status == IF ~rb.match THEN "failed"
                     ELSE IF rb.unrestored \cup rb.kept # {} THEN "partial" ELSE "restored"
           effects == IF EffectsConfined(rb.roots) THEN "confined" ELSE "unconfined"
<1>2. PICK m \in ManifestStates(rb.snap) : claim' = Claimed(status, effects, m)
  BY DEF Claim
<1> DEFINE c == Coverage(status, effects, rb.snap.full, m)
           shared == In(rb.roots \cap rb.snap.roots)
<1>3. /\ claim'.coverage = c.coverage /\ claim'.spill = c.spill
      /\ claim'.full = rb.snap.full /\ claim'.torn = rb.snap.torn
  BY <1>2 DEF Claimed
<1>4. /\ (\A p \in shared : rb.snap.tree[p] # Absent => tree[p] = rb.snap.tree[p]) => claim'.same
      /\ (\A p \in shared : p \notin Tracked \/ rb.snap.all[p] # Absent => tree[p] = rb.snap.all[p])
           => claim'.told
      /\ (\A p \in shared : tree[p] = rb.snap.all[p]) => claim'.whole
      /\ spilled \subseteq rb.roots => claim'.quiet
  BY <1>2 DEF Claimed
<1>5. CASE status # "restored" \/ effects # "confined"
  <2>1. status \in {"restored", "partial", "failed"}
    OBVIOUS
  <2>2. c.coverage \in {"none", "declared_roots"} /\ c.spill = "possible"
    BY <1>5, <2>1 DEF Coverage
  <2> QED
    BY <1>3, <2>2 DEF ClaimsAreTrue
<1>6. CASE status = "restored" /\ effects = "confined"
  <2>1. rb.match /\ rb.kept = {} /\ EffectsConfined(rb.roots)
    BY <1>6
  <2>2. ~Foreign(rb.roots)
    BY <1>1, <2>1, ConfinedNotForeign
  <2>3. Verified
    BY <1>1, <2>1, <2>2
  <2>4. claim'.quiet
    BY <1>1, <1>4, <2>2, ConfinedQuiet
  <2>5. claim'.same /\ (rb.snap.full => claim'.whole /\ claim'.told)
    BY <1>1, <1>4, <2>1, <2>3, VerifiedSame
  <2>6. c.coverage = "complete" => rb.snap.full \/ m = "unchanged"
    BY <1>6 DEF Coverage
  <2>7. ASSUME m = "unchanged", ~rb.snap.torn, ~rb.snap.full
        PROVE  claim'.told
    BY <1>1, <1>4, <2>1, <2>3, <2>7, UnchangedTold
  <2> QED
    BY <1>3, <2>4, <2>5, <2>6, <2>7 DEF ClaimsAreTrue
<1> QED
  BY <1>5, <1>6

\* What a step of restore leaves alone.
LEMMA RestoreFrame ==
  ASSUME Types, CaptureInv, RowInv, HolderInv, SpillInv, ClaimsAreTrue,
         Sound(rb.snap), NEW gone, NEW out, Restores(gone, out), unruly' \in BOOLEAN,
         UNCHANGED <<cap, repo, rollback, kernel, claim, spilled, thrown>>,
         rb.at # "idle", rb'.at \notin {"idle", "claim"},
         rb'.snap = rb.snap, rb'.roots = rb.roots, rb'.remove = rb.remove
  PROVE  CaptureInv' /\ RowInv' /\ HolderInv' /\ SpillInv' /\ MatchInv' /\ ClaimsAreTrue'
<1>1. UNCHANGED <<row, ref, manifest, pruning, lease, ops, results, up>>
  BY DEF repo, kernel
<1>2. \A s : Fresh(s) => (manifest' /\ s.listed /\ ~s.torn =>
                              \A p \in Path \ touched' : tree'[p] = s.all[p])
  BY <1>1, RestoresFiles
<1>3. /\ cap.at = "captured" => Fresh(cap.row)'
      /\ row.kept => Fresh(row)'
      /\ Fresh(rb.snap)'
  BY <1>1, <1>2 DEF CaptureInv, RowInv, Fresh
<1>4. CaptureInv'
  BY <1>1, <1>3 DEF CaptureInv, Recorded
<1>5. RowInv'
  BY <1>1, <1>3 DEF RowInv, RowHasRef, Recorded
<1>6. HolderInv' /\ MatchInv'
  BY <1>1 DEF HolderInv, MatchInv
<1>7. SpillInv'
  BY <1>1 DEF SpillInv, Recorded, Ran
<1>8. ClaimsAreTrue'
  BY DEF ClaimsAreTrue
<1> QED
  BY <1>4, <1>5, <1>6, <1>7, <1>8

-----------------------------------------------------------------------------
\* The inductive invariant.

\* It holds at first.
LEMMA InvInit == Init => IInv
<1> SUFFICES ASSUME Init PROVE IInv
  OBVIOUS
<1>1. CaptureInv /\ RowInv
  BY DEF Init, CaptureInv, RowInv, RowHasRef, NoRow, Idle
<1>2. StepInv /\ RulesInv /\ MatchInv
  BY DEF Init, StepInv, RulesInv, MatchInv, Idle
<1>3. HolderInv /\ SpillInv
  BY DEF Init, HolderInv, SpillInv
<1>4. IgnoredKept /\ ClaimsAreTrue
  BY DEF Init, IgnoredKept, ClaimsAreTrue, NoClaim
<1> QED
  BY <1>1, <1>2, <1>3, <1>4, TypeInit DEF IInv

\* Who was running or has a result is so afterwards, once the snapshot is
\* recorded.
LEMMA RanStays ==
  ASSUME Types, NEW o \in Op, Recorded,
         \/ \E q \in Op : Start(q) \/ Finish(q)
         \/ Recover,
         Ran(o)
  PROVE  Ran(o)'
<1>1. CASE \E e \in results : e.op = o
  BY <1>1 DEF Start, Finish, Recover, Ran
<1>2. CASE ops[o] = "running"
  <2>1. CASE \E q \in Op : Start(q)
    BY <1>2, <2>1 DEF Start, Ran
  <2>2. ASSUME NEW q \in Op, Finish(q) PROVE Ran(o)'
    <3>1. CASE q # o
      BY <1>2, <2>2, <3>1 DEF Finish, Ran
    <3>2. CASE q = o
      <4>1. [op |-> o, confined |-> o \in Confined] \in results'
        BY <2>2, <3>2 DEF Finish
      <4> QED
        BY <4>1 DEF Ran
    <3> QED
      BY <3>1, <3>2
  <2>3. CASE Recover
    <3>1. [op |-> o, confined |-> FALSE] \in results'
      BY <1>2, <2>3 DEF Recover
    <3> QED
      BY <3>1 DEF Ran
  <2> QED
    BY <2>1, <2>2, <2>3
<1> QED
  BY <1>1, <1>2 DEF Ran

\* So what was known of the writes still is.
LEMMA SpillStays ==
  ASSUME Types, SpillInv, RowInv, MatchInv, UNCHANGED <<row, pruning, spilled, tree>>,
         \A o \in Op : Recorded /\ Ran(o) => Ran(o)',
         \A e \in results' : e \in results \/ (e.confined => e.op \in Confined),
         rb' = rb \/ rb'.at # "claim"
  PROVE  SpillInv' /\ MatchInv'
<1>1. Recorded' = Recorded
  BY DEF Recorded
<1>2. SpillInv'
  BY <1>1 DEF SpillInv
<1>3. rb.at = "claim" => Recorded
  BY DEF RowInv
<1>4. Recorded /\ rb' = rb /\ Foreign(rb.roots) => Foreign(rb.roots)'
  BY DEF Foreign
<1>5. rb' = rb => Verified' = Verified
  BY DEF Verified
<1> QED
  BY <1>2, <1>3, <1>4, <1>5 DEF MatchInv

\* Every step keeps it.
LEMMA InvNext == IInv /\ [Next]_vars => IInv'
<1> SUFFICES ASSUME IInv, [Next]_vars PROVE IInv'
  OBVIOUS
<1> DEFINE Goal == /\ CaptureInv' /\ RowInv' /\ StepInv' /\ RulesInv' /\ HolderInv'
                   /\ SpillInv' /\ MatchInv' /\ IgnoredKept' /\ ClaimsAreTrue'
<1>0. /\ RepoOK /\ KernelOK /\ RollbackOK /\ HistoryOK /\ Types
      /\ CaptureInv /\ RowInv /\ StepInv /\ RulesInv /\ HolderInv
      /\ SpillInv /\ MatchInv /\ IgnoredKept /\ ClaimsAreTrue
  BY DEF IInv, Types
<1>1. ASSUME NEW o \in Op, Start(o) PROVE Goal
  <2>1. HolderInv'
    BY <1>0, <1>1, SnapshotsAssumption DEF Start, HolderInv, repo, kernel, history,
       KernelOK, RollbackOK, Rollbacks
  <2>2. SpillInv' /\ MatchInv'
    <3>1. \A q \in Op : Recorded /\ Ran(q) => Ran(q)'
      BY <1>0, <1>1, RanStays
    <3> QED
      BY <1>0, <1>1, <3>1, SpillStays DEF Start, repo, history
  <2>3. CaptureInv' /\ RowInv' /\ StepInv' /\ RulesInv' /\ IgnoredKept' /\ ClaimsAreTrue'
    BY <1>0, <1>1 DEF Start, CaptureInv, Fresh, Recorded, RowInv, RowHasRef, StepInv,
       RulesInv, IgnoredKept, ClaimsAreTrue, repo, kernel, history
  <2> QED
    BY <2>1, <2>2, <2>3
<1>2. ASSUME NEW o \in Op, Finish(o) PROVE Goal
  <2>1. HolderInv'
    BY <1>0, <1>2, SnapshotsAssumption DEF Finish, HolderInv, repo, kernel, history,
       KernelOK, RollbackOK, Rollbacks
  <2>2. SpillInv' /\ MatchInv'
    <3>1. \A q \in Op : Recorded /\ Ran(q) => Ran(q)'
      BY <1>0, <1>2, RanStays
    <3>2. \A e \in results' : e \in results \/ (e.confined => e.op \in Confined)
      <4>1. \A e \in results' : e \in results \/ e = [op |-> o, confined |-> o \in Confined]
        BY <1>2 DEF Finish
      <4>2. ASSUME NEW e, e = [op |-> o, confined |-> o \in Confined], e.confined
            PROVE  e.op \in Confined
        <5>1. e.op = o /\ e.confined = (o \in Confined)
          BY <4>2
        <5> QED
          BY <4>2, <5>1
      <4> QED
        BY <4>1, <4>2
    <3> QED
      BY <1>0, <1>2, <3>1, <3>2, SpillStays DEF Finish, repo, history
  <2>3. CaptureInv' /\ RowInv' /\ StepInv' /\ RulesInv' /\ IgnoredKept' /\ ClaimsAreTrue'
    BY <1>0, <1>2 DEF Finish, CaptureInv, Fresh, Recorded, RowInv, RowHasRef, StepInv,
       RulesInv, IgnoredKept, ClaimsAreTrue, repo, kernel, history
  <2> QED
    BY <2>1, <2>2, <2>3
<1>3. ASSUME NEW o \in Op, NEW p \in Path, Edit(o, p) PROVE Goal
  <2>1. CaptureInv'
    <3>1. cap.at = "captured" => Fresh(cap.row)'
      BY <1>0, <1>3, EditFresh DEF CaptureInv, Edit, Fresh
    <3> QED
      BY <1>0, <1>3, <3>1 DEF CaptureInv, Edit, repo, Recorded
  <2>2. RowInv'
    <3>1. row.kept => Fresh(row)'
      BY <1>0, <1>3, EditFresh DEF RowInv, Edit, Fresh, repo
    <3>2. rb.at # "idle" => Fresh(rb.snap)'
      BY <1>0, <1>3, EditFresh DEF RowInv, Edit, Fresh
    <3> QED
      BY <1>0, <1>3, <3>1, <3>2 DEF RowInv, RowHasRef, Edit, repo, Recorded
  <2>3. RulesInv'
    <3>1. rb.at = "rules" /\ ~unruly' => p \notin Rules /\ ~unruly
      BY <1>3 DEF Edit
    <3>2. \A r \in Rules : r # p => tree'[r] = tree[r]
      BY <1>0, <1>3 DEF Edit, Filed, Trees, Rules
    <3> QED
      BY <1>0, <1>3, <3>1, <3>2 DEF RulesInv, StepInv, Edit
  <2>4. SpillInv'
    <3>1. \A q \in Op : Ran(q) => Ran(q)'
      BY <1>3 DEF Ran, Edit, kernel
    <3>2. Recorded' = Recorded /\ results' = results
      BY <1>3 DEF Edit, Recorded, repo, kernel
    <3>3. Ran(o)' /\ (o \in Confined => OpRoot[o] = RootOf[p])
      BY <1>3, <3>1 DEF Edit, Ran
    <3> QED
      BY <1>0, <1>3, <3>1, <3>2, <3>3 DEF SpillInv, Edit
  <2>5. MatchInv'
    <3>1. UNCHANGED rb /\ \A q \in Op : Ran(q) => Ran(q)'
      BY <1>3 DEF Ran, Edit, kernel
    <3> SUFFICES ASSUME rb.at = "claim" PROVE Foreign(rb.roots)'
      BY <3>1 DEF MatchInv
    <3>2. rollback \in {"active", "indeterminate"} /\ ~thrown
      BY <1>0 DEF StepInv, RollbackOK
    <3>3. OpRoot[o] \notin rb.roots
      BY <1>0, <1>3, <3>2, SnapshotsAssumption DEF HolderInv, Edit
    <3>4. Ran(o)
      BY <1>3 DEF Edit, Ran
    <3> QED
      BY <3>1, <3>3, <3>4 DEF Foreign
  <2>6. IgnoredKept'
    BY <1>0, <1>3 DEF Edit, IgnoredKept, repo, kernel, history, RepoOK, RollbackOK,
       Rollbacks
  <2>7. StepInv' /\ HolderInv' /\ ClaimsAreTrue'
    BY <1>0, <1>3 DEF Edit, StepInv, HolderInv, ClaimsAreTrue, kernel
  <2> QED
    BY <2>1, <2>2, <2>3, <2>4, <2>5, <2>6, <2>7
<1>4. ASSUME NEW roots \in SUBSET Root, NEW full \in BOOLEAN, NEW listed \in BOOLEAN, CaptureBegin(roots, full, listed) PROVE Goal
  <2>1. CaptureInv'
    <3>1. /\ cap'.at = "listed" /\ cap'.row.all = tree /\ cap'.row.torn = FALSE
          /\ cap'.row.roots = roots /\ cap'.row.full = full
          /\ cap'.row.listed = (listed /\ ~full) /\ manifest' = (listed /\ ~full)
      BY <1>4 DEF CaptureBegin, NoRow
    <3>2. listed /\ ~full => cap'.row.ignored = Ignored(tree) \cap In(roots)
      BY <1>4 DEF CaptureBegin, NoRow
    <3>3. ~Recorded'
      BY <1>4 DEF CaptureBegin, Recorded
    <3> QED
      BY <1>0, <3>1, <3>2, <3>3 DEF CaptureInv, RepoOK
  <2>2. RowInv'
    BY <1>0, <1>4 DEF CaptureBegin, RowInv, RowHasRef, Recorded, repo, kernel, history
  <2>3. HolderInv'
    BY <1>0, <1>4, SnapshotsAssumption DEF CaptureBegin, HolderInv, repo, kernel,
       history, RollbackOK, Rollbacks
  <2>4. StepInv' /\ RulesInv' /\ SpillInv' /\ MatchInv' /\ IgnoredKept' /\ ClaimsAreTrue'
    BY <1>0, <1>4 DEF CaptureBegin, StepInv, RulesInv, SpillInv, Recorded, Ran,
       MatchInv, Verified, Foreign, IgnoredKept, ClaimsAreTrue, repo, kernel, history
  <2> QED
    BY <2>1, <2>2, <2>3, <2>4
<1>5. ASSUME CaptureTree PROVE Goal
  <2>1. CaptureInv'
    <3>1. cap.at = "listed" /\ cap.row \in Rows /\ cap'.at = "captured" /\ ref'
      BY <1>0, <1>5 DEF CaptureTree, RepoOK
    <3>2. /\ cap'.row.all = tree /\ cap'.row.roots = cap.row.roots
          /\ cap'.row.full = cap.row.full /\ cap'.row.listed = cap.row.listed
          /\ cap'.row.ignored = cap.row.ignored
          /\ cap'.row.tree = CapturedTree(tree, cap.row.roots, cap.row.full)
          /\ cap'.row.torn = (cap.row.listed /\ cap.row.all # tree)
      BY <1>0, <1>5, <3>1 DEF CaptureTree, RepoOK, Rows
    <3>3. Sound(cap'.row)
      <4>1. \A q \in In(cap.row.roots) : cap'.row.tree[q] =
              IF cap.row.full \/ q \in Tracked \/ q \notin Matched(tree) THEN tree[q] ELSE Absent
        BY <3>2, InPaths DEF CapturedTree
      <4>2. cap.row.listed /\ cap.row.all = tree =>
              cap.row.ignored = Ignored(tree) \cap In(cap.row.roots)
        BY <1>0, <3>1 DEF CaptureInv
      <4> QED
        BY <1>0, <3>2, <4>1, <4>2 DEF Sound, RepoOK
    <3>4. Fresh(cap.row)'
      BY <1>5, <3>2 DEF Fresh, CaptureTree
    <3>5. ~Recorded'
      BY <1>0, <1>5, <3>1 DEF CaptureInv, CaptureTree, Recorded
    <3> QED
      BY <3>1, <3>3, <3>4, <3>5 DEF CaptureInv
  <2>2. RowInv'
    BY <1>0, <1>5 DEF CaptureTree, RowInv, RowHasRef, Fresh, Recorded, repo, history
  <2>3. StepInv' /\ RulesInv' /\ HolderInv' /\ SpillInv' /\ MatchInv' /\ IgnoredKept' /\ ClaimsAreTrue'
    BY <1>0, <1>5 DEF CaptureTree, StepInv, RulesInv, HolderInv, SpillInv, Recorded,
       Ran, MatchInv, Verified, Foreign, IgnoredKept, ClaimsAreTrue, repo, kernel,
       history
  <2> QED
    BY <2>1, <2>2, <2>3
<1>6. ASSUME CaptureRecord PROVE Goal
  <2>1. CaptureInv'
    BY <1>0, <1>6 DEF CaptureRecord, CaptureInv, repo, kernel, history
  <2>2. RowInv'
    <3>1. /\ row'.kept /\ cap.row \in Rows /\ row'.listed = cap.row.listed
          /\ row'.torn = cap.row.torn /\ row'.all = cap.row.all /\ row'.tree = cap.row.tree
          /\ row'.roots = cap.row.roots /\ row'.full = cap.row.full
          /\ row'.ignored = cap.row.ignored
      BY <1>0, <1>6 DEF CaptureRecord, RepoOK
    <3>2. Sound(row') /\ Fresh(row)' /\ ref'
      BY <1>0, <1>6, <3>1 DEF CaptureInv, CaptureRecord, Sound, Fresh
    <3>3. rb.at = "idle" /\ rb' = rb
      BY <1>0, <1>6 DEF CaptureInv, RowInv, CaptureRecord
    <3> QED
      BY <1>0, <3>2, <3>3 DEF RowInv, RowHasRef
  <2>3. HolderInv'
    BY <1>0, <1>6, SnapshotsAssumption DEF CaptureRecord, HolderInv, repo, kernel,
       history, ReleasedBy, RollbackOK, Rollbacks
  <2>4. SpillInv'
    BY <1>0, <1>6 DEF CaptureRecord, SpillInv, repo, kernel, history
  <2>5. StepInv' /\ RulesInv' /\ MatchInv' /\ IgnoredKept' /\ ClaimsAreTrue'
    BY <1>0, <1>6 DEF CaptureRecord, StepInv, RulesInv, MatchInv, Verified, Foreign,
       Ran, IgnoredKept, ClaimsAreTrue, repo, kernel, history
  <2> QED
    BY <2>1, <2>2, <2>3, <2>4, <2>5
<1>7. ASSUME CaptureFails PROVE Goal
  <2>1. CaptureInv'
    BY <1>0, <1>7 DEF CaptureFails, CaptureInv, repo, kernel
  <2>2. RowInv'
    BY <1>0, <1>7 DEF CaptureFails, RowInv, RowHasRef, Fresh, Recorded, repo, kernel
  <2>3. HolderInv'
    BY <1>0, <1>7, SnapshotsAssumption DEF CaptureFails, HolderInv, repo, kernel,
       history, ReleasedBy, RollbackOK, Rollbacks
  <2>4. StepInv' /\ RulesInv' /\ SpillInv' /\ MatchInv' /\ IgnoredKept' /\ ClaimsAreTrue'
    BY <1>0, <1>7 DEF CaptureFails, StepInv, RulesInv, SpillInv, Recorded, Ran,
       MatchInv, Verified, Foreign, IgnoredKept, ClaimsAreTrue, repo, kernel, history,
       bounds
  <2> QED
    BY <2>1, <2>2, <2>3, <2>4
<1>8. ASSUME PruneRef PROVE Goal
  <2>1. CaptureInv'
    BY <1>0, <1>8 DEF PruneRef, CaptureInv, Recorded, repo
  <2>2. RowInv'
    BY <1>0, <1>8 DEF PruneRef, RowInv, RowHasRef, Fresh, Recorded, repo, history
  <2>3. SpillInv'
    BY <1>0, <1>8 DEF PruneRef, SpillInv, Recorded, Ran, repo, kernel, history
  <2>4. StepInv' /\ RulesInv' /\ HolderInv' /\ MatchInv' /\ IgnoredKept' /\ ClaimsAreTrue'
    BY <1>0, <1>8 DEF PruneRef, StepInv, RulesInv, HolderInv, MatchInv, Verified,
       Foreign, Ran, IgnoredKept, ClaimsAreTrue, repo, kernel, history
  <2> QED
    BY <2>1, <2>2, <2>3, <2>4
<1>9. ASSUME PruneManifest PROVE Goal
  <2>1. CaptureInv'
    BY <1>0, <1>9 DEF PruneManifest, CaptureInv, Recorded, repo
  <2>2. RowInv'
    BY <1>0, <1>9 DEF PruneManifest, RowInv, RowHasRef, Fresh, Recorded, repo
  <2>3. StepInv' /\ RulesInv' /\ HolderInv' /\ SpillInv' /\ MatchInv' /\ IgnoredKept' /\ ClaimsAreTrue'
    BY <1>0, <1>9 DEF PruneManifest, StepInv, RulesInv, HolderInv, SpillInv, Recorded,
       Ran, MatchInv, Verified, Foreign, IgnoredKept, ClaimsAreTrue, repo, kernel,
       history
  <2> QED
    BY <2>1, <2>2, <2>3
<1>10. ASSUME PruneRow PROVE Goal
  <2>1. CaptureInv'
    BY <1>0, <1>10 DEF PruneRow, CaptureInv, Recorded, repo
  <2>2. RowInv'
    BY <1>0, <1>10 DEF PruneRow, RowInv, RowHasRef, Fresh, Recorded, repo, NoRow
  <2>3. SpillInv'
    BY <1>0, <1>10 DEF PruneRow, SpillInv, Recorded, Ran, repo, kernel, history
  <2>4. StepInv' /\ RulesInv' /\ HolderInv' /\ MatchInv' /\ IgnoredKept' /\ ClaimsAreTrue'
    BY <1>0, <1>10 DEF PruneRow, StepInv, RulesInv, HolderInv, MatchInv, Verified,
       Foreign, Ran, IgnoredKept, ClaimsAreTrue, repo, kernel, history
  <2> QED
    BY <2>1, <2>2, <2>3, <2>4
<1>11. ASSUME NEW roots \in SUBSET Root, NEW remove \in {FALSE, row.full}, RollbackBegin(roots, remove) PROVE Goal
  <2>1. RowInv'
    BY <1>0, <1>11 DEF RollbackBegin, RowInv, RowHasRef, Fresh, Recorded, repo, kernel,
       history, Idle, RepoOK, RollbackOK, Rollbacks
  <2>2. StepInv'
    BY <1>0, <1>11 DEF RollbackBegin, StepInv, history, Idle
  <2>3. RulesInv'
    BY <1>0, <1>11 DEF RollbackBegin, RulesInv, Idle
  <2>4. HolderInv'
    BY <1>0, <1>11, SnapshotsAssumption DEF RollbackBegin, HolderInv, Quiescent
  <2>5. MatchInv'
    BY <1>0, <1>11 DEF RollbackBegin, MatchInv
  <2>6. ClaimsAreTrue'
    BY <1>0, <1>11 DEF RollbackBegin, ClaimsAreTrue, NoClaim
  <2>7. CaptureInv' /\ SpillInv' /\ IgnoredKept'
    BY <1>0, <1>11 DEF RollbackBegin, CaptureInv, Recorded, SpillInv, Ran, IgnoredKept,
       repo, kernel, history, bounds
  <2> QED
    BY <2>1, <2>2, <2>3, <2>4, <2>5, <2>6, <2>7
<1>12. ASSUME SyncRules PROVE Goal
  <2>1. UNCHANGED <<cap, repo, rollback, kernel, claim, spilled, thrown>> /\ rb.at = "rules"
    BY <1>12 DEF SyncRules
  <2>2. CASE SyncEnds
    <3>1. /\ rb'.at = "delete" /\ rb'.snap = rb.snap /\ rb'.roots = rb.roots
          /\ rb'.remove = rb.remove /\ rb'.synced = rb.synced
          /\ rb'.checkout = Changes(tree, rb.snap).checkout
          /\ rb'.delete = Changes(tree, rb.snap).delete
      BY <1>0, <2>2 DEF SyncEnds
    <3>2. UNCHANGED <<tree, touched, half, robbed, unruly>>
      BY <2>2 DEF SyncEnds
    <3>3. RulesInv'
      BY <1>0, <2>1, <2>2, <3>1, <3>2, RulesEnd DEF RulesInv
    <3>4. StepInv'
      BY <1>0, <2>1, <3>1, ChangesSplit DEF StepInv, kernel
    <3>5. RowInv' /\ HolderInv' /\ MatchInv'
      BY <1>0, <2>1, <3>1, <3>2 DEF RowInv, RowHasRef, Fresh, Recorded, HolderInv,
         MatchInv, repo, kernel
    <3>6. CaptureInv' /\ SpillInv' /\ IgnoredKept' /\ ClaimsAreTrue'
      BY <1>0, <2>1, <3>2 DEF CaptureInv, Fresh, Recorded, SpillInv, Ran, IgnoredKept,
         ClaimsAreTrue, repo, kernel
    <3> QED
      BY <3>3, <3>4, <3>5, <3>6
  <2>3. CASE \E gone, out, bad \in SUBSET Path : SyncsRules(gone, out, bad)
    <3>1. PICK gone, out, bad \in SUBSET Path : SyncsRules(gone, out, bad)
      BY <2>3
    <3>2. PICK seen \in SUBSET Rules :
              /\ rb' = [rb EXCEPT !.synced = rb.synced \cup seen,
                                  !.unrestored = rb.unrestored \cup bad]
              /\ bad = {} => \A r \in seen : rb.snap.tree[r] # Absent => r \in out
      BY <3>1 DEF SyncsRules
    <3>3. /\ rb'.at = "rules" /\ rb'.snap = rb.snap /\ rb'.roots = rb.roots
          /\ rb'.remove = rb.remove /\ rb'.synced = rb.synced \cup seen
          /\ rb'.checkout = rb.checkout /\ rb'.delete = rb.delete
      BY <1>0, <2>1, <3>2
    <3>4. Restores(gone, out) /\ gone \subseteq Rules /\ unruly' = (unruly \/ bad # {})
      BY <3>1 DEF SyncsRules
    <3>5. RulesInv'
      <4> SUFFICES ASSUME ~unruly', NEW r \in rb'.synced, rb.snap.tree[r] # Absent
                   PROVE  tree'[r] = rb.snap.tree[r]
        BY <3>3 DEF RulesInv
      <4>1. r \in out \/ tree[r] = rb.snap.tree[r]
        BY <1>0, <2>1, <3>2, <3>3, <3>4 DEF RulesInv
      <4>2. r \in Path /\ r \notin gone
        BY <1>0, <3>2, <3>3, <3>4 DEF StepInv, Rules, Restores
      <4> QED
        BY <3>4, <4>1, <4>2 DEF Restores, Written
    <3>6. StepInv'
      BY <1>0, <2>1, <3>2, <3>3 DEF StepInv, kernel
    <3>7. Sound(rb.snap) /\ UNCHANGED <<manifest, spilled, thrown>> /\ unruly' \in BOOLEAN
      BY <1>0, <2>1, <3>4 DEF RowInv, repo
    <3>8. IgnoredKept'
      BY <1>0, <3>4, <3>7, RobsOnly DEF IgnoredKept
    <3> QED
      BY <1>0, <2>1, <3>3, <3>4, <3>5, <3>6, <3>7, <3>8, RestoreFrame
  <2> QED
    BY <1>12, <1>0, <2>2, <2>3, SyncStep
<1>13. ASSUME DeleteNew PROVE Goal
  <2>1. UNCHANGED <<cap, repo, rollback, kernel, claim, spilled, thrown, unruly>>
        /\ rb.at = "delete"
    BY <1>13 DEF DeleteNew
  <2>2. PICK gone \in SUBSET rb.delete, bad \in SUBSET Path : Deletes(gone, bad)
    BY <1>13, <1>0, DeleteStep
  <2>3. /\ rb'.at = "ignored" /\ rb'.snap = rb.snap /\ rb'.roots = rb.roots
        /\ rb'.remove = rb.remove /\ rb'.synced = rb.synced
        /\ rb'.checkout = rb.checkout /\ rb'.delete \subseteq rb.delete
    BY <1>0, <2>2 DEF Deletes
  <2>4. Sound(rb.snap) /\ Restores(gone, {}) /\ UNCHANGED <<manifest, spilled, thrown>>
        /\ unruly' \in BOOLEAN
    BY <1>0, <2>1, <2>2 DEF RowInv, Deletes, repo, HistoryOK
  <2>5. StepInv' /\ RulesInv'
    BY <1>0, <2>1, <2>3 DEF StepInv, RulesInv, kernel
  <2>6. IgnoredKept'
    <3>1. ASSUME ~unruly, NEW x \in robbed', x \notin robbed PROVE ~x.inside
      BY <1>0, <2>1, <2>4, <3>1, RobsOnly DEF RulesInv
    <3> QED
      BY <1>0, <2>1, <3>1 DEF IgnoredKept
  <2> QED
    BY <1>0, <2>1, <2>3, <2>4, <2>5, <2>6, RestoreFrame
<1>14. ASSUME NewIgnored PROVE Goal
  <2>1. UNCHANGED <<cap, repo, rollback, kernel, claim, spilled, thrown, unruly>>
        /\ rb.at = "ignored"
    BY <1>14 DEF NewIgnored
  <2>2. CASE KeepsNew
    <3>1. /\ rb'.at = "checkout" /\ rb'.snap = rb.snap /\ rb'.roots = rb.roots
          /\ rb'.remove = rb.remove /\ rb'.synced = rb.synced
          /\ rb'.checkout = rb.checkout /\ rb'.delete = rb.delete
      BY <1>0, <2>2 DEF KeepsNew
    <3>2. UNCHANGED <<tree, touched, half, robbed, unruly>>
      BY <2>1, <2>2 DEF KeepsNew
    <3>3. StepInv' /\ RulesInv'
      BY <1>0, <2>1, <3>1 DEF StepInv, RulesInv, kernel
    <3>4. RowInv' /\ HolderInv' /\ MatchInv'
      BY <1>0, <2>1, <3>1, <3>2 DEF RowInv, RowHasRef, Fresh, Recorded, HolderInv,
         MatchInv, repo, kernel
    <3>5. CaptureInv' /\ SpillInv' /\ IgnoredKept' /\ ClaimsAreTrue'
      BY <1>0, <2>1, <3>2 DEF CaptureInv, Fresh, Recorded, SpillInv, Ran, IgnoredKept,
         ClaimsAreTrue, repo, kernel
    <3> QED
      BY <3>3, <3>4, <3>5
  <2>3. CASE \E gone \in SUBSET rb.delete, bad \in SUBSET Path : RemovesNew(gone, bad)
    <3>1. PICK gone \in SUBSET rb.delete, bad \in SUBSET Path : RemovesNew(gone, bad)
      BY <2>3
    <3>2. /\ rb'.at = "checkout" /\ rb'.snap = rb.snap /\ rb'.roots = rb.roots
          /\ rb'.remove = rb.remove /\ rb'.synced = rb.synced
          /\ rb'.checkout = rb.checkout /\ rb'.delete = rb.delete
      BY <1>0, <3>1 DEF RemovesNew, RollbackOK, Rollbacks
    <3>3. Sound(rb.snap) /\ Restores(gone, {}) /\ UNCHANGED <<manifest, spilled, thrown>>
          /\ unruly' \in BOOLEAN
      BY <1>0, <2>1, <3>1 DEF RowInv, RemovesNew, repo, HistoryOK
    <3>4. StepInv' /\ RulesInv'
      BY <1>0, <2>1, <3>2 DEF StepInv, RulesInv, kernel
    <3>5. rb.snap.full
      BY <1>0, <3>1 DEF RowInv, RemovesNew
    <3>6. IgnoredKept'
      BY <1>0, <2>1, <3>3, <3>5, RobsOnly DEF IgnoredKept
    <3> QED
      BY <1>0, <2>1, <3>2, <3>3, <3>4, <3>6, RestoreFrame
  <2> QED
    BY <1>14, <1>0, <2>2, <2>3, NewIgnoredStep
<1>15. ASSUME Checkout PROVE Goal
  <2>1. UNCHANGED <<cap, repo, rollback, kernel, claim, spilled, thrown, unruly>>
        /\ rb.at = "checkout"
    BY <1>15 DEF Checkout
  <2>2. PICK out \in SUBSET rb.checkout, bad \in SUBSET Path : ChecksOut(out, bad)
    BY <1>15, <1>0, CheckoutStep
  <2>3. /\ rb'.at = "verify" /\ rb'.snap = rb.snap /\ rb'.roots = rb.roots
        /\ rb'.remove = rb.remove /\ rb'.synced = rb.synced
        /\ rb'.checkout = rb.checkout /\ rb'.delete = rb.delete
    BY <1>0, <2>2 DEF ChecksOut
  <2>4. Sound(rb.snap) /\ Restores({}, out) /\ UNCHANGED <<manifest, spilled, thrown>>
        /\ unruly' \in BOOLEAN
    BY <1>0, <2>1, <2>2 DEF RowInv, ChecksOut, repo, HistoryOK
  <2>5. StepInv' /\ RulesInv'
    BY <1>0, <2>1, <2>3 DEF StepInv, RulesInv, kernel
  <2>6. IgnoredKept'
    BY <1>0, <2>1, <2>4, RobsOnly DEF IgnoredKept
  <2> QED
    BY <1>0, <2>1, <2>3, <2>4, <2>5, <2>6, RestoreFrame
<1>16. ASSUME Verify PROVE Goal
  <2>1. RowInv'
    BY <1>0, <1>16 DEF Verify, RowInv, RowHasRef, Fresh, Recorded, repo, history
  <2>2. StepInv'
    BY <1>0, <1>16 DEF Verify, StepInv, kernel, history
  <2>3. RulesInv'
    BY <1>0, <1>16 DEF Verify, RulesInv
  <2>4. HolderInv'
    BY <1>0, <1>16 DEF Verify, HolderInv, kernel, history
  <2>5. MatchInv'
    <3>1. /\ rb'.roots = rb.roots /\ rb'.snap = rb.snap /\ rb'.kept = rb.kept
          /\ rb'.match = Verified /\ tree' = tree
      BY <1>0, <1>16 DEF Verify, Verified
    <3> QED
      BY <3>1 DEF MatchInv, Verified
  <2>6. CaptureInv' /\ SpillInv' /\ IgnoredKept' /\ ClaimsAreTrue'
    BY <1>0, <1>16 DEF Verify, CaptureInv, Fresh, Recorded, SpillInv, Ran, IgnoredKept,
       ClaimsAreTrue, repo, kernel, history
  <2> QED
    BY <2>1, <2>2, <2>3, <2>4, <2>5, <2>6
<1>17. ASSUME Claim PROVE Goal
  <2>1. RowInv'
    BY <1>0, <1>17 DEF Claim, RowInv, RowHasRef, Fresh, repo, kernel, history, Idle
  <2>2. StepInv'
    BY <1>0, <1>17 DEF Claim, StepInv, Idle
  <2>3. RulesInv'
    BY <1>0, <1>17 DEF Claim, RulesInv, Idle
  <2>4. HolderInv'
    BY <1>0, <1>17, SnapshotsAssumption DEF Claim, HolderInv, ReleasedBy, Quiescent
  <2>5. MatchInv'
    BY <1>0, <1>17 DEF Claim, MatchInv, Idle
  <2>6. ClaimsAreTrue'
    BY <1>17, ClaimHolds
  <2>7. CaptureInv' /\ SpillInv' /\ IgnoredKept'
    BY <1>0, <1>17 DEF Claim, CaptureInv, Fresh, Recorded, SpillInv, Ran, IgnoredKept,
       repo, kernel, history
  <2> QED
    BY <2>1, <2>2, <2>3, <2>4, <2>5, <2>6, <2>7
<1>18. ASSUME RollbackThrows PROVE Goal
  <2>1. RowInv'
    BY <1>0, <1>18 DEF RollbackThrows, RowInv, RowHasRef, Fresh, Recorded, repo, kernel,
       history
  <2>2. StepInv'
    BY <1>0, <1>18 DEF RollbackThrows, StepInv
  <2>3. RulesInv'
    BY <1>0, <1>18 DEF RollbackThrows, RulesInv
  <2>4. HolderInv'
    BY <1>0, <1>18, SnapshotsAssumption DEF RollbackThrows, HolderInv, ReleasedBy
  <2>5. MatchInv'
    BY <1>0, <1>18 DEF RollbackThrows, MatchInv
  <2>6. CaptureInv' /\ SpillInv' /\ IgnoredKept' /\ ClaimsAreTrue'
    BY <1>0, <1>18 DEF RollbackThrows, CaptureInv, Fresh, Recorded, SpillInv, Ran,
       IgnoredKept, ClaimsAreTrue, repo, kernel, history, bounds
  <2> QED
    BY <2>1, <2>2, <2>3, <2>4, <2>5, <2>6
<1>19. ASSUME Crash PROVE Goal
  <2>1. RowInv'
    BY <1>0, <1>19 DEF Crash, RowInv, RowHasRef, Fresh, Recorded, repo, kernel, history
  <2>2. StepInv'
    BY <1>0, <1>19 DEF Crash, StepInv, history
  <2>3. RulesInv'
    BY <1>0, <1>19 DEF Crash, RulesInv
  <2>4. HolderInv'
    <3>1. ASSUME NEW o \in Op, ops[o] = "running"
          PROVE  lease'[OpRoot[o]] = o
      <4> DEFINE q == CHOOSE q \in Op : ops[q] = "running" /\ OpRoot[q] = OpRoot[o]
      <4>1. q \in Op /\ ops[q] = "running" /\ OpRoot[q] = OpRoot[o]
        BY <3>1
      <4>2. q = o
        BY <1>0, <3>1, <4>1 DEF HolderInv
      <4>3. lease'[OpRoot[o]] = q
        BY <1>19, <3>1, SnapshotsAssumption DEF Crash
      <4> QED
        BY <4>2, <4>3
    <3>2. ASSUME rollback \in {"active", "indeterminate"}, ~thrown, NEW r \in rb.roots
          PROVE  lease'[r] = "rollback"
      <4>1. lease[r] = "rollback" /\ r \in Root
        BY <1>0, <3>2 DEF HolderInv, RollbackOK, Rollbacks
      <4>2. ~\E o \in Op : ops[o] = "running" /\ OpRoot[o] = r
        BY <1>0, <4>1, SnapshotsAssumption DEF HolderInv
      <4> QED
        BY <1>19, <3>2, <4>1, <4>2 DEF Crash, Unfinished
    <3>3. rb'.roots = rb.roots /\ UNCHANGED <<ops, rollback, thrown>>
      BY <1>0, <1>19 DEF Crash, history
    <3> QED
      BY <3>1, <3>2, <3>3 DEF HolderInv
  <2>5. MatchInv'
    BY <1>0, <1>19 DEF Crash, MatchInv
  <2>6. CaptureInv' /\ SpillInv' /\ IgnoredKept' /\ ClaimsAreTrue'
    BY <1>0, <1>19 DEF Crash, CaptureInv, Fresh, Recorded, SpillInv, Ran, IgnoredKept,
       ClaimsAreTrue, repo, kernel, history, bounds
  <2> QED
    BY <2>1, <2>2, <2>3, <2>4, <2>5, <2>6
<1>20. ASSUME Recover PROVE Goal
  <2>1. CaptureInv'
    BY <1>0, <1>20 DEF Recover, CaptureInv
  <2>2. RowInv'
    BY <1>0, <1>20 DEF Recover, RowInv, RowHasRef, Fresh, Recorded, repo, kernel,
       history, Idle
  <2>3. StepInv'
    <3>1. rb.at \in {"idle", "dead"} /\ up'
      BY <1>0, <1>20 DEF StepInv, Recover
    <3>2. CASE rollback' = "done" /\ rb' = Idle /\ thrown' = FALSE
      BY <3>1, <3>2 DEF StepInv, Idle
    <3>3. CASE UNCHANGED <<rb, thrown>> /\ rollback = "active" /\ rollback' = "indeterminate"
      BY <1>0, <3>1, <3>3 DEF StepInv
    <3>4. CASE UNCHANGED <<rb, thrown, rollback>>
      BY <1>0, <3>1, <3>4 DEF StepInv
    <3> QED
      BY <1>20, <3>2, <3>3, <3>4 DEF Recover
  <2>4. RulesInv'
    BY <1>0, <1>20 DEF Recover, RulesInv, Idle
  <2>5. HolderInv'
    <3>1. \A o \in Op : ops'[o] # "running"
      BY <1>0, <1>20 DEF Recover
    <3>2. ASSUME rollback' \in {"active", "indeterminate"}, ~thrown', NEW r \in rb'.roots
          PROVE  lease'[r] = "rollback"
      <4>1. rb' = rb /\ thrown' = thrown /\ rollback' = "indeterminate"
            /\ (rollback = "indeterminate" \/ (rollback = "active" /\
                 ~(row.kept /\ Fingerprint(tree, rb.roots, rb.snap, rb.snap.full) = rb.snap.tree)))
        BY <1>0, <1>20, <3>2 DEF Recover
      <4>2. lease[r] = "rollback" /\ r \in Root
        BY <1>0, <3>2, <4>1 DEF HolderInv, RollbackOK, Rollbacks
      <4> QED
        BY <1>20, <4>1, <4>2 DEF Recover
    <3> QED
      BY <3>1, <3>2 DEF HolderInv
  <2>6. SpillInv'
    <3>1. \A q \in Op : Recorded /\ Ran(q) => Ran(q)'
      BY <1>0, <1>20, RanStays
    <3>2. \A e \in results' : e \in results \/ (e.confined => e.op \in Confined)
      BY <1>20 DEF Recover
    <3>3. rb' = rb \/ rb'.at # "claim"
      BY <1>20 DEF Recover, Idle
    <3> QED
      BY <1>0, <1>20, <3>1, <3>2, <3>3, SpillStays DEF Recover, repo
  <2>7. MatchInv'
    <3>1. rb'.at # "claim"
      BY <1>0, <1>20 DEF Recover, Idle, StepInv
    <3> QED
      BY <3>1 DEF MatchInv
  <2>8. ClaimsAreTrue'
    <3>1. CASE claim' = claim
      BY <1>0, <3>1 DEF ClaimsAreTrue
    <3>2. CASE claim' = Claimed("restored", "unverified", "absent")
      BY <3>2 DEF ClaimsAreTrue, Claimed, Coverage
    <3> QED
      BY <1>20, <3>1, <3>2 DEF Recover
  <2>9. IgnoredKept'
    BY <1>0, <1>20 DEF Recover, IgnoredKept
  <2> QED
    BY <2>1, <2>2, <2>3, <2>4, <2>5, <2>6, <2>7, <2>8, <2>9
<1>21. ASSUME Adjudicate PROVE Goal
  <2>1. RowInv'
    BY <1>0, <1>21 DEF Adjudicate, RowInv, RowHasRef, Fresh, repo, kernel, history, Idle
  <2>2. StepInv'
    BY <1>0, <1>21 DEF Adjudicate, StepInv, Idle
  <2>3. RulesInv'
    BY <1>0, <1>21 DEF Adjudicate, RulesInv, Idle
  <2>4. HolderInv'
    BY <1>0, <1>21, SnapshotsAssumption DEF Adjudicate, HolderInv, ReleasedBy, Quiescent
  <2>5. MatchInv'
    BY <1>0, <1>21 DEF Adjudicate, MatchInv, Idle
  <2>6. CaptureInv' /\ SpillInv' /\ IgnoredKept' /\ ClaimsAreTrue'
    BY <1>0, <1>21 DEF Adjudicate, CaptureInv, Fresh, Recorded, SpillInv, Ran,
       IgnoredKept, ClaimsAreTrue, repo, kernel, history
  <2> QED
    BY <2>1, <2>2, <2>3, <2>4, <2>5, <2>6
<1>22. ASSUME UNCHANGED vars PROVE Goal
  BY <1>0, <1>22 DEF vars, repo, kernel, history, CaptureInv, Fresh, Recorded, RowInv,
     RowHasRef, StepInv, RulesInv, HolderInv, SpillInv, Ran, MatchInv, Verified,
     Foreign, IgnoredKept, ClaimsAreTrue
<1>23. Goal
  BY <1>1, <1>2, <1>3, <1>4, <1>5, <1>6, <1>7, <1>8, <1>9, <1>10, <1>11, <1>12, <1>13,
     <1>14, <1>15, <1>16, <1>17, <1>18, <1>19, <1>20, <1>21, <1>22 DEF Next
<1> QED
  BY <1>23, TypeNext DEF IInv

-----------------------------------------------------------------------------
\* The inductive invariant holds of every behaviour.
THEOREM Invariant == Spec => []IInv
  BY InvInit, InvNext, PTL DEF Spec

\* Ignored files survive a rollback unless its rules were disturbed, a snapshot
\* that is not being pruned has its ref, and the types hold
\* (restore() of git-shadow.ts, captureSnapshot and pruneSnapshots of
\* snapshot-ops.ts), for every tree of files and every set of operations.
THEOREM KeptIsKept == Spec => []NothingKeptIsLost
<1>1. IInv => NothingKeptIsLost
  <2> SUFFICES ASSUME IInv PROVE NothingKeptIsLost
    OBVIOUS
  <2>1. rb.checkout \cap rb.delete = {}
    BY DEF IInv, StepInv
  <2>2. TypeOK
    BY <2>1 DEF IInv, Types, RepoOK, KernelOK, RollbackOK, Filed, Rollbacks, Phases,
       Claims, TypeOK
  <2> QED
    BY <2>2 DEF IInv, RowInv, NothingKeptIsLost
<1> QED
  BY <1>1, Invariant, PTL

\* No operation runs in a root that an interrupted rollback left half restored,
\* unless the rollback threw (recover() and adjudicate of the supervisor).
THEOREM HalfRestoredIsQuiet == Spec => []NoWorkInHalfRestored
<1>1. IInv => NoWorkInHalfRestored
  <2> SUFFICES ASSUME IInv, NEW o \in Op, ops[o] = "running", OpRoot[o] \in rb.roots, ~thrown
               PROVE  FALSE
    BY DEF NoWorkInHalfRestored
  <2>1. rollback \in {"active", "indeterminate"}
    BY DEF IInv, StepInv, Types, RollbackOK
  <2>2. lease[OpRoot[o]] = "rollback" /\ lease[OpRoot[o]] = o
    BY <2>1 DEF IInv, HolderInv
  <2> QED
    BY <2>2, SnapshotsAssumption
<1> QED
  BY <1>1, Invariant, PTL

\* What the result of a rollback claims is true when it is recorded
\* (deriveRollbackCoverage and allEffectsConfinedToRoots of rollback.ts).
THEOREM ClaimsTrue == Spec => []ClaimsAreTrue
<1>1. IInv => ClaimsAreTrue
  BY DEF IInv
<1> QED
  BY <1>1, Invariant, PTL
===========================================================================
