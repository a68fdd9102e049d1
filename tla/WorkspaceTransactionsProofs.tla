--------------------- MODULE WorkspaceTransactionsProofs ---------------------
(***************************************************************************)
(* Proofs about WorkspaceTransactions, for any transactions, paths and     *)
(* bounds: a half-copied workspace is isolated, a commit validated by its  *)
(* files read nothing that has changed, and the whole implements           *)
(* AtomicWorkspace.  Then about Race, the races of agents whose            *)
(* transactions these are, for any number of candidates, and about         *)
(* Gateway, the session of one agent, for any bounds.                      *)
(***************************************************************************)
EXTENDS WorkspaceTransactions, Race, Gateway, FiniteSetTheorems, WellFoundedInduction, TLAPS

\* No two entries of a write set name the same path.
OneEntryPerPath(writes) == \A c, d \in writes : c.path = d.path => c = d

\* The place of the running commit, its leases and its journal agree.
ActInv ==
    /\ act.at = "idle" => act = Idle
    /\ act.at # "idle" => act.tx \in Tx
    /\ act.at \in {"effects", "validate"} =>
           rootLease = act.tx /\ forkLease[act.tx] /\ journal[act.tx] = "begun"
    /\ act.at \in {"replay", "recheck"} => journal[act.tx] = "begun"
    /\ act.at = "apply" => journal[act.tx] = "committing"

\* A write set is a function of the path, and what apply has passed is copied.
PlanInv ==
    /\ OneEntryPerPath(effects.writes)
    /\ \A t \in Tx : OneEntryPerPath(plan[t])
    /\ act.at = "apply" =>
           /\ todo \subseteq plan[act.tx]
           /\ \A c \in plan[act.tx] \ todo : main[c.path] = Copied(act.tx, c)

\* Only a durable transaction has been validated by its observations.
HowInv == \A t \in Tx : how[t] = "observations" => journal[t] \in {"committing", "committed"}

\* What was read and is not blind has left evidence, which effects() has returned
\* when the validation is by files.
EvidenceInv ==
    /\ tracking = "atime" => \A t \in Tx : seen[t] \ blind[t] \subseteq reads[t] \cup atime[t]
    /\ act.at = "validate" /\ how[act.tx] = "files" =>
           seen[act.tx] \ blind[act.tx] \subseteq effects.reads

\* The inductive invariant.
IInv == TypeOK /\ ActInv /\ PlanInv /\ HowInv /\ EvidenceInv /\ HalfCopyIsIsolated

-----------------------------------------------------------------------------
\* Type correctness, one part of the state at a time.

DiskOK == main \in Contents /\ base \in [Tx -> Contents] /\ fork \in [Tx -> Contents]

JournalOK ==
    /\ journal \in [Tx -> Journal]
    /\ after \in [Tx -> SUBSET Change] /\ plan \in [Tx -> SUBSET Change]

EvidenceOK ==
    /\ closed \in BOOLEAN /\ tracking \in {"atime", "unobserved"}
    /\ atime \in [Tx -> SUBSET Entry] /\ reads \in [Tx -> SUBSET Entry]
    /\ seen \in [Tx -> SUBSET Entry] /\ blind \in [Tx -> SUBSET Entry]

LeaseOK == rootLease \in Tx \cup {NoTx} /\ forkLease \in [Tx -> BOOLEAN]

CommitOK ==
    /\ act \in [tx : Tx \cup {NoTx}, at : Place]
    /\ effects \in [writes : SUBSET Change, reads : SUBSET Entry, known : BOOLEAN]
    /\ snap \in [Tx -> Contents] /\ todo \subseteq Change
    /\ how \in [Tx -> {"none", "files", "write_only", "observations"}]

BoundsOK == work \in [Tx -> Nat] /\ outside \in 0 .. MaxOutside /\ faults \in 0 .. MaxFaults

\* The parts are the type invariant.
LEMMA TypeParts ==
  TypeOK <=> DiskOK /\ JournalOK /\ EvidenceOK /\ LeaseOK /\ CommitOK /\ BoundsOK
  BY DEF TypeOK, DiskOK, JournalOK, EvidenceOK, LeaseOK, CommitOK, BoundsOK

\* A difference of trees has one entry for each path in which they differ.
LEMMA DiffFacts ==
  ASSUME NEW from \in Contents, NEW to \in Contents
  PROVE  /\ Diff(from, to) \in SUBSET Change
         /\ OneEntryPerPath(Diff(from, to))
         /\ Paths(Diff(from, to)) = {q \in Path : from[q] # to[q]}
<1>1. Diff(from, to) \in SUBSET Change
  BY DEF Diff, Change
<1>2. OneEntryPerPath(Diff(from, to))
  BY DEF Diff, OneEntryPerPath
<1>3. ASSUME NEW q \in Path, from[q] # to[q] PROVE q \in Paths(Diff(from, to))
  <2> DEFINE c == [path |-> q, status |-> IF from[q] = "absent" THEN "A"
                                          ELSE IF to[q] = "absent" THEN "D" ELSE "M"]
  <2>1. c \in Diff(from, to)
    BY <1>3 DEF Diff
  <2>2. c.path = q
    OBVIOUS
  <2> QED
    BY <2>1, <2>2 DEF Paths
<1>4. ASSUME NEW q \in Paths(Diff(from, to)) PROVE q \in Path /\ from[q] # to[q]
  BY DEF Diff, Paths
<1> QED
  BY <1>1, <1>2, <1>3, <1>4

\* What a write set leaves is a tree again.
LEMMA OverlayType ==
  ASSUME NEW t \in Tx, NEW contents \in Contents, NEW writes \in SUBSET Change
  PROVE  Overlay(t, contents, writes) \in Contents
  BY DEF Overlay, Copied, Contents, Value

\* The initial states are well typed.
LEMMA TypeInit == Init => TypeOK
<1> SUFFICES ASSUME Init
             PROVE  DiskOK /\ JournalOK /\ EvidenceOK /\ LeaseOK /\ CommitOK /\ BoundsOK
  BY TypeParts
<1>1. main \in Contents
  BY DEF Init, Contents, Value
<1>2. DiskOK /\ JournalOK
  BY <1>1 DEF Init, DiskOK, JournalOK, Journal
<1>3. EvidenceOK /\ LeaseOK
  BY DEF Init, EvidenceOK, LeaseOK
<1>4. CommitOK
  BY <1>1 DEF Init, CommitOK, Idle, NoEffects, Place
<1>5. BoundsOK
  BY WorkspaceAssumption DEF Init, BoundsOK
<1> QED
  BY <1>2, <1>3, <1>4, <1>5

\* Every step keeps the types.
LEMMA TypeNext == TypeOK /\ [Next]_vars => TypeOK'
<1> DEFINE Goal == (DiskOK /\ JournalOK /\ EvidenceOK /\ LeaseOK /\ CommitOK /\ BoundsOK)'
<1> SUFFICES ASSUME TypeOK, [Next]_vars PROVE Goal
  BY DEF TypeOK, DiskOK, JournalOK, EvidenceOK, LeaseOK, CommitOK, BoundsOK
<1> USE TypeParts DEF disk, evidence, commit, lease, bounds, history
<1>1. ASSUME NEW t \in Tx, Capture(t) PROVE Goal
  <2>1. DiskOK'
    BY <1>1 DEF Capture, DiskOK
  <2>2. JournalOK'
    BY <1>1 DEF Capture, JournalOK, Journal
  <2>3. EvidenceOK' /\ LeaseOK' /\ CommitOK' /\ BoundsOK'
    BY <1>1 DEF Capture, EvidenceOK, LeaseOK, CommitOK, BoundsOK
  <2> QED
    BY <2>1, <2>2, <2>3
<1>2. ASSUME NEW t \in Tx, Begun(t) PROVE Goal
  <2>1. DiskOK'
    BY <1>2 DEF Begun, DiskOK
  <2>2. JournalOK'
    BY <1>2 DEF Begun, JournalOK, Journal
  <2>3. EvidenceOK' /\ LeaseOK' /\ CommitOK' /\ BoundsOK'
    BY <1>2 DEF Begun, EvidenceOK, LeaseOK, CommitOK, BoundsOK
  <2> QED
    BY <2>1, <2>2, <2>3
<1>3. ASSUME NEW t \in Tx, Abort(t) PROVE Goal
  <2>1. DiskOK'
    BY <1>3 DEF Abort, Forget, DiskOK
  <2>2. JournalOK'
    BY <1>3 DEF Abort, Forget, JournalOK, Journal
  <2>3. EvidenceOK'
    BY <1>3 DEF Abort, Forget, EvidenceOK
  <2>4. BoundsOK'
    BY <1>3 DEF Abort, Forget, BoundsOK
  <2>5. LeaseOK' /\ CommitOK'
    BY <1>3 DEF Abort, LeaseOK, CommitOK
  <2> QED
    BY <2>1, <2>2, <2>3, <2>4, <2>5
<1>4. ASSUME NEW t \in Tx, NEW e \in Entry, Read(t, e) PROVE Goal
  <2>1. EvidenceOK'
    BY <1>4 DEF Read, Work, EvidenceOK
  <2>2. BoundsOK'
    BY <1>4 DEF Read, Work, BoundsOK
  <2>3. DiskOK' /\ JournalOK' /\ LeaseOK' /\ CommitOK'
    BY <1>4 DEF Read, Work, DiskOK, JournalOK, LeaseOK, CommitOK
  <2> QED
    BY <2>1, <2>2, <2>3
<1>5. ASSUME NEW t \in Tx, NEW p \in Path, Write(t, p) PROVE Goal
  <2>1. DiskOK'
    BY <1>5 DEF Write, DiskOK, Contents, Value
  <2>2. EvidenceOK'
    BY <1>5 DEF Write, Work, EvidenceOK
  <2>3. BoundsOK'
    BY <1>5 DEF Write, Work, BoundsOK
  <2>4. JournalOK' /\ LeaseOK' /\ CommitOK'
    BY <1>5 DEF Write, Work, JournalOK, LeaseOK, CommitOK
  <2> QED
    BY <2>1, <2>2, <2>3, <2>4
<1>6. ASSUME NEW t \in Tx, NEW failed \in BOOLEAN, Inspect(t, failed) PROVE Goal
  <2>1. EvidenceOK'
    BY <1>6 DEF Inspect, Work, TakeEvidence, EvidenceOK
  <2>2. BoundsOK'
    BY <1>6 DEF Inspect, Work, TakeEvidence, BoundsOK
  <2>3. DiskOK' /\ JournalOK' /\ LeaseOK' /\ CommitOK'
    BY <1>6 DEF Inspect, Work, TakeEvidence, DiskOK, JournalOK, LeaseOK, CommitOK
  <2> QED
    BY <2>1, <2>2, <2>3
<1>7. ASSUME NEW t \in Tx, NEW failed \in BOOLEAN, Effects(t, failed) PROVE Goal
  <2>1. EvidenceOK'
    BY <1>7 DEF Effects, TakeEvidence, EvidenceOK
  <2>2. Diff(base[t], fork[t]) \in SUBSET Change
    BY DiffFacts DEF DiskOK
  <2>3. reads'[t] \in SUBSET Entry
    BY <2>1 DEF EvidenceOK
  <2>4. CommitOK'
    BY <1>7, <2>2, <2>3 DEF Effects, CommitOK, Place
  <2>5. DiskOK' /\ JournalOK' /\ LeaseOK' /\ BoundsOK'
    BY <1>7 DEF Effects, TakeEvidence, DiskOK, JournalOK, LeaseOK, BoundsOK
  <2> QED
    BY <2>1, <2>2, <2>3, <2>4, <2>5
<1>8. ASSUME NEW t \in Tx, Commit(t) PROVE Goal
  <2>1. LeaseOK'
    BY <1>8 DEF Commit, LeaseOK
  <2>2. CommitOK'
    BY <1>8 DEF Commit, CommitOK, Place, NoEffects
  <2>3. DiskOK' /\ JournalOK' /\ EvidenceOK' /\ BoundsOK'
    BY <1>8 DEF Commit, DiskOK, JournalOK, EvidenceOK, BoundsOK
  <2> QED
    BY <2>1, <2>2, <2>3
<1>9. ASSUME NEW t \in Tx, Validated(t) PROVE Goal
  <2>1. DiskOK'
    BY <1>9 DEF Validated, Committing, Forget, DiskOK
  <2>2. JournalOK'
    BY <1>9 DEF Validated, Committing, Forget, JournalOK, Journal, CommitOK
  <2>3. EvidenceOK'
    BY <1>9 DEF Validated, Committing, Forget, EvidenceOK
  <2>4. CommitOK'
    BY <1>9 DEF Validated, Committing, CommitOK, Place, NoEffects, Idle
  <2>5. BoundsOK'
    BY <1>9 DEF Validated, Committing, Forget, BoundsOK
  <2>6. LeaseOK'
    BY <1>9 DEF Validated, LeaseOK
  <2> QED
    BY <2>1, <2>2, <2>3, <2>4, <2>5, <2>6
<1>10. ASSUME NEW t \in Tx, Conflicted(t) PROVE Goal
  <2>1. DiskOK'
    BY <1>10 DEF Conflicted, Forget, DiskOK
  <2>2. JournalOK'
    BY <1>10 DEF Conflicted, Forget, JournalOK, Journal
  <2>3. EvidenceOK'
    BY <1>10 DEF Conflicted, Forget, EvidenceOK
  <2>4. LeaseOK'
    BY <1>10 DEF Conflicted, Leave, LeaseOK
  <2>5. CommitOK'
    BY <1>10 DEF Conflicted, Leave, CommitOK, Place, NoEffects, Idle
  <2>6. BoundsOK'
    BY <1>10 DEF Conflicted, Forget, BoundsOK
  <2> QED
    BY <2>1, <2>2, <2>3, <2>4, <2>5, <2>6
<1>11. ASSUME NEW t \in Tx, StartReplay(t) PROVE Goal
  <2>1. LeaseOK'
    BY <1>11 DEF StartReplay, LeaseOK
  <2>2. CommitOK'
    BY <1>11 DEF StartReplay, CommitOK, Place, NoEffects, Idle
  <2>3. DiskOK' /\ JournalOK' /\ EvidenceOK' /\ BoundsOK'
    BY <1>11 DEF StartReplay, DiskOK, JournalOK, EvidenceOK, BoundsOK
  <2> QED
    BY <2>1, <2>2, <2>3
<1>12. ASSUME NEW t \in Tx, ReplaySnapshot(t) PROVE Goal
  <2>1. CommitOK'
    BY <1>12 DEF ReplaySnapshot, CommitOK, Place, NoEffects, Idle, DiskOK
  <2>2. DiskOK' /\ JournalOK' /\ EvidenceOK' /\ LeaseOK' /\ BoundsOK'
    BY <1>12 DEF ReplaySnapshot, DiskOK, JournalOK, EvidenceOK, LeaseOK, BoundsOK
  <2> QED
    BY <2>1, <2>2
<1>13. ASSUME NEW t \in Tx, ReplayRejects(t) PROVE Goal
  <2>1. LeaseOK'
    BY <1>13 DEF ReplayRejects, Leave, LeaseOK
  <2>2. CommitOK'
    BY <1>13 DEF ReplayRejects, Leave, CommitOK, Place, NoEffects, Idle, DiskOK
  <2>3. DiskOK' /\ JournalOK' /\ EvidenceOK' /\ BoundsOK'
    BY <1>13 DEF ReplayRejects, DiskOK, JournalOK, EvidenceOK, BoundsOK
  <2> QED
    BY <2>1, <2>2, <2>3
<1>14. ASSUME NEW t \in Tx, ReplayRefused(t) PROVE Goal
  <2>1. DiskOK'
    BY <1>14 DEF ReplayRefused, Forget, DiskOK
  <2>2. JournalOK'
    BY <1>14 DEF ReplayRefused, Forget, JournalOK, Journal
  <2>3. EvidenceOK'
    BY <1>14 DEF ReplayRefused, Forget, EvidenceOK
  <2>4. LeaseOK'
    BY <1>14 DEF ReplayRefused, Leave, LeaseOK
  <2>5. CommitOK'
    BY <1>14 DEF ReplayRefused, Leave, CommitOK, Place, NoEffects, Idle, DiskOK
  <2>6. BoundsOK'
    BY <1>14 DEF ReplayRefused, Forget, BoundsOK
  <2> QED
    BY <2>1, <2>2, <2>3, <2>4, <2>5, <2>6
<1>15. ASSUME NEW t \in Tx, ReplayAccepted(t) PROVE Goal
  <2>1. DiskOK'
    BY <1>15 DEF ReplayAccepted, Committing, Forget, DiskOK
  <2>2. Diff(snap[t], Overlay(t, snap[t], effects.writes)) \in SUBSET Change
    BY DiffFacts, OverlayType DEF CommitOK
  <2>3. JournalOK'
    BY <1>15, <2>2 DEF ReplayAccepted, Committing, Forget, JournalOK, Journal
  <2>4. EvidenceOK'
    BY <1>15 DEF ReplayAccepted, Committing, Forget, EvidenceOK
  <2>5. LeaseOK'
    BY <1>15 DEF ReplayAccepted, LeaseOK
  <2>6. CommitOK'
    BY <1>15, <2>2 DEF ReplayAccepted, Committing, CommitOK, Place, NoEffects
  <2>7. BoundsOK'
    BY <1>15 DEF ReplayAccepted, Committing, Forget, BoundsOK
  <2> QED
    BY <2>1, <2>2, <2>3, <2>4, <2>5, <2>6, <2>7
<1>16. ASSUME NEW t \in Tx, NEW c \in todo, Apply(t, c) PROVE Goal
  <2>1. DiskOK'
    BY <1>16 DEF Apply, DiskOK, Contents, Value, Copied, Change, CommitOK
  <2>2. CommitOK'
    BY <1>16 DEF Apply, CommitOK, NoEffects, Idle
  <2>3. JournalOK' /\ EvidenceOK' /\ LeaseOK' /\ BoundsOK'
    BY <1>16 DEF Apply, JournalOK, EvidenceOK, LeaseOK, BoundsOK
  <2> QED
    BY <2>1, <2>2, <2>3
<1>17. ASSUME NEW t \in Tx, Committed(t) PROVE Goal
  <2>1. JournalOK'
    BY <1>17 DEF Committed, JournalOK, Journal
  <2>2. LeaseOK'
    BY <1>17 DEF Committed, Leave, LeaseOK
  <2>3. CommitOK'
    BY <1>17 DEF Committed, Leave, CommitOK, Place, NoEffects, Idle
  <2>4. DiskOK' /\ EvidenceOK' /\ BoundsOK'
    BY <1>17 DEF Committed, DiskOK, EvidenceOK, BoundsOK
  <2> QED
    BY <2>1, <2>2, <2>3, <2>4
<1>18. ASSUME NEW t \in Tx, ApplyFails(t) PROVE Goal
  <2>1. CommitOK'
    BY <1>18 DEF ApplyFails, CommitOK, Place, NoEffects, Idle
  <2>2. BoundsOK'
    BY <1>18, WorkspaceAssumption DEF ApplyFails, BoundsOK
  <2>3. DiskOK' /\ JournalOK' /\ EvidenceOK' /\ LeaseOK'
    BY <1>18 DEF ApplyFails, DiskOK, JournalOK, EvidenceOK, LeaseOK
  <2> QED
    BY <2>1, <2>2, <2>3
<1>19. ASSUME NEW t \in Tx, Redo(t) PROVE Goal
  <2>1. LeaseOK'
    BY <1>19 DEF Redo, LeaseOK
  <2>2. CommitOK'
    BY <1>19 DEF Redo, CommitOK, Place, NoEffects, JournalOK
  <2>3. DiskOK' /\ JournalOK' /\ EvidenceOK' /\ BoundsOK'
    BY <1>19 DEF Redo, DiskOK, JournalOK, EvidenceOK, BoundsOK
  <2> QED
    BY <2>1, <2>2, <2>3
<1>20. ASSUME Crash PROVE Goal
  <2>1. JournalOK'
    BY <1>20 DEF Crash, JournalOK, Journal
  <2>2. LeaseOK'
    BY <1>20 DEF Crash, LeaseOK
  <2>3. CommitOK'
    BY <1>20 DEF Crash, CommitOK, Place, NoEffects, Idle, DiskOK
  <2>4. BoundsOK'
    BY <1>20, WorkspaceAssumption DEF Crash, BoundsOK
  <2>5. DiskOK' /\ EvidenceOK'
    BY <1>20 DEF Crash, DiskOK, EvidenceOK
  <2> QED
    BY <2>1, <2>2, <2>3, <2>4, <2>5
<1>21. ASSUME NEW p \in Path, Outside(p) PROVE Goal
  <2>1. DiskOK'
    BY <1>21 DEF Outside, DiskOK, Contents, Value
  <2>2. BoundsOK'
    BY <1>21, WorkspaceAssumption DEF Outside, BoundsOK
  <2>3. JournalOK' /\ EvidenceOK' /\ LeaseOK' /\ CommitOK'
    BY <1>21 DEF Outside, JournalOK, EvidenceOK, LeaseOK, CommitOK
  <2> QED
    BY <2>1, <2>2, <2>3
<1>22. ASSUME UNCHANGED vars PROVE Goal
  BY <1>22 DEF vars, DiskOK, JournalOK, EvidenceOK, LeaseOK, CommitOK, BoundsOK
<1> QED
  BY <1>1, <1>2, <1>3, <1>4, <1>5, <1>6, <1>7, <1>8, <1>9, <1>10, <1>11, <1>12,
     <1>13, <1>14, <1>15, <1>16, <1>17, <1>18, <1>19, <1>20, <1>21, <1>22 DEF Next

\* The state of the transactions is well typed in every reachable state, for any
\* transactions, paths and bounds (transactions.ts).
THEOREM TypeCorrect == Spec => []TypeOK
  BY TypeInit, TypeNext, PTL DEF Spec

-----------------------------------------------------------------------------
\* The initial states satisfy the invariant.
LEMMA InvInit == Init => IInv
<1> SUFFICES ASSUME Init PROVE IInv
  OBVIOUS
<1>1. ActInv /\ PlanInv
  BY DEF Init, ActInv, PlanInv, OneEntryPerPath, Idle, NoEffects
<1>2. HowInv /\ EvidenceInv /\ HalfCopyIsIsolated
  BY DEF Init, HowInv, EvidenceInv, HalfCopyIsIsolated
<1> QED
  BY TypeInit, <1>1, <1>2 DEF IInv

\* Every step keeps the invariant.
LEMMA InvNext == IInv /\ [Next]_vars => IInv'
<1> DEFINE Goal == (ActInv /\ PlanInv /\ HowInv /\ EvidenceInv /\ HalfCopyIsIsolated)'
<1> SUFFICES ASSUME IInv, [Next]_vars PROVE Goal
  BY TypeNext DEF IInv
<1> USE WorkspaceAssumption DEF IInv, disk, evidence, commit, lease, bounds, history
<1>1. ASSUME NEW t \in Tx, Capture(t) PROVE Goal
  <2>1. ActInv'
    BY <1>1 DEF Capture, ActInv
  <2>2. HowInv'
    BY <1>1 DEF Capture, HowInv
  <2>3. HalfCopyIsIsolated'
    BY <1>1 DEF Capture, HalfCopyIsIsolated
  <2>4. PlanInv' /\ EvidenceInv'
    BY <1>1 DEF Capture, PlanInv, EvidenceInv
  <2> QED
    BY <2>1, <2>2, <2>3, <2>4
<1>2. ASSUME NEW t \in Tx, Begun(t) PROVE Goal
  <2>1. ActInv'
    BY <1>2 DEF Begun, ActInv
  <2>2. HowInv'
    BY <1>2 DEF Begun, HowInv
  <2>3. HalfCopyIsIsolated'
    BY <1>2 DEF Begun, HalfCopyIsIsolated
  <2>4. PlanInv' /\ EvidenceInv'
    BY <1>2 DEF Begun, PlanInv, EvidenceInv
  <2> QED
    BY <2>1, <2>2, <2>3, <2>4
<1>3. ASSUME NEW t \in Tx, Abort(t) PROVE Goal
  <2>1. ActInv'
    BY <1>3 DEF Abort, ActInv, Idle
  <2>2. HowInv'
    BY <1>3 DEF Abort, HowInv
  <2>3. EvidenceInv'
    BY <1>3 DEF Abort, Forget, EvidenceInv, TypeOK
  <2>4. HalfCopyIsIsolated'
    BY <1>3 DEF Abort, HalfCopyIsIsolated
  <2>5. PlanInv'
    BY <1>3 DEF Abort, PlanInv
  <2> QED
    BY <2>1, <2>2, <2>3, <2>4, <2>5
<1>4. ASSUME NEW t \in Tx, NEW e \in Entry, Read(t, e) PROVE Goal
  <2>1. EvidenceInv'
    BY <1>4 DEF Read, Work, EvidenceInv, ActInv, TypeOK
  <2>2. ActInv' /\ PlanInv' /\ HowInv' /\ HalfCopyIsIsolated'
    BY <1>4 DEF Read, Work, ActInv, PlanInv, HowInv, HalfCopyIsIsolated
  <2> QED
    BY <2>1, <2>2
<1>5. ASSUME NEW t \in Tx, NEW p \in Path, Write(t, p) PROVE Goal
  <2>1. EvidenceInv'
    BY <1>5 DEF Write, Work, EvidenceInv, TypeOK
  <2>2. ActInv' /\ PlanInv' /\ HowInv' /\ HalfCopyIsIsolated'
    BY <1>5 DEF Write, Work, ActInv, PlanInv, HowInv, HalfCopyIsIsolated
  <2> QED
    BY <2>1, <2>2
<1>6. ASSUME NEW t \in Tx, NEW failed \in BOOLEAN, Inspect(t, failed) PROVE Goal
  <2>1. EvidenceInv'
    BY <1>6 DEF Inspect, Work, TakeEvidence, EvidenceInv, TypeOK
  <2>2. ActInv' /\ PlanInv' /\ HowInv' /\ HalfCopyIsIsolated'
    BY <1>6 DEF Inspect, Work, TakeEvidence, ActInv, PlanInv, HowInv,
       HalfCopyIsIsolated
  <2> QED
    BY <2>1, <2>2
<1>7. ASSUME NEW t \in Tx, NEW failed \in BOOLEAN, Effects(t, failed) PROVE Goal
  <2>1. ActInv'
    BY <1>7 DEF Effects, TakeEvidence, ActInv
  <2>2. OneEntryPerPath(Diff(base[t], fork[t]))
    BY DiffFacts DEF TypeOK
  <2>3. PlanInv'
    BY <1>7, <2>2 DEF Effects, TakeEvidence, PlanInv
  <2>4. HowInv'
    BY <1>7 DEF Effects, TakeEvidence, HowInv
  <2>5. EvidenceInv'
    BY <1>7 DEF Effects, TakeEvidence, EvidenceInv, TypeOK
  <2>6. HalfCopyIsIsolated'
    BY <1>7 DEF Effects, TakeEvidence, HalfCopyIsIsolated, ActInv
  <2> QED
    BY <2>1, <2>2, <2>3, <2>4, <2>5, <2>6
<1>8. ASSUME NEW t \in Tx, Commit(t) PROVE Goal
  <2>1. ActInv'
    BY <1>8 DEF Commit, ActInv, TypeOK
  <2>2. PlanInv'
    BY <1>8 DEF Commit, PlanInv
  <2>3. EvidenceInv'
    BY <1>8 DEF Commit, EvidenceInv
  <2>4. HalfCopyIsIsolated'
    BY <1>8 DEF Commit, HalfCopyIsIsolated
  <2>5. HowInv'
    BY <1>8 DEF Commit, HowInv
  <2> QED
    BY <2>1, <2>2, <2>3, <2>4, <2>5
<1>9. ASSUME NEW t \in Tx, Validated(t) PROVE Goal
  <2>1. ActInv'
    BY <1>9 DEF Validated, Committing, ActInv, TypeOK
  <2>2. PlanInv'
    BY <1>9 DEF Validated, Committing, PlanInv, TypeOK, NoEffects, OneEntryPerPath
  <2>3. HowInv'
    BY <1>9 DEF Validated, Committing, HowInv
  <2>4. EvidenceInv'
    BY <1>9 DEF Validated, Committing, Forget, EvidenceInv, TypeOK
  <2>5. HalfCopyIsIsolated'
    BY <1>9 DEF Validated, Committing, HalfCopyIsIsolated, ActInv
  <2> QED
    BY <2>1, <2>2, <2>3, <2>4, <2>5
<1>10. ASSUME NEW t \in Tx, Conflicted(t) PROVE Goal
  <2>1. ActInv'
    BY <1>10 DEF Conflicted, Leave, ActInv, Idle
  <2>2. PlanInv'
    BY <1>10 DEF Conflicted, Leave, PlanInv, Idle, NoEffects, OneEntryPerPath
  <2>3. HowInv'
    BY <1>10 DEF Conflicted, HowInv, TypeOK
  <2>4. EvidenceInv'
    BY <1>10 DEF Conflicted, Leave, Forget, EvidenceInv, TypeOK, Idle
  <2>5. HalfCopyIsIsolated'
    BY <1>10 DEF Conflicted, Leave, HalfCopyIsIsolated, TypeOK
  <2> QED
    BY <2>1, <2>2, <2>3, <2>4, <2>5
<1>11. ASSUME NEW t \in Tx, StartReplay(t) PROVE Goal
  <2>1. ActInv'
    BY <1>11 DEF StartReplay, ActInv
  <2>2. PlanInv'
    BY <1>11 DEF StartReplay, PlanInv
  <2>3. EvidenceInv'
    BY <1>11 DEF StartReplay, EvidenceInv
  <2>4. HalfCopyIsIsolated'
    BY <1>11 DEF StartReplay, HalfCopyIsIsolated, ActInv
  <2>5. HowInv'
    BY <1>11 DEF StartReplay, HowInv
  <2> QED
    BY <2>1, <2>2, <2>3, <2>4, <2>5
<1>12. ASSUME NEW t \in Tx, ReplaySnapshot(t) PROVE Goal
  <2>1. ActInv'
    BY <1>12 DEF ReplaySnapshot, ActInv
  <2>2. PlanInv'
    BY <1>12 DEF ReplaySnapshot, PlanInv
  <2>3. EvidenceInv'
    BY <1>12 DEF ReplaySnapshot, EvidenceInv
  <2>4. HowInv' /\ HalfCopyIsIsolated'
    BY <1>12 DEF ReplaySnapshot, HowInv, HalfCopyIsIsolated
  <2> QED
    BY <2>1, <2>2, <2>3, <2>4
<1>13. ASSUME NEW t \in Tx, ReplayRejects(t) PROVE Goal
  <2>1. ActInv'
    BY <1>13 DEF ReplayRejects, Leave, ActInv, Idle
  <2>2. PlanInv'
    BY <1>13 DEF ReplayRejects, Leave, PlanInv, Idle, NoEffects, OneEntryPerPath
  <2>3. HowInv'
    BY <1>13 DEF ReplayRejects, HowInv
  <2>4. EvidenceInv'
    BY <1>13 DEF ReplayRejects, Leave, EvidenceInv, Idle
  <2>5. HalfCopyIsIsolated'
    BY <1>13 DEF ReplayRejects, Leave, HalfCopyIsIsolated, ActInv
  <2> QED
    BY <2>1, <2>2, <2>3, <2>4, <2>5
<1>14. ASSUME NEW t \in Tx, ReplayRefused(t) PROVE Goal
  <2>1. ActInv'
    BY <1>14 DEF ReplayRefused, Leave, ActInv, Idle
  <2>2. PlanInv'
    BY <1>14 DEF ReplayRefused, Leave, PlanInv, Idle, NoEffects, OneEntryPerPath
  <2>3. HowInv'
    BY <1>14 DEF ReplayRefused, HowInv, TypeOK
  <2>4. EvidenceInv'
    BY <1>14 DEF ReplayRefused, Leave, Forget, EvidenceInv, TypeOK, Idle
  <2>5. HalfCopyIsIsolated'
    BY <1>14 DEF ReplayRefused, Leave, HalfCopyIsIsolated, TypeOK
  <2> QED
    BY <2>1, <2>2, <2>3, <2>4, <2>5
<1>15. ASSUME NEW t \in Tx, ReplayAccepted(t) PROVE Goal
  <2>1. ActInv'
    BY <1>15 DEF ReplayAccepted, Committing, ActInv, TypeOK
  <2>2. OneEntryPerPath(Diff(snap[t], Overlay(t, snap[t], effects.writes)))
    BY DiffFacts, OverlayType DEF TypeOK
  <2>3. PlanInv'
    BY <1>15, <2>2 DEF ReplayAccepted, Committing, PlanInv, OneEntryPerPath, TypeOK,
       NoEffects
  <2>4. HowInv'
    BY <1>15 DEF ReplayAccepted, Committing, HowInv, TypeOK
  <2>5. EvidenceInv'
    BY <1>15 DEF ReplayAccepted, Committing, Forget, EvidenceInv, TypeOK
  <2>6. HalfCopyIsIsolated'
    BY <1>15 DEF ReplayAccepted, Committing, HalfCopyIsIsolated, TypeOK
  <2> QED
    BY <2>1, <2>2, <2>3, <2>4, <2>5, <2>6
<1>16. ASSUME NEW t \in Tx, NEW c \in todo, Apply(t, c) PROVE Goal
  <2>1. act = [tx |-> t, at |-> "apply"] /\ c \in plan[t] /\ c.path \in Path
    BY <1>16 DEF Apply, PlanInv, TypeOK, Change
  <2>2. ASSUME NEW d \in plan[t] \ (todo \ {c}) PROVE main'[d.path] = Copied(t, d)
    <3>1. CASE d = c
      BY <1>16, <2>1, <3>1 DEF Apply, TypeOK, Contents
    <3>2. CASE d # c
      <4>1. d.path # c.path /\ main[d.path] = Copied(t, d)
        BY <2>1, <3>2 DEF PlanInv, OneEntryPerPath
      <4> QED
        BY <1>16, <4>1, <2>1 DEF Apply, Contents, Change
    <3> QED
      BY <3>1, <3>2
  <2>3. PlanInv'
    BY <1>16, <2>1, <2>2 DEF Apply, PlanInv
  <2>4. ActInv' /\ HowInv' /\ EvidenceInv' /\ HalfCopyIsIsolated'
    BY <1>16 DEF Apply, ActInv, HowInv, EvidenceInv, HalfCopyIsIsolated
  <2> QED
    BY <2>1, <2>2, <2>3, <2>4
<1>17. ASSUME NEW t \in Tx, Committed(t) PROVE Goal
  <2>1. ActInv'
    BY <1>17 DEF Committed, Leave, ActInv, Idle
  <2>2. PlanInv'
    BY <1>17 DEF Committed, Leave, PlanInv, Idle, NoEffects, OneEntryPerPath
  <2>3. HowInv'
    BY <1>17 DEF Committed, HowInv
  <2>4. EvidenceInv'
    BY <1>17 DEF Committed, Leave, EvidenceInv, Idle
  <2>5. HalfCopyIsIsolated'
    BY <1>17 DEF Committed, Leave, HalfCopyIsIsolated, TypeOK
  <2> QED
    BY <2>1, <2>2, <2>3, <2>4, <2>5
<1>18. ASSUME NEW t \in Tx, ApplyFails(t) PROVE Goal
  <2>1. ActInv'
    BY <1>18 DEF ApplyFails, ActInv, Idle
  <2>2. PlanInv'
    BY <1>18 DEF ApplyFails, PlanInv, Idle
  <2>3. EvidenceInv'
    BY <1>18 DEF ApplyFails, EvidenceInv, Idle
  <2>4. HowInv' /\ HalfCopyIsIsolated'
    BY <1>18 DEF ApplyFails, HowInv, HalfCopyIsIsolated
  <2> QED
    BY <2>1, <2>2, <2>3, <2>4
<1>19. ASSUME NEW t \in Tx, Redo(t) PROVE Goal
  <2>1. ActInv'
    BY <1>19 DEF Redo, ActInv
  <2>2. PlanInv'
    BY <1>19 DEF Redo, PlanInv
  <2>3. EvidenceInv'
    BY <1>19 DEF Redo, EvidenceInv
  <2>4. HalfCopyIsIsolated'
    BY <1>19 DEF Redo, HalfCopyIsIsolated
  <2>5. HowInv'
    BY <1>19 DEF Redo, HowInv
  <2> QED
    BY <2>1, <2>2, <2>3, <2>4, <2>5
<1>20. ASSUME Crash PROVE Goal
  <2>1. ActInv'
    BY <1>20 DEF Crash, ActInv, Idle
  <2>2. PlanInv'
    BY <1>20 DEF Crash, PlanInv, Idle, NoEffects, OneEntryPerPath
  <2>3. HowInv'
    BY <1>20 DEF Crash, HowInv
  <2>4. EvidenceInv'
    BY <1>20 DEF Crash, EvidenceInv, Idle
  <2>5. HalfCopyIsIsolated'
    BY <1>20 DEF Crash, HalfCopyIsIsolated, TypeOK
  <2> QED
    BY <2>1, <2>2, <2>3, <2>4, <2>5
<1>21. ASSUME NEW p \in Path, Outside(p) PROVE Goal
  <2>1. PlanInv'
    BY <1>21 DEF Outside, PlanInv, Free
  <2>2. ActInv' /\ HowInv' /\ EvidenceInv' /\ HalfCopyIsIsolated'
    BY <1>21 DEF Outside, ActInv, HowInv, EvidenceInv, HalfCopyIsIsolated
  <2> QED
    BY <2>1, <2>2
<1>22. ASSUME UNCHANGED vars PROVE Goal
  BY <1>22 DEF vars, ActInv, PlanInv, HowInv, EvidenceInv, HalfCopyIsIsolated
<1> QED
  BY <1>1, <1>2, <1>3, <1>4, <1>5, <1>6, <1>7, <1>8, <1>9, <1>10, <1>11, <1>12,
     <1>13, <1>14, <1>15, <1>16, <1>17, <1>18, <1>19, <1>20, <1>21, <1>22 DEF Next

\* Between TX_COMMITTING and TX_COMMITTED the commit has the lease of its target,
\* and of its source unless it was replayed, whatever crashes and failed copies
\* come between (commitSerialized, the rebuild of domain.ts).
THEOREM CopyIsolated == Spec => []CopyIsIsolated
<1>1. IInv => CopyIsIsolated
  BY DEF IInv, CopyIsIsolated
<1> QED
  BY InvInit, InvNext, <1>1, PTL DEF Spec

-----------------------------------------------------------------------------
\* Validation.

\* No conflict: what the transaction wrote or read is as in its snapshot, and a
\* listed directory has the same entries but for what a later commit explains.
LEMMA NoConflict ==
  ASSUME TypeOK, NEW t \in Tx, Conflicts(t) = {}
  PROVE  /\ \A p \in Path : p \in Paths(effects.writes) \cup effects.reads =>
                main[p] = base[t][p]
         /\ Dir \in effects.reads => SameListing(t)
<1> DEFINE c(p) == [path |-> p, status |-> IF base[t][p] = "absent" THEN "A"
                                           ELSE IF main[p] = "absent" THEN "D" ELSE "M"]
<1>1. ASSUME NEW p \in Path, main[p] # base[t][p], p \notin Paths(after[t])
      PROVE  c(p) \notin Intersect({d \in Diff(base[t], main) : d.path \notin Paths(after[t])})
             /\ c(p) \in {d \in Diff(base[t], main) : d.path \notin Paths(after[t])}
  BY <1>1 DEF Conflicts, Diff
<1>2. ASSUME NEW p \in Path, p \in Paths(effects.writes) \cup effects.reads
      PROVE  main[p] = base[t][p]
  <2> SUFFICES ASSUME main[p] # base[t][p] PROVE FALSE
    OBVIOUS
  <2>1. CASE p \in Paths(after[t])
    <3>1. PICK d \in after[t] : d.path = p
      BY <2>1 DEF Paths
    <3>2. d \in Intersect(after[t])
      BY <1>2, <3>1 DEF Intersect
    <3> QED
      BY <3>2 DEF Conflicts
  <2>2. CASE p \notin Paths(after[t])
    BY <1>1, <1>2, <2>2 DEF Intersect
  <2> QED
    BY <2>1, <2>2
<1>3. ASSUME Dir \in effects.reads, NEW p \in Path \ Paths(after[t])
      PROVE  (main[p] = "absent") = (base[t][p] = "absent")
  <2> SUFFICES ASSUME (main[p] = "absent") # (base[t][p] = "absent") PROVE FALSE
    OBVIOUS
  <2>1. main[p] # base[t][p] /\ c(p).status \in {"A", "D"}
    OBVIOUS
  <2> QED
    BY <1>1, <1>3, <2>1 DEF Intersect
<1> QED
  BY <1>2, <1>3 DEF SameListing

\* A commit whose validation says "files" read nothing that has changed since its
\* snapshot, but for what left no evidence (effects, validate, intersect).
THEOREM ReadsHold == Spec => ReadsStillHold
<1> DEFINE Holds(t) ==
      Decides(t) /\ how'[t] = "files" =>
        /\ \A p \in (seen[t] \cap Path) \ blind[t] : main[p] = base[t][p]
        /\ Dir \in seen[t] \ blind[t] => SameListing(t)
<1>1. ASSUME IInv, Next, NEW t \in Tx, Decides(t) PROVE Validated(t) \/ ReplayAccepted(t)
  <2>1. ASSUME NEW u \in Tx, Validated(u) \/ ReplayAccepted(u) PROVE u = t
    BY <1>1, <2>1 DEF Validated, ReplayAccepted, Committing, Decides, IInv, TypeOK
  <2>2. ASSUME Crash PROVE FALSE
    BY <1>1, <2>2 DEF Crash, Decides, IInv
  <2>3. ASSUME \E p \in Path : Outside(p) PROVE FALSE
    BY <1>1, <2>3 DEF Outside, Decides
  <2>4. ASSUME NEW u \in Tx,
               \/ Capture(u) \/ Begun(u) \/ Abort(u)
               \/ \E e \in Entry : Read(u, e)
               \/ \E p \in Path : Write(u, p)
               \/ \E failed \in BOOLEAN : Inspect(u, failed) \/ Effects(u, failed)
        PROVE  FALSE
    BY <1>1, <2>4 DEF Capture, Begun, Abort, Read, Write, Inspect, Effects, Decides,
       IInv, TypeOK
  <2>5. ASSUME NEW u \in Tx,
               \/ Commit(u) \/ Conflicted(u) \/ StartReplay(u) \/ ReplaySnapshot(u)
               \/ ReplayRejects(u) \/ ReplayRefused(u)
               \/ \E c \in todo : Apply(u, c)
               \/ Committed(u) \/ ApplyFails(u) \/ Redo(u)
        PROVE  FALSE
    BY <1>1, <2>5 DEF Commit, Conflicted, StartReplay, ReplaySnapshot,
       ReplayRejects, ReplayRefused, Apply, Committed, ApplyFails, Redo, Decides,
       IInv, TypeOK
  <2> QED
    BY <1>1, <2>1, <2>2, <2>3, <2>4, <2>5 DEF Next
<1>2. ASSUME IInv, NEW t \in Tx, Validated(t) PROVE Holds(t)
  <2>1. act.at = "validate" /\ act.tx = t /\ how' = how /\ Conflicts(t) = {}
    BY <1>2 DEF Validated
  <2>2. how[t] = "files" => seen[t] \ blind[t] \subseteq effects.reads
    BY <1>2, <2>1 DEF IInv, EvidenceInv
  <2> QED
    BY <1>2, <2>1, <2>2, NoConflict DEF IInv
<1>3. ASSUME IInv, NEW t \in Tx, ReplayAccepted(t) PROVE Holds(t)
  BY <1>3 DEF ReplayAccepted, IInv, TypeOK
<1>4. IInv /\ [Next]_vars => [\A t \in Tx : Holds(t)]_vars
  BY <1>1, <1>2, <1>3
<1>5. [][\A t \in Tx : Holds(t)]_vars => ReadsStillHold
  BY PTL DEF ReadsStillHold
<1> QED
  BY InvInit, InvNext, <1>4, <1>5, PTL DEF Spec

-----------------------------------------------------------------------------
\* The refinement.

\* At most one transaction is pending, and the root is leased to it.
LEMMA PendingFacts ==
  ASSUME IInv
  PROVE  /\ \A t \in Tx : journal[t] = "committing" => Pending = {t}
         /\ \A t \in Tx : rootLease = t /\ journal[t] # "committing" => Pending = {}
         /\ rootLease = NoTx => Pending = {}
  BY WorkspaceAssumption DEF IInv, HalfCopyIsIsolated, Pending

\* The abstract workspace is the main one, with the pending write set laid over it.
LEMMA WsFacts ==
  /\ Pending = {} => Ws = main
  /\ \A t : Pending = {t} => Ws = Overlay(t, main, plan[t])
  /\ Pending' = {} => Ws' = main'
  /\ \A t : Pending' = {t} => Ws' = Overlay(t, main', plan'[t])
<1>1. \A t : (CHOOSE u \in {t} : TRUE) = t
  OBVIOUS
<1> QED
  BY <1>1 DEF Ws, Overlay, Copied

\* A write set is laid over its own paths only, and twice is as good as once.
LEMMA OverlayFacts ==
  ASSUME NEW t \in Tx, NEW writes \in SUBSET Change, OneEntryPerPath(writes),
         NEW contents \in Contents
  PROVE  /\ \A c \in writes : Overlay(t, contents, writes)[c.path] = Copied(t, c)
         /\ \A p \in Path \ Paths(writes) : Overlay(t, contents, writes)[p] = contents[p]
         /\ DOMAIN Overlay(t, contents, writes) = Path
<1>1. ASSUME NEW c \in writes PROVE Overlay(t, contents, writes)[c.path] = Copied(t, c)
  <2>1. c.path \in Path /\ c.path \in Paths(writes)
    BY DEF Change, Paths
  <2>2. (CHOOSE d \in writes : d.path = c.path) = c
    BY DEF OneEntryPerPath
  <2> QED
    BY <2>1, <2>2 DEF Overlay
<1> QED
  BY <1>1 DEF Overlay

\* Steps that touch neither the main workspace nor the journal are not seen.
LEMMA Unseen ==
  ASSUME main' = main, base' = base, journal' = journal, plan' = plan,
         \A t \in Tx : Replayed'[t] = Replayed[t]
  PROVE  UNCHANGED <<Ws, base, Replayed, Phase>>
<1>1. Pending' = Pending
  BY DEF Pending
<1>2. Ws' = Ws
  BY <1>1 DEF Ws, Overlay
<1>3. Phase' = Phase
  BY DEF Phase
<1>4. Replayed' = Replayed
  BY DEF Replayed
<1> QED
  BY <1>2, <1>3, <1>4

\* The main workspace and the write sets that count stay the same.
LEMMA WsSame ==
  ASSUME main' = main, Pending' = Pending, \A t \in Pending : plan'[t] = plan[t]
  PROVE  Ws' = Ws
  BY DEF Ws, Overlay, Copied

\* The initial states are initial states of the abstract workspace.
LEMMA RefinesInit == Init => Abstract!Init
<1> SUFFICES ASSUME Init PROVE Abstract!Init
  OBVIOUS
<1>1. Pending = {}
  BY DEF Init, Pending
<1>2. Ws = main /\ main \in Contents
  BY <1>1, WsFacts, TypeInit DEF TypeOK
<1>3. Replayed = [t \in Tx |-> {}] /\ Phase = [t \in Tx |-> "none"]
  BY DEF Init, Replayed, Phase, Idle
<1> QED
  BY <1>2, <1>3 DEF Abstract!Init, Init, Contents, Abstract!Contents

\* A commit that becomes durable is one abstract commit: its writes are over paths
\* that are as found, in the snapshot or in the replay.
LEMMA RefinesCommit ==
  ASSUME IInv, NEW t \in Tx, journal[t] = "begun", Pending = {},
         journal' = [journal EXCEPT ![t] = "committing"],
         main' = main, base' = base, Replayed' = Replayed,
         plan'[t] \in SUBSET Change, OneEntryPerPath(plan'[t]),
         NEW found \in {base[t]} \cup Replayed[t],
         \A p \in Path : p \in Paths(plan'[t]) => main[p] = found[p]
  PROVE  Abstract!Commit(t)
<1> DEFINE W == Paths(plan'[t])
           wsN == Overlay(t, main, plan'[t])
           new == [p \in W |-> wsN[p]]
<1>1. W \in SUBSET Path
  BY DEF Paths, Change
<1>2. Pending' = {t}
  BY DEF IInv, TypeOK, Pending
<1>3. Ws = main /\ Ws' = wsN
  BY <1>2, WsFacts
<1>4. wsN \in [Path -> Value]
  BY OverlayType DEF IInv, TypeOK, Contents
<1>5. new \in [W -> Value]
  BY <1>1, <1>4
<1>6. wsN = [p \in Path |-> IF p \in W THEN new[p] ELSE main[p]]
  <2>1. \A p \in Path \ W : wsN[p] = main[p]
    BY DEF Overlay
  <2> QED
    BY <1>4, <2>1
<1>7. Phase[t] = "open" /\ Phase' = [Phase EXCEPT ![t] = "over"]
  BY DEF Phase, IInv, TypeOK
<1>8. \E f \in {base[t]} \cup Replayed[t], V \in SUBSET Path :
         /\ \A p \in V : Ws[p] = f[p]
         /\ \E n \in [V -> Value] : Ws' = [p \in Path |-> IF p \in V THEN n[p] ELSE Ws[p]]
  <2>1. /\ \A p \in W : Ws[p] = found[p]
        /\ \E n \in [W -> Value] : Ws' = [p \in Path |-> IF p \in W THEN n[p] ELSE Ws[p]]
    BY <1>1, <1>3, <1>5, <1>6
  <2> QED
    BY <1>1, <2>1
<1> QED
  BY <1>7, <1>8 DEF Abstract!Commit

\* The end of transactions, and of unfinished replays, that touches no workspace.
LEMMA RefinesClose ==
  ASSUME NEW S \in SUBSET {t \in Tx : Phase[t] = "open"}, NEW F \in SUBSET Tx,
         Phase' = [t \in Tx |-> IF t \in S THEN "over" ELSE Phase[t]],
         Replayed' = [t \in Tx |-> IF t \in F THEN {} ELSE Replayed[t]],
         Ws' = Ws, base' = base
  PROVE  Abstract!Close
  BY DEF Abstract!Close

\* A commit that is given up forgets what it was replayed on.
LEMMA ReplayedDrop ==
  ASSUME TypeOK, NEW t \in Tx, act.tx = t, act'.at # "recheck",
         how' = [how EXCEPT ![t] = "none"],
         \A u \in Tx \ {t} : snap'[u] = snap[u]
  PROVE  Replayed' = [u \in Tx |-> IF u \in {t} THEN {} ELSE Replayed[u]]
<1>1. Replayed'[t] = {}
  BY DEF Replayed, TypeOK
<1>2. ASSUME NEW u \in Tx \ {t} PROVE Replayed'[u] = Replayed[u]
  <2>1. act # [tx |-> u, at |-> "recheck"] /\ act' # [tx |-> u, at |-> "recheck"]
    OBVIOUS
  <2>2. how'[u] = how[u] /\ snap'[u] = snap[u]
    BY DEF TypeOK
  <2> QED
    BY <2>1, <2>2 DEF Replayed
<1> QED
  BY <1>1, <1>2 DEF Replayed

\* Every step is a step of the abstract workspace, or changes nothing it sees.
LEMMA RefinesNext == IInv /\ IInv' /\ [Next]_vars => [Abstract!Next]_(Abstract!awvars)
<1> DEFINE Same == UNCHANGED <<Ws, base, Replayed, Phase>>
           Goal == Abstract!Next \/ Same
<1> SUFFICES ASSUME IInv, IInv', [Next]_vars PROVE Goal
  BY DEF Abstract!awvars
<1> USE WorkspaceAssumption DEF disk, evidence, commit, lease, bounds, history
<1>1. ASSUME NEW t \in Tx, Capture(t) PROVE Goal
  <2>1. Pending' = Pending
    BY <1>1 DEF Capture, Pending, IInv
  <2>2. Ws' = Ws /\ Replayed' = Replayed
    BY <1>1, <2>1, WsSame DEF Capture, Replayed
  <2>3. Phase[t] = "none" /\ Phase' = [Phase EXCEPT ![t] = "open"]
    BY <1>1 DEF Capture, Phase, IInv, TypeOK
  <2>4. \E from \in {Ws} \cup {base[u] : u \in Tx} : base' = [base EXCEPT ![t] = from]
    BY <1>1, PendingFacts, WsFacts DEF Capture
  <2> QED
    BY <2>2, <2>3, <2>4 DEF Abstract!Next, Abstract!Begin
<1>2. ASSUME NEW t \in Tx, Begun(t) PROVE Goal
  <2>1. Pending' = Pending /\ Phase' = Phase
    BY <1>2 DEF Begun, Pending, Phase, IInv
  <2> QED
    BY <1>2, <2>1, WsSame DEF Begun, Replayed
<1>3. ASSUME NEW t \in Tx, Abort(t) PROVE Goal
  <2>1. Pending' = Pending
    BY <1>3 DEF Abort, Pending, IInv
  <2>2. Ws' = Ws /\ Replayed' = Replayed /\ base' = base
    BY <1>3, <2>1, WsSame DEF Abort, Replayed
  <2> DEFINE S == {u \in {t} : Phase[u] = "open"}
  <2>3. Phase' = [u \in Tx |-> IF u \in S THEN "over" ELSE Phase[u]]
    BY <1>3 DEF Abort, Phase, IInv, TypeOK
  <2>4. Replayed' = [u \in Tx |-> IF u \in {} THEN {} ELSE Replayed[u]]
    BY <2>2 DEF Replayed
  <2>5. S \in SUBSET {u \in Tx : Phase[u] = "open"} /\ {} \in SUBSET Tx
    OBVIOUS
  <2>6. Abstract!Close
    BY <2>2, <2>3, <2>4, <2>5, RefinesClose
  <2> QED
    BY <2>6 DEF Abstract!Next
<1>4. ASSUME NEW t \in Tx,
             \/ \E e \in Entry : Read(t, e)
             \/ \E p \in Path : Write(t, p)
             \/ \E failed \in BOOLEAN : Inspect(t, failed)
      PROVE  Goal
  BY <1>4, Unseen DEF Read, Write, Inspect, Replayed
<1>5. ASSUME NEW t \in Tx, NEW failed \in BOOLEAN, Effects(t, failed) PROVE Goal
  <2>1. journal[t] = "begun" /\ act'.at = "validate" /\ act.at = "effects"
    BY <1>5 DEF Effects, IInv, ActInv
  <2>2. \A u \in Tx : how'[u] = "observations" <=> how[u] = "observations"
    BY <1>5, <2>1 DEF Effects, IInv, HowInv
  <2>3. \A u \in Tx : Replayed'[u] = Replayed[u]
    BY <1>5, <2>1, <2>2 DEF Effects, Replayed
  <2> QED
    BY <1>5, <2>3, Unseen DEF Effects
<1>6. ASSUME NEW t \in Tx, Commit(t) \/ StartReplay(t) \/ ApplyFails(t) \/ Redo(t) PROVE Goal
  <2>1. act.at # "recheck" /\ act'.at # "recheck"
    BY <1>6 DEF Commit, StartReplay, ApplyFails, Redo, Idle, IInv
  <2>2. \A u \in Tx : Replayed'[u] = Replayed[u]
    BY <1>6, <2>1 DEF Commit, StartReplay, ApplyFails, Redo, Replayed
  <2> QED
    BY <1>6, <2>2, Unseen DEF Commit, StartReplay, ApplyFails, Redo
<1>7. ASSUME NEW t \in Tx, Validated(t) PROVE Goal
  <2>1. act.at = "validate" /\ act.tx = t /\ act'.at = "apply"
    BY <1>7 DEF Validated, Committing, IInv
  <2>2. journal[t] = "begun" /\ Pending = {}
    BY <2>1, PendingFacts DEF IInv, ActInv
  <2>3. Replayed' = Replayed
    BY <1>7, <2>1 DEF Validated, Replayed
  <2>4. plan'[t] = effects.writes
    BY <1>7 DEF Validated, Committing, IInv, TypeOK
  <2>5. \A p \in Path : p \in Paths(effects.writes) => main[p] = base[t][p]
    BY <1>7, NoConflict DEF Validated, IInv
  <2>6. effects.writes \in SUBSET Change /\ OneEntryPerPath(effects.writes)
    BY DEF IInv, TypeOK, PlanInv
  <2>7. Abstract!Commit(t)
    BY <1>7, <2>2, <2>3, <2>4, <2>5, <2>6, RefinesCommit DEF Validated, Committing
  <2> QED
    BY <2>7 DEF Abstract!Next
<1>8. ASSUME NEW t \in Tx, ReplayAccepted(t) PROVE Goal
  <2> DEFINE writes == Diff(snap[t], Overlay(t, snap[t], effects.writes))
  <2>1. act = [tx |-> t, at |-> "recheck"] /\ act'.at = "apply" /\ journal[t] = "begun"
    BY <1>8 DEF ReplayAccepted, Committing, IInv, ActInv
  <2>2. Pending = {}
    BY <1>8, PendingFacts DEF ReplayAccepted
  <2>3. Replayed' = Replayed /\ snap[t] \in Replayed[t]
    BY <1>8, <2>1 DEF ReplayAccepted, Replayed, IInv, TypeOK
  <2>4. plan'[t] = writes
    BY <1>8 DEF ReplayAccepted, Committing, IInv, TypeOK
  <2>5. writes \in SUBSET Change /\ OneEntryPerPath(writes)
    BY DiffFacts, OverlayType DEF IInv, TypeOK
  <2>6. Abstract!Commit(t)
    BY <1>8, <2>1, <2>2, <2>3, <2>4, <2>5, RefinesCommit DEF ReplayAccepted,
       Committing
  <2> QED
    BY <2>6 DEF Abstract!Next
<1>9. ASSUME NEW t \in Tx, Conflicted(t) \/ ReplayRefused(t) PROVE Goal
  <2>1. act.tx = t /\ act.at \in {"validate", "recheck"} /\ act'.at = "idle" /\ journal[t] = "begun"
    BY <1>9 DEF Conflicted, ReplayRefused, Leave, Idle, IInv, ActInv
  <2>2. Pending' = Pending
    BY <1>9, <2>1 DEF Conflicted, ReplayRefused, Pending, IInv, TypeOK
  <2>3. Ws' = Ws /\ base' = base
    BY <1>9, <2>2, WsSame DEF Conflicted, ReplayRefused
  <2>4. Phase[t] = "open" /\ Phase' = [u \in Tx |-> IF u \in {t} THEN "over" ELSE Phase[u]]
    BY <1>9, <2>1 DEF Conflicted, ReplayRefused, Phase, IInv, TypeOK
  <2>5. Replayed' = [u \in Tx |-> IF u \in {t} THEN {} ELSE Replayed[u]]
    BY <1>9, <2>1, ReplayedDrop DEF Conflicted, ReplayRefused, IInv, TypeOK
  <2>6. {t} \in SUBSET {u \in Tx : Phase[u] = "open"} /\ {t} \in SUBSET Tx
    BY <2>4
  <2>7. Abstract!Close
    BY <2>3, <2>4, <2>5, <2>6, RefinesClose
  <2> QED
    BY <2>7 DEF Abstract!Next
<1>10. ASSUME NEW t \in Tx, ReplaySnapshot(t) PROVE Goal
  <2>1. act.tx = t /\ act.at = "replay" /\ act' = [tx |-> t, at |-> "recheck"] /\ journal[t] = "begun"
    BY <1>10 DEF ReplaySnapshot, IInv, ActInv
  <2>2. Ws = main /\ Ws' = Ws /\ Phase' = Phase /\ base' = base
    BY <1>10, PendingFacts, WsFacts, WsSame DEF ReplaySnapshot, Pending, Phase
  <2>3. Replayed' = [Replayed EXCEPT ![t] = {main}]
    <3>1. Replayed'[t] = {main}
      BY <1>10, <2>1 DEF ReplaySnapshot, Replayed, IInv, TypeOK
    <3>2. \A u \in Tx \ {t} : Replayed'[u] = Replayed[u]
      BY <1>10, <2>1 DEF ReplaySnapshot, Replayed, IInv
    <3> QED
      BY <3>1, <3>2 DEF Replayed
  <2>4. Phase[t] = "open"
    BY <2>1 DEF Phase
  <2> QED
    BY <2>2, <2>3, <2>4 DEF Abstract!Next, Abstract!Replay
<1>11. ASSUME NEW t \in Tx, ReplayRejects(t) PROVE Goal
  <2>1. act.tx = t /\ act.at # "idle" /\ act'.at = "idle"
    BY <1>11 DEF ReplayRejects, Leave, Idle
  <2>2. Ws' = Ws /\ Phase' = Phase /\ base' = base
    BY <1>11, WsSame DEF ReplayRejects, Pending, Phase
  <2>3. Phase' = [u \in Tx |-> IF u \in {} THEN "over" ELSE Phase[u]]
    BY <2>2 DEF Phase
  <2>4. Replayed' = [u \in Tx |-> IF u \in {t} THEN {} ELSE Replayed[u]]
    <3>1. \A u \in Tx \ {t} : snap'[u] = snap[u]
      BY <1>11 DEF ReplayRejects, IInv
    <3> QED
      BY <1>11, <2>1, <3>1, ReplayedDrop DEF ReplayRejects, IInv
  <2>5. {} \in SUBSET {u \in Tx : Phase[u] = "open"} /\ {t} \in SUBSET Tx
    OBVIOUS
  <2>6. Abstract!Close
    BY <2>2, <2>3, <2>4, <2>5, RefinesClose
  <2> QED
    BY <2>6 DEF Abstract!Next
<1>12. ASSUME NEW t \in Tx, NEW c \in todo, Apply(t, c) PROVE Goal
  <2>1. journal[t] = "committing" /\ c \in plan[t] /\ c.path \in Paths(plan[t])
    BY <1>12 DEF Apply, IInv, ActInv, PlanInv, Paths
  <2>2. Pending = {t} /\ Pending' = {t}
    BY <1>12, <2>1, PendingFacts DEF Apply, Pending
  <2>3. Overlay(t, main', plan[t]) = Overlay(t, main, plan[t])
    BY <1>12, <2>1 DEF Apply, Overlay, IInv, Contents
  <2>4. plan' = plan
    BY <1>12 DEF Apply
  <2>5. Ws' = Ws
    BY <2>2, <2>3, <2>4, WsFacts
  <2> QED
    BY <1>12, <2>5 DEF Apply, Replayed, Phase
<1>13. ASSUME NEW t \in Tx, Committed(t) PROVE Goal
  <2>1. act.at = "apply" /\ act.tx = t /\ act'.at = "idle" /\ journal[t] = "committing"
    BY <1>13 DEF Committed, Leave, Idle, IInv, ActInv
  <2>2. Pending = {t} /\ Pending' = {}
    BY <1>13, <2>1, PendingFacts DEF Committed, Pending, IInv, TypeOK
  <2>3. \A p \in Path : Overlay(t, main, plan[t])[p] = main[p]
    <3>1. plan[t] \in SUBSET Change /\ OneEntryPerPath(plan[t]) /\ main \in Contents
      BY DEF IInv, TypeOK, PlanInv
    <3>2. \A c \in plan[t] : main[c.path] = Copied(t, c)
      BY <1>13, <2>1 DEF Committed, IInv, PlanInv
    <3>3. \A c \in plan[t] : Overlay(t, main, plan[t])[c.path] = main[c.path]
      BY <3>1, <3>2, OverlayFacts
    <3>4. \A p \in Path \ Paths(plan[t]) : Overlay(t, main, plan[t])[p] = main[p]
      BY <3>1, OverlayFacts
    <3> QED
      BY <3>3, <3>4 DEF Paths
  <2>4. Overlay(t, main, plan[t]) = main
    <3>1. main \in [Path -> Value] /\ Overlay(t, main, plan[t]) \in [Path -> Value]
      BY OverlayType DEF IInv, TypeOK, Contents
    <3> QED
      BY <2>3, <3>1
  <2>5. Ws' = Ws
    BY <1>13, <2>2, <2>4, WsFacts DEF Committed
  <2>6. Phase' = Phase
    BY <1>13, <2>1 DEF Committed, Phase, IInv
  <2> QED
    BY <1>13, <2>1, <2>5, <2>6 DEF Committed, Replayed
<1>14. ASSUME Crash PROVE Goal
  <2>1. Pending' = Pending
    BY <1>14 DEF Crash, Pending, IInv
  <2>2. Ws' = Ws /\ base' = base
    BY <1>14, <2>1, WsSame DEF Crash
  <2> DEFINE S == {t \in Tx : journal[t] = "captured"}
             F == {t \in Tx : act = [tx |-> t, at |-> "recheck"]}
  <2>3. S \in SUBSET {t \in Tx : Phase[t] = "open"}
    BY DEF Phase
  <2>4. Phase' = [t \in Tx |-> IF t \in S THEN "over" ELSE Phase[t]]
    BY <1>14 DEF Crash, Phase, IInv
  <2>5. \A t \in F : how[t] # "observations"
    BY DEF IInv, HowInv, ActInv
  <2>6. Replayed' = [t \in Tx |-> IF t \in F THEN {} ELSE Replayed[t]]
    BY <1>14, <2>5 DEF Crash, Replayed, Idle, IInv, TypeOK
  <2> QED
    BY <2>2, <2>3, <2>4, <2>6, RefinesClose DEF Abstract!Next
<1>15. ASSUME NEW p \in Path, Outside(p) PROVE Goal
  <2>1. Pending = {} /\ Pending' = {}
    BY <1>15, PendingFacts DEF Outside, Pending
  <2>2. Ws = main /\ Ws' = main'
    BY <2>1, WsFacts
  <2>3. \E v \in Value : Ws' = [Ws EXCEPT ![p] = v]
    BY <1>15, <2>2 DEF Outside, Value
  <2>4. UNCHANGED <<base, Replayed, Phase>>
    BY <1>15 DEF Outside, Replayed, Phase
  <2> QED
    BY <2>3, <2>4 DEF Abstract!Next, Abstract!Outside
<1>16. ASSUME UNCHANGED vars PROVE Goal
  BY <1>16, Unseen DEF vars, Replayed
<1> QED
  BY <1>1, <1>2, <1>3, <1>4, <1>5, <1>6, <1>7, <1>8, <1>9, <1>10, <1>11, <1>12,
     <1>13, <1>14, <1>15, <1>16 DEF Next

\* Forks, evidence, journal, leases, copies, crashes and redo implement transactions
\* whose writes arrive at once, over what the transaction or its replay found.
THEOREM CommitsAreAtomic == Spec => CommitIsAtomic
  BY RefinesInit, RefinesNext, InvInit, InvNext, PTL DEF Spec, CommitIsAtomic,
     Abstract!Spec

-----------------------------------------------------------------------------
(* Races of agents: candidates that work in forks of one snapshot          *)

\* What a path holds as long as no copy has failed.
Whole == [File -> Content \ {"torn"}]

\* A candidate.
Cand == [at : {"none", "open", "gate", "ready", "committed", "agent_failed", "gate_rejected",
               "race_loser", "conflict"},
         ok : BOOLEAN, reads : SUBSET File, listed : BOOLEAN, tree : Whole, fork : Whole,
         put : SUBSET File, tx : {"none", "open", "aborted", "committing", "committed"},
         run : {"none", "running", "failed", "succeeded"}, dir : BOOLEAN]

\* What candidate c leaves when it has been reconciled.
Closed(c) ==
    /\ cand[c].tx \in {"aborted", "committed"} /\ cand[c].run \in {"failed", "succeeded"}
    /\ ~cand[c].dir

\* Types of a race.
RaceTypes ==
    /\ mode \in {"shadow", "merge", "winner"} /\ gated \in BOOLEAN /\ tracked \in BOOLEAN
    /\ ws \in Tree /\ origin \in Whole /\ next \in 1..(N + 1)
    /\ pc \in {"capture", "open", "run", "reconcile", "returned", "thrown"}
    /\ pc # "thrown" => ws \in Whole
    /\ cand \in [1..N -> Cand]
    /\ \A c \in 1..N : cand[c].run = "succeeded" => cand[c].tx = "committed"

\* Candidates are merged in their order, by the reconciliation only.
OrderInv ==
    /\ pc \in {"capture", "open", "run"} => next = 1 /\ Placed = {}
    /\ pc = "reconcile" => Placed = Merged /\ \A c \in Merged : c < next
    /\ mode = "shadow" => next = 1

\* A race for one winner so far.
WinnerInv ==
    mode = "winner" =>
        /\ \A c, d \in Placed : c = d
        /\ pc \in {"reconcile", "returned"} /\ Merged = {} /\ foreign = {} =>
              \A c \in 1..N : c < next => ~cand[c].ok \/ ~Passed(c)

\* Who has been reconciled, and a shadow run that threw, left nothing open.
ClosedInv ==
    /\ pc \in {"reconcile", "returned"} /\ mode # "shadow" => \A c \in 1..N : c < next => Closed(c)
    /\ pc = "returned" => IF mode = "shadow" THEN Closed(1) ELSE next = N + 1
    /\ pc = "thrown" /\ mode = "shadow" => ~cand[1].dir

\* The parts of the invariant that hold whatever comes next.
Serial == MergeIsSerial /\ GateGuards

\* The inductive invariant of a race.
RaceInv == RaceTypes /\ OrderInv /\ Serial /\ WinnerInv /\ ClosedInv

\* Before the reconciliation only the types and the changes matter.
LEMMA EarlyKeeps ==
  ASSUME RaceInv, pc \in {"capture", "open", "run"}, pc' \in {"capture", "open", "run", "reconcile"},
         UNCHANGED <<config, next>>, RaceTypes', Placed' = {},
         \A p \in File : ws'[p] # origin'[p] => p \in foreign'
  PROVE  RaceInv'
<1>1. next = 1 /\ mode' = mode /\ next' = next
  BY DEF RaceInv, OrderInv, config
<1>2. Merged' = {}
  BY DEF Merged, Placed
<1>3. OrderInv'
  BY <1>1, <1>2 DEF OrderInv
<1>4. Serial'
  BY <1>2 DEF Serial, MergeIsSerial, GateGuards
<1>5. WinnerInv' /\ ClosedInv'
  <2>1. \A c \in 1..N : ~(c < next')
    BY <1>1
  <2> QED
    BY <2>1 DEF WinnerInv, ClosedInv
<1> QED
  BY <1>3, <1>4, <1>5 DEF RaceInv

\* Before the reconciliation the workspace differs by what came from outside.
LEMMA EarlyFacts ==
  ASSUME RaceInv, pc \in {"capture", "open", "run"}
  PROVE  /\ RaceTypes /\ Placed = {} /\ next = 1 /\ cand \in [1..N -> Cand]
         /\ ws \in Whole /\ origin \in Whole /\ 1 \in 1..N
         /\ \A p \in File : ws[p] # origin[p] => p \in foreign
BY RaceAssumption DEF RaceInv, RaceTypes, OrderInv, Serial, GateGuards

\* A candidate whose transaction is not committed, before the reconciliation.
LEMMA EarlyCand ==
  ASSUME RaceInv, pc \in {"capture", "open", "run"}, pc' \in {"capture", "open", "run", "reconcile"},
         UNCHANGED <<config, ws, origin, next, foreign>>, NEW c \in 1..N, NEW r \in Cand,
         r.tx \notin {"committed", "committing"}, r.run # "succeeded", cand' = [cand EXCEPT ![c] = r]
  PROVE  RaceInv'
<1>1. RaceTypes /\ Placed = {} /\ cand \in [1..N -> Cand] /\ ws \in Whole
  BY EarlyFacts
<1>3. cand' \in [1..N -> Cand] /\ \A d \in 1..N : cand'[d] = IF d = c THEN r ELSE cand[d]
  BY <1>1
<1>4. RaceTypes'
  <2>1. \A d \in 1..N : cand'[d].run = "succeeded" => cand'[d].tx = "committed"
    BY <1>1, <1>3 DEF RaceTypes
  <2> QED
    BY <1>1, <1>3, <2>1 DEF RaceTypes, config
<1>5. Placed' = {}
  BY <1>1, <1>3 DEF Placed
<1> QED
  BY <1>4, <1>5, EarlyKeeps, EarlyFacts

\* The steps up to the reconciliation.
LEMMA BeginKeeps ==
  ASSUME RaceInv, ShadowBegin \/ CaptureBase \/ AllOpen \/ AllReady
  PROVE  RaceInv'
<1>0. pc \in {"capture", "open", "run"}
  BY DEF ShadowBegin, CaptureBase, AllOpen, AllReady
<1>1. /\ RaceTypes /\ Placed = {} /\ next = 1 /\ cand \in [1..N -> Cand]
      /\ ws \in Whole /\ origin \in Whole /\ 1 \in 1..N
      /\ \A p \in File : ws[p] # origin[p] => p \in foreign
  BY <1>0, EarlyFacts
<1>2. CASE ShadowBegin
  <2>1. /\ pc = "capture" /\ pc' = "run" /\ origin' = ws /\ ws' = ws /\ foreign' = {}
        /\ UNCHANGED <<config, next>>
        /\ cand' = [cand EXCEPT ![1] = [@ EXCEPT !.at = "open", !.tree = ws, !.fork = ws,
                                                 !.tx = "open", !.run = "running", !.dir = TRUE]]
    BY <1>2 DEF ShadowBegin
  <2> DEFINE r == [cand[1] EXCEPT !.at = "open", !.tree = ws, !.fork = ws, !.tx = "open",
                                  !.run = "running", !.dir = TRUE]
  <2>2. r \in Cand /\ r.tx = "open" /\ r.run = "running"
    <3>1. cand[1] \in Cand
      BY <1>1
    <3> QED
      BY <1>1, <3>1 DEF Cand
  <2>3. cand' = [cand EXCEPT ![1] = r]
    BY <2>1
  <2> HIDE DEF r
  <2>4. cand' \in [1..N -> Cand] /\ \A d \in 1..N : cand'[d] = IF d = 1 THEN r ELSE cand[d]
    BY <1>1, <2>2, <2>3
  <2>5. RaceTypes'
    BY <1>1, <2>1, <2>2, <2>4 DEF RaceTypes, config
  <2>6. Placed' = {}
    BY <1>1, <2>1, <2>2, <2>4 DEF Placed
  <2> QED
    BY <2>1, <2>5, <2>6, EarlyKeeps
<1>3. CASE CaptureBase
  <2>1. /\ pc = "capture" /\ pc' = "open" /\ origin' = ws /\ ws' = ws /\ foreign' = {}
        /\ UNCHANGED <<config, next, cand>>
    BY <1>3 DEF CaptureBase
  <2>2. RaceTypes' /\ Placed' = {}
    BY <1>1, <2>1 DEF RaceTypes, config, Placed
  <2> QED
    BY <2>1, <2>2, EarlyKeeps
<1>4. CASE AllOpen \/ AllReady
  <2>1. /\ pc \in {"open", "run"} /\ pc' \in {"run", "reconcile"}
        /\ UNCHANGED <<config, ws, origin, next, cand, foreign>>
    BY <1>4 DEF AllOpen, AllReady
  <2>2. RaceTypes' /\ Placed' = {}
    BY <1>1, <2>1 DEF RaceTypes, config, Placed
  <2> QED
    BY <1>1, <2>1, <2>2, EarlyKeeps
<1> QED
  BY <1>2, <1>3, <1>4

\* A candidate opens, its agent ends, its gate ends.
LEMMA CandKeeps ==
  ASSUME RaceInv, NEW c \in Cands, Open(c) \/ Agent(c) \/ GateKnown(c) \/ Gate(c)
  PROVE  RaceInv'
<1>0. /\ c \in 1..N /\ pc \in {"open", "run"} /\ pc' = pc
      /\ UNCHANGED <<config, ws, origin, next, foreign>>
  <2>1. c \in 1..N
    BY RaceAssumption DEF Cands
  <2>2. CASE Open(c)
    BY <2>1, <2>2 DEF Open
  <2>3. CASE Agent(c)
    BY <2>1, <2>3 DEF Agent
  <2>4. CASE GateKnown(c)
    BY <2>1, <2>4 DEF GateKnown
  <2>5. CASE Gate(c)
    BY <2>1, <2>5 DEF Gate
  <2> QED
    BY <2>2, <2>3, <2>4, <2>5
<1>1. Placed = {} /\ RaceTypes /\ cand \in [1..N -> Cand] /\ origin \in Whole
  BY <1>0, EarlyFacts
<1>2. cand[c] \in Cand /\ cand[c].tx \notin {"committed", "committing"} /\ cand[c].run # "succeeded"
  BY <1>0, <1>1 DEF Placed, RaceTypes
<1>3. CASE Open(c)
  <2> DEFINE r == [cand[c] EXCEPT !.at = "open", !.tree = origin, !.fork = origin, !.tx = "open",
                                  !.run = "running", !.dir = TRUE]
  <2>1. r \in Cand /\ r.tx = "open" /\ r.run = "running"
    BY <1>1, <1>2 DEF Cand
  <2>2. cand' = [cand EXCEPT ![c] = r]
    BY <1>3 DEF Open
  <2> HIDE DEF r
  <2> QED
    BY <1>0, <2>1, <2>2, EarlyCand
<1>4. CASE Agent(c)
  <2>0. PICK ok \in BOOLEAN, paths \in SUBSET File :
           \E new \in {g \in [paths -> Written] : \A p \in paths : origin[p] = "none" => g[p] = "x"},
              seenFiles \in SUBSET {p \in File \ paths : tracked /\ origin[p] # "none"},
              listed \in IF tracked THEN BOOLEAN ELSE {FALSE} :
              cand' = [cand EXCEPT ![c] = Worked(c, ok, seenFiles, listed, new)]
    BY <1>4 DEF Agent
  <2>1. PICK new \in [paths -> Written], seenFiles \in SUBSET File, listed \in BOOLEAN :
           cand' = [cand EXCEPT ![c] = Worked(c, ok, seenFiles, listed, new)]
    BY <2>0
  <2> DEFINE f == [p \in File |-> IF p \in DOMAIN new THEN new[p] ELSE origin[p]]
             a == IF ok /\ gated THEN "gate" ELSE "ready"
             r == Worked(c, ok, seenFiles, listed, new)
  <2>2. f \in Whole
    <3>1. \A p \in DOMAIN new : new[p] \in Written
      OBVIOUS
    <3>2. Written \subseteq Content \ {"torn"}
      BY DEF Written, Content
    <3> QED
      BY <1>1, <3>1, <3>2 DEF Whole
  <2>3. seenFiles \subseteq File /\ a \in {"gate", "ready"} /\ listed \in BOOLEAN
    OBVIOUS
  <2>4. r = [cand[c] EXCEPT !.at = a, !.ok = ok, !.reads = seenFiles, !.listed = listed,
                            !.tree = f, !.fork = f]
    BY DEF Worked
  <2> HIDE DEF f, a, r
  <2>5. r \in Cand /\ r.tx = cand[c].tx /\ r.run = cand[c].run
    BY <1>2, <2>2, <2>3, <2>4 DEF Cand
  <2> QED
    BY <1>0, <1>2, <2>1, <2>5, EarlyCand DEF r
<1>5. CASE GateKnown(c)
  <2> DEFINE r == [cand[c] EXCEPT !.at = "ready"]
  <2>1. r \in Cand /\ r.tx = cand[c].tx /\ r.run = cand[c].run
    BY <1>2 DEF Cand
  <2>2. cand' = [cand EXCEPT ![c] = r]
    BY <1>1, <1>5 DEF GateKnown
  <2> HIDE DEF r
  <2> QED
    BY <1>0, <1>2, <2>1, <2>2, EarlyCand
<1>6. CASE Gate(c)
  <2>1. PICK f \in GateWrote(c) : cand' = [cand EXCEPT ![c] = [@ EXCEPT !.at = "ready", !.fork = f]]
    BY <1>6 DEF Gate
  <2> DEFINE r == [cand[c] EXCEPT !.at = "ready", !.fork = f]
  <2>2. f \in Whole
    <3>1. cand[c].fork \in Whole /\ {"y", "base"} \subseteq Content \ {"torn"}
      BY <1>2 DEF Cand, Content
    <3>2. f = cand[c].fork \/ \E p \in File, v \in {"y", "base"} : f = [cand[c].fork EXCEPT ![p] = v]
      BY <2>1 DEF GateWrote
    <3> QED
      BY <3>1, <3>2 DEF Whole
  <2>3. r \in Cand /\ r.tx = cand[c].tx /\ r.run = cand[c].run
    BY <1>2, <2>2 DEF Cand
  <2>4. cand' = [cand EXCEPT ![c] = r]
    BY <2>1
  <2> HIDE DEF r
  <2> QED
    BY <1>0, <1>2, <2>3, <2>4, EarlyCand
<1> QED
  BY <1>3, <1>4, <1>5, <1>6

\* r is candidate c with another end.
SameWork(r, c) ==
    /\ r \in Cand /\ r.ok = cand[c].ok /\ r.reads = cand[c].reads /\ r.listed = cand[c].listed
    /\ r.tree = cand[c].tree /\ r.fork = cand[c].fork

\* The candidates after candidate c has ended as r.
LEMMA EndFacts ==
  ASSUME cand \in [1..N -> Cand], NEW c \in 1..N, NEW r, SameWork(r, c),
         cand' = [cand EXCEPT ![c] = r], UNCHANGED origin
  PROVE  /\ cand' \in [1..N -> Cand] /\ cand'[c] = r
         /\ \A d \in 1..N : d # c => cand'[d] = cand[d]
         /\ \A d \in 1..N : /\ cand'[d].ok = cand[d].ok /\ cand'[d].reads = cand[d].reads
                            /\ cand'[d].tree = cand[d].tree /\ cand'[d].fork = cand[d].fork
                            /\ Wrote(d)' = Wrote(d) /\ Writes(d)' = Writes(d)
<1>1. cand' \in [1..N -> Cand] /\ \A d \in 1..N : cand'[d] = IF d = c THEN r ELSE cand[d]
  BY DEF SameWork
<1>2. \A d \in 1..N : /\ cand'[d].ok = cand[d].ok /\ cand'[d].reads = cand[d].reads
                      /\ cand'[d].tree = cand[d].tree /\ cand'[d].fork = cand[d].fork
  BY <1>1 DEF SameWork
<1>3. \A d \in 1..N : Wrote(d)' = Wrote(d) /\ Writes(d)' = Writes(d)
  BY <1>2 DEF Wrote, Writes
<1> QED
  BY <1>1, <1>2, <1>3

\* A candidate of which nothing comes into the workspace disturbs nobody.
LEMMA EndSerial ==
  ASSUME RaceInv, NEW c \in 1..N, c \notin Placed, NEW r, SameWork(r, c),
         r.tx \notin {"committed", "committing"}, cand' = [cand EXCEPT ![c] = r],
         UNCHANGED <<config, ws, origin, verdict, foreign>>
  PROVE  Serial' /\ Merged' = Merged /\ Placed' = Placed
<1>0. cand \in [1..N -> Cand] /\ Serial /\ gated' = gated
  BY DEF RaceInv, RaceTypes, config
<1>1. /\ cand'[c] = r /\ \A d \in 1..N : d # c => cand'[d] = cand[d]
      /\ \A d \in 1..N : Wrote(d)' = Wrote(d) /\ Writes(d)' = Writes(d)
  BY <1>0, EndFacts
<1>2. /\ Placed' = Placed /\ Merged' = Merged /\ Merged \subseteq Placed
      /\ \A d \in Placed : d \in 1..N /\ cand'[d] = cand[d]
  BY <1>1 DEF Placed, Merged
<1>3. Undone' = Undone
  <2>1. \A d \in Placed : (Wrote(d) \ Writes(d))' = Wrote(d) \ Writes(d)
    BY <1>1, <1>2
  <2> QED
    BY <1>2, <2>1 DEF Undone
<1>4. MergeIsSerial'
  <2>1. \A d \in Merged : Wrote(d)' = Wrote(d) /\ cand'[d] = cand[d]
    BY <1>1, <1>2
  <2> QED
    BY <1>0, <1>2, <1>3, <2>1 DEF Serial, MergeIsSerial
<1>5. GateGuards'
  BY <1>0, <1>2 DEF Serial, GateGuards
<1> QED
  BY <1>2, <1>4, <1>5 DEF Serial

\* A commit writes what nobody else has put there, or what its gate has undone.
LEMMA PutIsFree ==
  ASSUME NEW c, MayCommit(c), NEW p \in Put(c)
  PROVE  p \in File /\ (p \in Changed => p \in Wrote(c) \ Writes(c))
<1>1. p \in Writes(c) \/ p \in Wrote(c)
  BY DEF Put
<1>2. p \in Changed => p \notin Writes(c)
  BY DEF MayCommit
<1> QED
  BY <1>1, <1>2 DEF Wrote, Writes

\* What an agent wrote is committed, but for what its gate has undone.
LEMMA PutIsAll ==
  ASSUME NEW c, MayCommit(c)
  PROVE  Wrote(c) \subseteq Put(c) \cup (Wrote(c) \ Writes(c))
<1> SUFFICES ASSUME NEW p \in Wrote(c), p \in Writes(c) PROVE p \in Put(c)
  OBVIOUS
<1>1. p \in File /\ cand[c].fork[p] # origin[p] /\ ws[p] = origin[p]
  BY DEF Writes, MayCommit, Changed
<1> QED
  BY <1>1 DEF Put

\* A candidate that is merged, to the end or not, overwrites nobody and has read what
\* still means the same.
LEMMA PlaceSerial ==
  ASSUME RaceInv, NEW c \in 1..N, Placed = Merged, c \notin Placed, \A d \in Merged : d < c,
         Fate(c) = "committed", NEW r, SameWork(r, c), r.put = Put(c),
         r.tx \in {"committed", "committing"}, cand' = [cand EXCEPT ![c] = r],
         \A p \in File \ Put(c) : ws'[p] = ws[p],
         \A p \in Put(c) : \/ ws'[p] = cand[c].fork[p]
                           \/ r.tx = "committing" /\ ws'[p] \in {ws[p], "torn"},
         UNCHANGED <<config, origin, verdict, foreign>>
  PROVE  /\ Serial' /\ Placed' = Placed \cup {c}
         /\ Merged' = IF r.tx = "committed" THEN Merged \cup {c} ELSE Merged
<1>0. cand \in [1..N -> Cand] /\ Serial /\ gated' = gated /\ Merged \subseteq 1..N
  BY DEF RaceInv, RaceTypes, config, Merged
<1>1. /\ cand'[c] = r /\ \A d \in 1..N : d # c => cand'[d] = cand[d]
      /\ \A d \in 1..N : Wrote(d)' = Wrote(d) /\ Writes(d)' = Writes(d)
  BY <1>0, EndFacts
<1>2. cand[c].ok /\ Passed(c) /\ MayCommit(c)
  BY DEF Fate
<1>3. /\ Placed' = Placed \cup {c}
      /\ Merged' = IF r.tx = "committed" THEN Merged \cup {c} ELSE Merged
      /\ \A d \in Merged : d # c /\ cand'[d] = cand[d]
  BY <1>0, <1>1 DEF Placed, Merged
<1>4. Undone' = Undone \cup (Wrote(c) \ Writes(c))
  <2>1. \A d \in Placed : d \in 1..N
    BY DEF Placed
  <2>2. \A d \in Placed \cup {c} : (Wrote(d) \ Writes(d))' = Wrote(d) \ Writes(d)
    BY <1>1, <2>1
  <2> QED
    BY <1>3, <2>2 DEF Undone
<1>5. \A d \in Merged : cand[d].put \subseteq Changed
  BY DEF Changed
<1>6. ASSUME NEW d \in Merged'
      PROVE  /\ (Wrote(d) \subseteq cand[d].put \cup Undone)'
             /\ \A p \in cand'[d].put : p \in foreign \cup Undone' \/ ws'[p] = cand'[d].fork[p]
  <2>1. CASE d \in Merged
    <3>1. /\ Wrote(d) \subseteq cand[d].put \cup Undone /\ Wrote(d)' = Wrote(d) /\ cand'[d] = cand[d]
          /\ \A p \in cand[d].put : p \in foreign \cup Undone \/ ws[p] = cand[d].fork[p]
      BY <1>0, <1>1, <1>3, <2>1 DEF Serial, MergeIsSerial
    <3>2. ASSUME NEW p \in cand[d].put PROVE p \in foreign \cup Undone' \/ ws'[p] = cand[d].fork[p]
      <4>1. p \in File
        BY <1>0, <2>1 DEF Cand
      <4>2. CASE p \in Put(c)
        BY <1>2, <1>4, <1>5, <2>1, <4>2, PutIsFree
      <4>3. CASE p \notin Put(c)
        BY <1>4, <3>1, <4>1, <4>3
      <4> QED
        BY <4>2, <4>3
    <3> QED
      BY <1>4, <3>1, <3>2
  <2>2. CASE d = c /\ r.tx = "committed"
    <3>1. Wrote(c) \subseteq Put(c) \cup (Wrote(c) \ Writes(c))
      BY <1>2, PutIsAll
    <3>2. cand'[d].put = Put(c) /\ cand'[d].fork = cand[c].fork /\ Wrote(d)' = Wrote(c)
      BY <1>1, <2>2 DEF SameWork
    <3> QED
      BY <1>4, <2>2, <3>1, <3>2
  <2> QED
    BY <1>3, <2>1, <2>2
<1>7. ASSUME NEW d \in Merged', NEW e \in Merged', d < e,
             NEW p \in (cand'[d].put \cap cand'[e].reads) \ (foreign \cup Undone')
      PROVE  Meaning(cand'[d].fork[p]) = Meaning(origin[p])
  <2>0. d \in 1..N /\ e \in 1..N
    BY <1>0, <1>3
  <2>1. d \in Merged /\ d # c
    BY <1>0, <1>3, <1>7, <2>0
  <2>2. cand'[d] = cand[d] /\ cand'[e].reads = cand[e].reads /\ p \notin foreign \cup Undone
    BY <1>0, <1>1, <1>4, <2>0, <2>1, EndFacts
  <2>3. CASE e = c
    <3>1. p \in File /\ p \in Changed /\ p \in cand[c].reads
      BY <1>0, <1>5, <2>0, <2>1, <2>2, <2>3 DEF Cand
    <3>2. Meaning(ws[p]) = Meaning(origin[p])
      BY <1>2, <3>1 DEF MayCommit
    <3>3. ws[p] = cand[d].fork[p]
      BY <1>0, <2>1, <2>2 DEF Serial, MergeIsSerial
    <3> QED
      BY <2>2, <3>2, <3>3
  <2>4. CASE e \in Merged
    BY <1>0, <1>7, <2>1, <2>2, <2>4 DEF Serial, MergeIsSerial
  <2> QED
    BY <1>3, <2>3, <2>4
<1>8. MergeIsSerial'
  BY <1>6, <1>7 DEF MergeIsSerial
<1>9. GateGuards'
  <2> SUFFICES ASSUME NEW p \in File, p \notin foreign, ws'[p] # origin[p]
               PROVE  \E d \in Placed' :
                         /\ p \in cand'[d].put /\ cand'[d].ok
                         /\ gated => verdict[cand'[d].tree] = "passed"
                         /\ \/ ws'[p] = cand'[d].fork[p]
                            \/ ws'[p] = "torn" /\ cand'[d].tx = "committing"
    BY <1>0 DEF GateGuards
  <2>1. CASE ws'[p] = ws[p]
    <3>1. PICK d \in Placed : /\ p \in cand[d].put /\ cand[d].ok
                              /\ gated => verdict[cand[d].tree] = "passed"
                              /\ \/ ws[p] = cand[d].fork[p]
                                 \/ ws[p] = "torn" /\ cand[d].tx = "committing"
      BY <1>0, <2>1 DEF Serial, GateGuards
    <3>2. cand'[d] = cand[d] /\ d \in Placed'
      BY <1>3, <3>1
    <3>3. ws'[p] = cand[d].fork[p] \/ (ws'[p] = "torn" /\ cand[d].tx = "committing")
      BY <2>1, <3>1, Zenon
    <3> QED
      BY <3>1, <3>2, <3>3, Zenon
  <2>2. CASE ws'[p] # ws[p]
    <3>1. /\ c \in Placed' /\ p \in Put(c) /\ cand'[c].put = Put(c) /\ cand'[c].ok
          /\ cand'[c].tree = cand[c].tree /\ cand'[c].fork = cand[c].fork /\ cand'[c].tx = r.tx
      BY <1>1, <1>2, <1>3, <2>2 DEF SameWork
    <3>2. gated => verdict[cand'[c].tree] = "passed"
      BY <1>2, <3>1, Zenon DEF Passed
    <3>3. ws'[p] = cand[c].fork[p] \/ (ws'[p] = "torn" /\ r.tx = "committing")
      <4>1. ws'[p] = cand[c].fork[p] \/ (r.tx = "committing" /\ ws'[p] \in {ws[p], "torn"})
        BY <3>1
      <4> QED
        BY <2>2, <4>1
    <3> QED
      BY <3>1, <3>2, <3>3
  <2> QED
    BY <2>1, <2>2
<1> QED
  BY <1>3, <1>8, <1>9 DEF Serial

\* A workspace with all writes of candidate c.
LEMMA WithFacts ==
  ASSUME RaceInv, ws \in Whole, NEW c \in 1..N, NEW done \in SUBSET Put(c)
  PROVE  /\ With(c, done) \in Whole
         /\ \A p \in File : With(c, done)[p] = IF p \in done THEN cand[c].fork[p] ELSE ws[p]
<1>1. cand[c].fork \in Whole
  BY DEF RaceInv, RaceTypes, Cand
<1> QED
  BY <1>1 DEF With, Whole

\* Reconciliation of one candidate: what it leaves.
LEMMA SettleFacts ==
  ASSUME RaceInv, pc = "reconcile", NEW c \in 1..N, c \notin Merged, \A d \in Merged : d < c, Settle(c),
         UNCHANGED <<config, origin, verdict, foreign>>
  PROVE  /\ Serial' /\ ws' \in Whole /\ cand' \in [1..N -> Cand]
         /\ \A d \in 1..N : d # c => cand'[d] = cand[d]
         /\ \A d \in 1..N : cand'[d].ok = cand[d].ok /\ cand'[d].tree = cand[d].tree
         /\ Closed(c)' /\ (cand'[c].run = "succeeded" => cand'[c].tx = "committed")
         /\ Merged' = IF Fate(c) = "committed" THEN Merged \cup {c} ELSE Merged
         /\ Placed' = Merged'
<1>0. cand \in [1..N -> Cand] /\ cand[c] \in Cand /\ Placed = Merged /\ ws \in Whole
  BY DEF RaceInv, RaceTypes, OrderInv
<1>1. CASE Fate(c) = "committed"
  <2> DEFINE r == [cand[c] EXCEPT !.at = "committed", !.put = Put(c), !.tx = "committed",
                                  !.run = "succeeded", !.dir = FALSE]
  <2>1. Put(c) \subseteq File
    BY DEF Put, Wrote, Writes
  <2>2. /\ SameWork(r, c) /\ r.put = Put(c) /\ r.tx = "committed" /\ r.run = "succeeded"
        /\ r.dir = FALSE
    BY <1>0, <2>1 DEF Cand, SameWork
  <2>3. cand' = [cand EXCEPT ![c] = r] /\ ws' = With(c, Put(c))
    BY <1>1 DEF Settle
  <2> HIDE DEF r
  <2>4. ws' \in Whole /\ \A p \in File : ws'[p] = IF p \in Put(c) THEN cand[c].fork[p] ELSE ws[p]
    BY <1>0, <2>3, WithFacts
  <2>5. Serial' /\ Placed' = Placed \cup {c} /\ Merged' = Merged \cup {c}
    BY <1>0, <1>1, <2>1, <2>2, <2>3, <2>4, PlaceSerial
  <2>6. /\ cand' \in [1..N -> Cand] /\ cand'[c] = r /\ \A d \in 1..N : d # c => cand'[d] = cand[d]
        /\ \A d \in 1..N : cand'[d].ok = cand[d].ok /\ cand'[d].tree = cand[d].tree
    BY <1>0, <2>2, <2>3, EndFacts
  <2>7. Closed(c)'
    BY <2>2, <2>6 DEF Closed
  <2> QED
    BY <1>0, <1>1, <2>2, <2>4, <2>5, <2>6, <2>7
<1>2. CASE Fate(c) # "committed"
  <2> DEFINE r == [cand[c] EXCEPT !.at = Fate(c), !.tx = "aborted", !.run = "failed", !.dir = FALSE]
  <2>1. Fate(c) \in {"agent_failed", "gate_rejected", "race_loser", "conflict"}
    BY <1>2 DEF Fate
  <2>2. SameWork(r, c) /\ r.tx = "aborted" /\ r.run = "failed" /\ r.dir = FALSE
    BY <1>0, <2>1 DEF Cand, SameWork
  <2>3. cand' = [cand EXCEPT ![c] = r] /\ ws' = ws
    BY <1>2 DEF Settle, Close
  <2> HIDE DEF r
  <2>4. Serial' /\ Merged' = Merged /\ Placed' = Placed
    BY <1>0, <2>2, <2>3, EndSerial
  <2>6. /\ cand' \in [1..N -> Cand] /\ cand'[c] = r /\ \A d \in 1..N : d # c => cand'[d] = cand[d]
        /\ \A d \in 1..N : cand'[d].ok = cand[d].ok /\ cand'[d].tree = cand[d].tree
    BY <1>0, <2>2, <2>3, EndFacts
  <2>7. Closed(c)'
    BY <2>2, <2>6 DEF Closed
  <2> QED
    BY <1>0, <1>2, <2>2, <2>3, <2>4, <2>6, <2>7
<1> QED
  BY <1>1, <1>2

\* A shadow run ends with its only candidate.
LEMMA ShadowKeeps ==
  ASSUME RaceInv, ShadowSettle
  PROVE  RaceInv'
<1>0. /\ 1 \in 1..N /\ RaceTypes /\ OrderInv /\ cand \in [1..N -> Cand]
      /\ mode = "shadow" /\ pc = "reconcile" /\ Settle(1) /\ pc' = "returned"
      /\ UNCHANGED <<config, origin, next, verdict, foreign>>
  BY RaceAssumption DEF RaceInv, RaceTypes, ShadowSettle
<1>1. Merged = {} /\ next = 1 /\ mode' = mode
  BY <1>0 DEF OrderInv, config, Merged
<1>2. /\ Serial' /\ ws' \in Whole /\ cand' \in [1..N -> Cand] /\ Closed(1)'
      /\ \A d \in 1..N : d # 1 => cand'[d] = cand[d]
      /\ cand'[1].run = "succeeded" => cand'[1].tx = "committed"
  BY <1>0, <1>1, SettleFacts
<1>3. RaceTypes'
  BY <1>0, <1>2 DEF RaceTypes, config, Whole, Tree
<1>4. OrderInv' /\ WinnerInv' /\ ClosedInv'
  BY <1>0, <1>1, <1>2 DEF OrderInv, WinnerInv, ClosedInv
<1> QED
  BY <1>2, <1>3, <1>4 DEF RaceInv

\* The candidates of a race are reconciled one after the other.
LEMMA ReconcileKeeps ==
  ASSUME RaceInv, Reconcile
  PROVE  RaceInv'
<1>0. /\ next \in 1..N /\ RaceTypes /\ OrderInv /\ cand \in [1..N -> Cand] /\ N \in Nat
      /\ mode # "shadow" /\ pc = "reconcile" /\ Settle(next) /\ next' = next + 1
      /\ UNCHANGED <<config, origin, pc, verdict, foreign>>
      /\ WinnerInv /\ ClosedInv /\ Serial
  BY RaceAssumption DEF RaceInv, RaceTypes, Reconcile, Cands
<1>1. /\ mode' = mode /\ gated' = gated /\ next \notin Merged /\ Placed = Merged
      /\ \A d \in Merged : d \in 1..N /\ d < next
  BY <1>0 DEF OrderInv, config, Merged
<1>2. /\ Serial' /\ ws' \in Whole /\ cand' \in [1..N -> Cand]
      /\ \A d \in 1..N : d # next => cand'[d] = cand[d]
      /\ \A d \in 1..N : cand'[d].ok = cand[d].ok /\ cand'[d].tree = cand[d].tree
      /\ \A d : d = next => Closed(d)' /\ (cand'[d].run = "succeeded" => cand'[d].tx = "committed")
      /\ Merged' = IF Fate(next) = "committed" THEN Merged \cup {next} ELSE Merged
      /\ Placed' = Merged'
  BY <1>0, <1>1, SettleFacts
<1>3. RaceTypes'
  BY <1>0, <1>2 DEF RaceTypes, config, Whole, Tree
<1>4. OrderInv'
  BY <1>0, <1>1, <1>2 DEF OrderInv
<1>5. ClosedInv'
  <2>1. ASSUME NEW d \in 1..N, d < next + 1 PROVE Closed(d)'
    <3>1. CASE d = next
      BY <1>2, <3>1
    <3>2. CASE d # next
      <4>1. Closed(d) /\ cand'[d] = cand[d]
        BY <1>0, <1>2, <2>1, <3>2 DEF ClosedInv
      <4> QED
        BY <4>1 DEF Closed
    <3> QED
      BY <3>1, <3>2
  <2> QED
    BY <1>0, <1>1, <2>1 DEF ClosedInv
<1>6. WinnerInv'
  <2> SUFFICES ASSUME mode = "winner" PROVE WinnerInv'
    BY <1>1 DEF WinnerInv
  <2>1. \A d, e \in Placed' : d = e
    <3>1. CASE Fate(next) = "committed"
      <4>1. Merged = {}
        BY <3>1 DEF Fate
      <4> QED
        BY <1>2, <3>1, <4>1
    <3>2. CASE Fate(next) # "committed"
      BY <1>0, <1>1, <1>2, <3>2 DEF WinnerInv
    <3> QED
      BY <3>1, <3>2
  <2>2. ASSUME Merged' = {}, foreign' = {}, NEW d \in 1..N, d < next + 1
        PROVE  ~cand'[d].ok \/ ~Passed(d)'
    <3>0. Merged = {} /\ foreign = {} /\ Fate(next) # "committed"
      BY <1>0, <1>2, <2>2
    <3>1. ~cand[d].ok \/ ~Passed(d)
      <4>1. CASE d = next
        <5>1. Changed = {}
          BY <1>0, <1>1, <3>0 DEF Serial, GateGuards, Changed
        <5>2. MayCommit(next)
          BY <5>1 DEF MayCommit
        <5> QED
          BY <3>0, <4>1, <5>2 DEF Fate
      <4>2. CASE d # next
        BY <1>0, <2>2, <3>0, <4>2 DEF WinnerInv
      <4> QED
        BY <4>1, <4>2
    <3> QED
      BY <1>0, <1>1, <1>2, <3>1 DEF Passed
  <2> QED
    BY <1>0, <1>1, <2>1, <2>2 DEF WinnerInv
<1> QED
  BY <1>2, <1>3, <1>4, <1>5, <1>6 DEF RaceInv

\* The call returns when all are reconciled.
LEMMA ReturnKeeps ==
  ASSUME RaceInv, Return
  PROVE  RaceInv'
<1>0. /\ RaceTypes /\ OrderInv /\ Serial /\ WinnerInv /\ ClosedInv /\ N \in Nat \ {0}
      /\ pc = "reconcile" /\ next \notin Cands /\ pc' = "returned"
      /\ UNCHANGED <<config, ws, origin, next, cand, verdict, foreign>>
  BY RaceAssumption DEF RaceInv, Return
<1>1. mode # "shadow" /\ next = N + 1 /\ mode' = mode /\ gated' = gated
  BY <1>0 DEF RaceTypes, OrderInv, Cands, config
<1>2. Merged' = Merged /\ Placed' = Placed /\ \A c : Passed(c)' = Passed(c) /\ Closed(c)' = Closed(c)
  BY <1>0, <1>1 DEF Merged, Placed, Passed, Closed
<1>3. RaceTypes' /\ OrderInv'
  BY <1>0, <1>1, <1>2 DEF RaceTypes, OrderInv, config
<1>4. Serial'
  BY <1>0, <1>1 DEF Serial, MergeIsSerial, GateGuards, Merged, Placed, Undone, Wrote, Writes
<1>5. WinnerInv' /\ ClosedInv'
  BY <1>0, <1>1, <1>2 DEF WinnerInv, ClosedInv
<1> QED
  BY <1>3, <1>4, <1>5 DEF RaceInv

\* What a call that threw must leave.
LEMMA ThrownKeeps ==
  ASSUME RaceTypes', Serial', pc' = "thrown", OrderInv, UNCHANGED <<config, next>>,
         mode = "winner" => \A c, d \in Placed' : c = d, mode = "shadow" => ~cand'[1].dir
  PROVE  RaceInv'
<1>1. mode' = mode /\ next' = next
  BY DEF config
<1> QED
  BY <1>1 DEF RaceInv, OrderInv, WinnerInv, ClosedInv

\* Something throws before the candidates are reconciled.
LEMMA ThrowEarlyKeeps ==
  ASSUME RaceInv, Throw, ThrowEarly
  PROVE  RaceInv'
<1>0. /\ RaceTypes /\ OrderInv /\ pc' = "thrown" /\ pc \in {"capture", "open", "run"} /\ ws' = ws
      /\ UNCHANGED <<config, origin, next, verdict, foreign>>
  BY DEF RaceInv, Throw, ThrowEarly
<1>1. /\ Placed = {} /\ 1 \in 1..N /\ cand \in [1..N -> Cand] /\ ws \in Whole
      /\ \A p \in File : ws[p] # origin[p] => p \in foreign
  BY <1>0, EarlyFacts
<1>2. /\ cand' \in [1..N -> Cand] /\ Placed' = {} /\ (mode = "shadow" => ~cand'[1].dir)
      /\ \A c \in 1..N : cand'[c].run = "succeeded" => cand'[c].tx = "committed"
  <2>1. CASE mode = "shadow"
    <3>1. PICK tx \in {cand[1].tx} \cup (IF cand[1].tx = "open" THEN {"aborted"} ELSE {}) :
             cand' = Dropped(1, tx, {})
      BY <2>1 DEF ThrowEarly
    <3> DEFINE r == [cand[1] EXCEPT !.tx = tx, !.put = {}, !.dir = FALSE]
    <3>2. cand[1] \in Cand /\ cand[1].tx \notin {"committed", "committing"}
          /\ cand[1].run # "succeeded"
      BY <1>0, <1>1 DEF Placed, RaceTypes
    <3>3. tx \in {"none", "open", "aborted"}
      BY <3>1, <3>2 DEF Cand
    <3>4. r \in Cand /\ r.tx = tx /\ r.run = cand[1].run /\ r.dir = FALSE
      BY <3>2, <3>3 DEF Cand
    <3>5. cand' = [cand EXCEPT ![1] = r]
      BY <3>1 DEF Dropped
    <3> HIDE DEF r
    <3>6. cand' \in [1..N -> Cand] /\ \A d \in 1..N : cand'[d] = IF d = 1 THEN r ELSE cand[d]
      BY <1>1, <3>4, <3>5
    <3>7. Placed' = {}
      BY <1>1, <3>3, <3>4, <3>6 DEF Placed
    <3>8. \A d \in 1..N : cand'[d].run = "succeeded" => cand'[d].tx = "committed"
      BY <1>0, <3>2, <3>4, <3>6 DEF RaceTypes
    <3> QED
      BY <1>1, <3>4, <3>6, <3>7, <3>8
  <2>2. CASE mode # "shadow"
    BY <1>0, <1>1, <2>2 DEF ThrowEarly, Placed, RaceTypes
  <2> QED
    BY <2>1, <2>2
<1>3. RaceTypes'
  BY <1>0, <1>2 DEF RaceTypes, config
<1>4. Serial'
  <2>1. Merged' = {}
    BY <1>2 DEF Merged, Placed
  <2> QED
    BY <1>0, <1>1, <2>1 DEF Serial, MergeIsSerial, GateGuards
<1> QED
  BY <1>0, <1>2, <1>3, <1>4, ThrownKeeps

\* Something throws around the commit of candidate c.
LEMMA ThrowLateKeeps ==
  ASSUME RaceInv, Throw, pc = "reconcile", next \in Cands,
         ThrowBefore(next) \/ ThrowApplying(next) \/ ThrowAfter(next)
  PROVE  RaceInv'
<1>0. /\ RaceTypes /\ OrderInv /\ WinnerInv /\ pc' = "thrown" /\ cand \in [1..N -> Cand]
      /\ ws \in Whole /\ next \in 1..N /\ cand[next] \in Cand
      /\ UNCHANGED <<config, origin, next, verdict, foreign>>
  BY RaceAssumption DEF RaceInv, RaceTypes, Throw, Cands
<1>1. Placed = Merged /\ \A d \in Merged : d \in 1..N /\ d < next
  BY <1>0 DEF OrderInv, Merged
<1>2. next \notin Placed /\ (mode = "shadow" => next = 1) /\ cand[next].run # "succeeded"
  BY <1>0, <1>1 DEF OrderInv, RaceTypes, Merged
<1>3. ASSUME NEW tx \in {"open", "aborted", "committing", "committed"}, NEW put \in SUBSET File,
             cand' = Dropped(next, tx, put)
      PROVE  \E r : /\ SameWork(r, next) /\ r.tx = tx /\ r.put = put /\ cand' = [cand EXCEPT ![next] = r]
                    /\ cand' \in [1..N -> Cand] /\ (mode = "shadow" => ~cand'[1].dir)
                    /\ \A d \in 1..N : cand'[d].run = "succeeded" => cand'[d].tx = "committed"
  <2> DEFINE r == [cand[next] EXCEPT !.tx = tx, !.put = put, !.dir = FALSE]
  <2>1. SameWork(r, next) /\ r.tx = tx /\ r.put = put /\ r.dir = FALSE /\ r.run = cand[next].run
    BY <1>0 DEF Cand, SameWork
  <2>2. cand' = [cand EXCEPT ![next] = r]
    BY <1>3 DEF Dropped
  <2> HIDE DEF r
  <2>3. cand' \in [1..N -> Cand] /\ cand'[next] = r /\ \A d \in 1..N : d # next => cand'[d] = cand[d]
    BY <1>0, <2>1, <2>2, EndFacts
  <2>4. \A d \in 1..N : cand'[d].run = "succeeded" => cand'[d].tx = "committed"
    BY <1>0, <1>2, <2>1, <2>3 DEF RaceTypes
  <2> QED
    BY <1>2, <2>1, <2>2, <2>3, <2>4
<1>4. CASE ThrowBefore(next)
  <2>1. PICK tx \in {"open", "aborted"} : cand' = Dropped(next, tx, {})
    BY <1>4 DEF ThrowBefore
  <2>2. PICK r : /\ SameWork(r, next) /\ r.tx = tx /\ cand' = [cand EXCEPT ![next] = r]
                 /\ cand' \in [1..N -> Cand] /\ (mode = "shadow" => ~cand'[1].dir)
                 /\ \A d \in 1..N : cand'[d].run = "succeeded" => cand'[d].tx = "committed"
    BY <1>3, <2>1
  <2>3. Serial' /\ Placed' = Placed
    BY <1>0, <1>2, <1>4, <2>1, <2>2, EndSerial DEF ThrowBefore
  <2>4. RaceTypes'
    BY <1>0, <1>4, <2>2 DEF ThrowBefore, RaceTypes, config
  <2> QED
    BY <1>0, <2>2, <2>3, <2>4, ThrownKeeps DEF WinnerInv
<1>5. CASE ThrowApplying(next) \/ ThrowAfter(next)
  <2>0. Fate(next) = "committed" /\ Put(next) \subseteq File
    BY <1>5 DEF ThrowApplying, ThrowAfter, Put, Wrote, Writes
  <2>1. PICK tx \in {"committing", "committed"} :
           /\ cand' = Dropped(next, tx, Put(next)) /\ ws' \in Tree
           /\ \A p \in File \ Put(next) : ws'[p] = ws[p]
           /\ \A p \in Put(next) : \/ ws'[p] = cand[next].fork[p]
                                   \/ tx = "committing" /\ ws'[p] \in {ws[p], "torn"}
    <3>1. CASE ThrowAfter(next)
      <4>1. ws' = With(next, Put(next)) /\ cand' = Dropped(next, "committed", Put(next))
        BY <3>1 DEF ThrowAfter
      <4>2. ws' \in Whole /\ \A p \in File : ws'[p] = IF p \in Put(next) THEN cand[next].fork[p] ELSE ws[p]
        BY <1>0, <4>1, WithFacts
      <4>3. ws' \in Tree
        BY <4>2 DEF Whole, Tree
      <4> QED
        BY <2>0, <4>1, <4>2, <4>3
    <3>2. CASE ThrowApplying(next)
      <4>0. PICK done \in SUBSET Put(next) : \E torn \in {{}} \cup {{p} : p \in Put(next) \ done} :
               ws' = [p \in File |-> IF p \in torn THEN "torn" ELSE With(next, done)[p]]
        BY <3>2 DEF ThrowApplying
      <4>1. PICK torn \in {{}} \cup {{p} : p \in Put(next) \ done} :
               ws' = [p \in File |-> IF p \in torn THEN "torn" ELSE With(next, done)[p]]
        BY <4>0
      <4>2. /\ With(next, done) \in Whole
            /\ \A p \in File : With(next, done)[p] = IF p \in done THEN cand[next].fork[p] ELSE ws[p]
        BY <1>0, WithFacts
      <4>3. torn \subseteq Put(next) /\ cand' = Dropped(next, "committing", Put(next))
        BY <3>2, <4>1 DEF ThrowApplying
      <4>4. ws' \in Tree
        BY <4>1, <4>2 DEF Whole, Tree, Content
      <4> QED
        BY <2>0, <4>1, <4>2, <4>3, <4>4
    <3> QED
      BY <1>5, <3>1, <3>2
  <2>2. PICK r : /\ SameWork(r, next) /\ r.tx = tx /\ r.put = Put(next)
                 /\ cand' = [cand EXCEPT ![next] = r]
                 /\ cand' \in [1..N -> Cand] /\ (mode = "shadow" => ~cand'[1].dir)
                 /\ \A d \in 1..N : cand'[d].run = "succeeded" => cand'[d].tx = "committed"
    BY <1>3, <2>0, <2>1
  <2>3. Serial' /\ Placed' = Placed \cup {next}
    BY <1>0, <1>1, <1>2, <2>0, <2>1, <2>2, PlaceSerial
  <2>4. RaceTypes'
    BY <1>0, <2>1, <2>2 DEF RaceTypes, config
  <2>5. mode = "winner" => Merged = {}
    BY <2>0 DEF Fate
  <2> QED
    BY <1>0, <1>1, <2>2, <2>3, <2>4, <2>5, ThrownKeeps
<1> QED
  BY <1>4, <1>5

\* Somebody outside edits a file of the workspace.
LEMMA ForeignKeeps ==
  ASSUME RaceInv, NEW p \in File, ForeignEdit(p)
  PROVE  RaceInv'
<1>0. /\ RaceTypes /\ OrderInv /\ Serial /\ WinnerInv /\ ClosedInv /\ ws \in Whole
      /\ UNCHANGED <<config, origin, pc, next, cand, verdict>> /\ foreign' = foreign \cup {p}
  BY DEF RaceInv, RaceTypes, ForeignEdit
<1>1. PICK v \in {"tidy", "y"} : ws' = [ws EXCEPT ![p] = v]
  BY DEF ForeignEdit
<1>2. ws' \in Whole /\ \A q \in File : q # p => ws'[q] = ws[q]
  BY <1>0, <1>1 DEF Whole, Content
<1>3. /\ mode' = mode /\ gated' = gated /\ Merged' = Merged /\ Placed' = Placed
      /\ \A c : Passed(c)' = Passed(c) /\ Closed(c)' = Closed(c) /\ Wrote(c)' = Wrote(c)
      /\ Undone' = Undone
  BY <1>0 DEF Merged, Placed, Wrote, Writes, Undone, Passed, Closed, config
<1>4. RaceTypes' /\ OrderInv'
  BY <1>0, <1>2, <1>3 DEF RaceTypes, OrderInv, config, Whole, Tree
<1>5. Serial'
  <2>1. GateGuards'
    BY <1>0, <1>2, <1>3 DEF Serial, GateGuards
  <2>2. MergeIsSerial'
    <3>1. \A c \in Merged : \A q \in cand[c].put : q \in File
      BY <1>0 DEF RaceTypes, Cand, Merged
    <3> QED
      BY <1>0, <1>2, <1>3, <3>1 DEF Serial, MergeIsSerial
  <2> QED
    BY <2>1, <2>2 DEF Serial
<1>6. WinnerInv' /\ ClosedInv'
  BY <1>0, <1>3 DEF WinnerInv, ClosedInv
<1> QED
  BY <1>4, <1>5, <1>6 DEF RaceInv

\* A race starts with nothing opened and nothing changed.
LEMMA RaceInvInit ==
  ASSUME RaceInit
  PROVE  RaceInv
<1>1. Base \in Whole /\ NoCand \in Cand
  BY DEF Base, Whole, Content, NoCand, Cand
<1>2. cand \in [1..N -> Cand] /\ \A c \in 1..N : cand[c] = NoCand
  BY <1>1 DEF RaceInit
<1>3. NoCand.tx = "none" /\ NoCand.run = "none"
  BY DEF NoCand
<1>4. RaceTypes
  BY <1>1, <1>2, <1>3, RaceAssumption DEF RaceInit, RaceTypes, Whole, Tree
<1>5. Merged = {} /\ Placed = {} /\ next = 1 /\ pc = "capture" /\ ws = origin
  BY <1>2, <1>3 DEF Merged, Placed, RaceInit
<1> QED
  BY <1>4, <1>5 DEF RaceInv, OrderInv, Serial, MergeIsSerial, GateGuards, WinnerInv, ClosedInv

\* Every step of a race keeps the invariant.
LEMMA RaceInvNext ==
  ASSUME RaceInv, [RaceNext]_raceVars
  PROVE  RaceInv'
<1>1. CASE UNCHANGED raceVars
  BY <1>1 DEF raceVars, RaceInv, RaceTypes, OrderInv, Serial, MergeIsSerial, GateGuards, WinnerInv,
              ClosedInv, Merged, Placed, Undone, Wrote, Writes, Passed, Closed
<1>2. CASE Throw
  BY <1>2, ThrowEarlyKeeps, ThrowLateKeeps DEF Throw
<1> QED
  BY <1>1, <1>2, BeginKeeps, CandKeeps, ShadowKeeps, ReconcileKeeps, ReturnKeeps, ForeignKeeps, Zenon
  DEF RaceNext, Progress

\* A race of agents, for any number of candidates and any files: what was merged
\* is the result of the candidates one after the other, what is in the workspace is
\* from a candidate that its gate let pass even after a commit that failed midway,
\* there is one winner at most, and a call that returns has closed everything.
THEOREM RaceHolds == RaceSpec => []RaceIsSerial
<1>1. RaceInit => RaceInv
  BY RaceInvInit
<1>2. RaceInv /\ [RaceNext]_raceVars => RaceInv'
  BY RaceInvNext
<1>3. RaceInv => RaceIsSerial
  <2> SUFFICES ASSUME RaceInv PROVE RaceIsSerial
    OBVIOUS
  <2>0. N \in Nat \ {0} /\ 1 \in 1..N
    BY RaceAssumption
  <2>1. RaceTypeOK
    BY DEF RaceInv, RaceTypes, RaceTypeOK, Cand, Whole, Tree
  <2>2. MergeIsSerial /\ GateGuards
    BY DEF RaceInv, Serial
  <2>3. WinnerTakesAll
    <3> SUFFICES ASSUME mode = "winner" PROVE WinnerTakesAll
      BY DEF WinnerTakesAll
    <3>1. Cardinality(Placed) <= 1
      <4>1. \A c, d \in Placed : c = d
        BY DEF RaceInv, WinnerInv
      <4>2. CASE Placed = {}
        BY <4>2, FS_EmptySet
      <4>3. CASE Placed # {}
        <5>1. PICK c : Placed = {c}
          BY <4>1, <4>3
        <5> QED
          BY <5>1, FS_Singleton
      <4> QED
        BY <4>2, <4>3
    <3>2. ASSUME pc = "returned", Merged = {}, foreign = {}, NEW c \in Cands
          PROVE  ~cand[c].ok \/ ~Passed(c)
      BY <2>0, <3>2 DEF RaceInv, WinnerInv, ClosedInv, Cands
    <3> QED
      BY <3>1, <3>2 DEF WinnerTakesAll
  <2>4. ReturnClosesAll
    <3>1. pc # "thrown" => \A p \in File : ws[p] # "torn"
      BY DEF RaceInv, RaceTypes, Whole
    <3> QED
      BY <2>0, <3>1 DEF RaceInv, ClosedInv, Closed, ReturnClosesAll, Cands
  <2> QED
    BY <2>1, <2>2, <2>3, <2>4 DEF RaceIsSerial
<1> QED
  BY <1>1, <1>2, <1>3, PTL DEF RaceSpec

-----------------------------------------------------------------------------
(***************************************************************************)
(* The session.  SessionInv follows an account from the record of a crash  *)
(* to the request that carries it (OwedInv), and an answer from the        *)
(* upstream to the entry that serves it again (CacheInv).                  *)
(***************************************************************************)

\* Calls and answers, and what conversations, caches and traces are made of.
Answer == [id : Nat \ {0}, tool : Tools \cup {"text"}]
Outputs == FileContents \cup {NoRes, "empty", "listed"}
Results == Outputs \cup {"account", "cut", "timeout", "error"}
Conversation == Seq([id : Int, tool : Tools \cup {"text"}, res : Results, acc : BOOLEAN])
CacheEntry == [turn : Nat, conv : Conversation, ans : Answer, stamp : FileContents \cup {Unstamped},
               disc : SUBSET Outputs]
Listing == [turn : Nat, out : Outputs]
TraceStep == [turn : Nat, ans : Answer, ok : BOOLEAN]
TurnMaps == UNION {[D -> Nat] : D \in SUBSET Conversation}

ReqRecord ==
    [pc : {"free", "arrived", "settled", "admitted", "upstream", "streamed", "hit", "failed", "over"},
     conv : Conversation, turn : Nat, ans : Answer \cup {NoAnswer}, ok : BOOLEAN, gone : BOOLEAN]
ReqTypes == req \in [Requests -> ReqRecord]

ExecRecord ==
    [pc : {"free", "run", "stopping"}, id : Int, rec : Int, tool : Tools \cup {"text"}, out : Outputs,
     turn : Nat, client : BOOLEAN, alone : BOOLEAN]
ExecTypes == exec \in [Execs -> ExecRecord]

HarnessRecord ==
    [ph : {"off", "idle", "wait", "call", "tool", "done"}, conv : Conversation, req : Nat,
     ans : Answer \cup {NoAnswer}, exec : Nat]
HarnessTypes == harness \in HarnessRecord

ProxyRecord ==
    [turnOf : TurnMaps, cursor : Nat, active : Int, pending : Int, observed : BOOLEAN,
     disc : Seq(Listing), turns : Seq(TraceStep), limit : Nat, old : Seq(TraceStep)]
ProxyTypes == proxy \in ProxyRecord

StoredTypes ==
    stored \in [inFlight : Int, interrupted : Int, entries : Seq(CacheEntry), trace : Seq(TraceStep)]

OtherTypes ==
    /\ file \in FileContents /\ host \in {"down", "up"} /\ rewritten \in BOOLEAN
    /\ used \in [requests : Nat, answers : Nat, execs : Nat, troubles : Nat, launches : Nat]

SessionTypes == ReqTypes /\ ExecTypes /\ HarnessTypes /\ ProxyTypes /\ StoredTypes /\ OtherTypes

\* A host that is down has no memory, no handler and no harness.
PhaseInv ==
    /\ host = "down" => /\ proxy = EmptyProxy /\ harness.ph = "off"
                        /\ \A r \in Requests : req[r].pc = "free"
    /\ harness.ph = "off" => \A x \in Execs : exec[x].pc = "free"
    /\ harness.ph = "call" => harness.ans \in Answer
    /\ harness.ph = "tool" => harness.exec \in Execs
    /\ \A r \in Requests : req[r].pc = "streamed" => req[r].ans \in Answer

\* A fork asks the upstream nothing before its step, and has the steps before it.
TapeInv ==
    /\ proxy.old = <<>> => proxy.limit = 0
    /\ proxy.old # <<>> => proxy.limit < Len(proxy.old)
    /\ \A r \in Requests : req[r].pc = "upstream" => req[r].turn >= proxy.limit

\* A command that is sure of its record has it, and wrote it in this launch.
RecordInv ==
    \A x \in Execs : exec[x].pc # "free" =>
        /\ exec[x].id # NoCall /\ exec[x].rec # NoCall
        /\ rewritten
        /\ exec[x].alone => readGatewayInterruptedTool(stored) \in {exec[x].id, exec[x].rec}

\* What is owed is in the record, or in the memory of the launch that will account for it.
OwedInv ==
    owed # {} =>
        /\ NoCall \notin owed
        /\ host = "up" => proxy.pending \in owed
        /\ host = "down" \/ ~ rewritten => readGatewayInterruptedTool(stored) \in owed
        /\ \A r \in Requests : req[r].pc \notin {"admitted", "upstream", "streamed"}

\* The upstream gave every answer that is cached, to the same conversation; if that names
\* the file, its stamp means what it meant then.
Witness(e, a) ==
    /\ a.ans = e.ans /\ a.conv = e.conv
    /\ a.over # "unknown" => e.stamp # Unstamped /\ Sem[a.over] = Sem[e.stamp]
CacheInv == \A i \in DOMAIN stored.entries : \E a \in answers : Witness(stored.entries[i], a)

SessionInv ==
    /\ SessionTypes /\ PhaseInv /\ TapeInv /\ RecordInv /\ OwedInv /\ CacheInv
\* Every set of natural numbers that is not empty has a least element.
LEMMA LeastNat ==
  ASSUME NEW T \in SUBSET Nat, T # {}
  PROVE  \E n \in T : \A m \in T : n <= m
<1>1. PICK n \in T : \A m \in T : <<m, n>> \notin OpToRel(<, Nat)
  BY NatLessThanWellFounded, WFMin
<1>2. \A m \in T : ~(m < n)
  BY <1>1 DEF OpToRel
<1> QED
  BY <1>2


-----------------------------------------------------------------------------
(* The cache *)

LEMMA FirstEntryIs ==
  ASSUME stored.entries \in Seq(CacheEntry), NEW hits \in SUBSET (DOMAIN stored.entries)
  PROVE  /\ hits = {} => FirstEntry(hits) = <<>>
         /\ hits # {} => \E i \in hits : FirstEntry(hits) = <<stored.entries[i]>>
<1> DEFINE k == CHOOSE i \in hits : \A j \in hits : i <= j
<1>1. ASSUME hits # {} PROVE k \in hits
  <2>1. hits \in SUBSET Nat
    OBVIOUS
  <2>2. PICK x \in hits : \A y \in hits : x <= y
    BY <1>1, <2>1, LeastNat
  <2> QED
    BY <2>2
<1>2. FirstEntry(hits) = IF hits = {} THEN <<>> ELSE <<stored.entries[k]>>
  BY DEF FirstEntry
<1> HIDE DEF k
<1> QED
  BY <1>1, <1>2

\* What the cache serves: an entry for the same calls that is not stale, or the tape.
LEMMA LookupIs ==
  ASSUME SessionTypes, TapeInv, NEW turn \in Nat, NEW conv, NEW c \in ToSet(lookup(turn, conv))
  PROVE  /\ c.ans \in Answer /\ c.ok \in BOOLEAN
         /\ turn >= proxy.limit => \E i \in DOMAIN stored.entries :
               /\ c.ans = stored.entries[i].ans
               /\ CallsOf(stored.entries[i].conv) = CallsOf(conv)
               /\ ~ Stale(stored.entries[i])
<1>0. /\ stored.entries \in Seq(CacheEntry) /\ proxy.old \in Seq(TraceStep) /\ proxy.limit \in Nat
  BY DEF SessionTypes, OtherTypes, StoredTypes, ProxyTypes, ProxyRecord
<1>1. CASE proxy.old # <<>>
  <2>1. lookup(turn, conv) = IF turn < proxy.limit THEN <<proxy.old[turn + 1]>> ELSE <<>>
    BY <1>1 DEF lookup, forkLookup
  <2>2. turn < proxy.limit /\ c = proxy.old[turn + 1]
    BY <2>1 DEF ToSet
  <2>3. turn + 1 \in 1..Len(proxy.old)
    BY <1>0, <1>1, <2>2 DEF TapeInv
  <2>4. c \in TraceStep
    BY <1>0, <2>2, <2>3
  <2> QED
    BY <1>0, <2>2, <2>4 DEF TraceStep
<1>2. CASE proxy.old = <<>>
  <2> DEFINE e == stored.entries
             digest == {i \in DOMAIN e : e[i].conv = conv}
             same == {i \in digest : e[i].turn = turn}
             signature == {i \in DOMAIN e : /\ conv # <<>>
                                            /\ e[i].turn = turn
                                            /\ e[i].stamp # Unstamped
                                            /\ CallsOf(e[i].conv) = CallsOf(conv)}
             hits == IF same # {} THEN same ELSE IF digest # {} THEN digest ELSE signature
             found == Candidate(turn, conv)
  <2>1. found = FirstEntry(hits)
    BY DEF Candidate
  <2>2. /\ lookup(turn, conv) = IF found = <<>> THEN <<>>
                                ELSE IF Stale(found[1]) \/ EntriesRemoved(found[1]) THEN <<>>
                                ELSE <<[ans |-> found[1].ans, ok |-> TRUE]>>
    BY <1>2 DEF lookup
  <2>3. hits \in SUBSET (DOMAIN e) /\ \A i \in hits : CallsOf(e[i].conv) = CallsOf(conv)
    <3>1. digest \in SUBSET (DOMAIN e) /\ \A i \in digest : CallsOf(e[i].conv) = CallsOf(conv)
      BY DEF CallsOf
    <3>2. signature \in SUBSET (DOMAIN e) /\ \A i \in signature : CallsOf(e[i].conv) = CallsOf(conv)
      OBVIOUS
    <3>3. same \in SUBSET digest
      OBVIOUS
    <3> HIDE DEF digest, same, signature
    <3> QED
      BY <3>1, <3>2, <3>3
  <2> HIDE DEF hits, found
  <2>4. found # <<>> /\ ~ Stale(found[1]) /\ c = [ans |-> found[1].ans, ok |-> TRUE]
    BY <2>2 DEF ToSet
  <2>5. PICK i \in hits : found = <<e[i]>>
    BY <1>0, <2>1, <2>3, <2>4, FirstEntryIs
  <2>6. found[1] = e[i] /\ i \in DOMAIN e
    BY <2>3, <2>5
  <2>7. e[i] \in CacheEntry
    BY <1>0, <2>6
  <2>8. c.ans = e[i].ans /\ c.ok = TRUE /\ e[i].ans \in Answer
    BY <2>4, <2>6, <2>7 DEF CacheEntry
  <2> QED
    BY <2>3, <2>4, <2>6, <2>8
<1> QED
  BY <1>1, <1>2

\* What is not served is beyond the tape.
LEMMA MissIs ==
  ASSUME SessionTypes, TapeInv, NEW turn \in Nat, NEW conv, lookup(turn, conv) = <<>>
  PROVE  turn >= proxy.limit
<1>1. proxy.limit \in Nat
  BY DEF SessionTypes, OtherTypes, ProxyTypes, ProxyRecord
<1>2. CASE proxy.old # <<>>
  <2>1. lookup(turn, conv) = IF turn < proxy.limit THEN <<proxy.old[turn + 1]>> ELSE <<>>
    BY <1>2 DEF lookup, forkLookup
  <2> QED
    BY <1>1, <2>1
<1>3. CASE proxy.old = <<>>
  BY <1>1, <1>3 DEF TapeInv
<1> QED
  BY <1>2, <1>3

\* A turn is recorded: entries keep their answers, and a new one has the stamp of now.
LEMMA RecordTurnIs ==
  ASSUME SessionTypes, NEW turn \in Nat, NEW conv \in Conversation, NEW ans \in Answer
  PROVE  LET rec == recordTurn(turn, conv, ans)
         IN  /\ rec.observed \in BOOLEAN /\ rec.entries \in Seq(CacheEntry)
             /\ \A i \in DOMAIN rec.entries :
                  \/ i \in DOMAIN stored.entries /\ rec.entries[i] = stored.entries[i]
                  \/ /\ rec.entries[i].conv = conv /\ rec.entries[i].ans = ans
                     /\ extractFiles(conv) => rec.entries[i].stamp = file
<1> DEFINE e == stored.entries
           noted == proxy.observed \/ extractFiles(conv) \/ (ans.tool = "read")
           entry == [turn |-> turn, conv |-> conv, ans |-> ans,
                     stamp |-> IF noted THEN file ELSE Unstamped,
                     disc |-> {d.out : d \in {x \in ToSet(proxy.disc) : x.turn <= turn}}]
           at == {i \in DOMAIN e : e[i].turn = turn /\ e[i].conv = conv}
           k == CHOOSE i \in at : TRUE
           new == IF at = {} THEN Append(e, entry) ELSE [e EXCEPT ![k] = entry]
<1>1. recordTurn(turn, conv, ans) = [observed |-> noted, entries |-> new]
  BY DEF recordTurn
<1>2. e \in Seq(CacheEntry) /\ file \in FileContents /\ proxy.disc \in Seq(Listing)
      /\ proxy.observed \in BOOLEAN
  BY DEF SessionTypes, OtherTypes, StoredTypes, ProxyTypes, ProxyRecord
<1>3. {d.out : d \in {x \in ToSet(proxy.disc) : x.turn <= turn}} \in SUBSET Outputs
  <2>1. \A y \in ToSet(proxy.disc) : y \in Listing
    BY <1>2 DEF ToSet
  <2>2. \A y \in Listing : y.out \in Outputs
    BY DEF Listing
  <2> QED
    BY <2>1, <2>2
<1>4. noted \in BOOLEAN
  BY <1>2 DEF extractFiles
<1>6. entry \in CacheEntry /\ entry.conv = conv /\ entry.ans = ans /\ (extractFiles(conv) => entry.stamp = file)
  <2> DEFINE d == {y.out : y \in {x \in ToSet(proxy.disc) : x.turn <= turn}}
  <2> HIDE DEF d, noted
  <2>1. (IF noted THEN file ELSE Unstamped) \in FileContents \cup {Unstamped}
    BY <1>2
  <2>2. extractFiles(conv) => noted
    BY DEF noted
  <2>3. entry = [turn |-> turn, conv |-> conv, ans |-> ans, stamp |-> IF noted THEN file ELSE Unstamped, disc |-> d]
    BY DEF d
  <2>4. d \in SUBSET Outputs
    BY <1>3 DEF d
  <2> HIDE DEF entry
  <2> QED
    BY <2>1, <2>2, <2>3, <2>4 DEF CacheEntry
<1> HIDE DEF entry, noted
<1>7. CASE at = {}
  <2>1. new = Append(e, entry)
    BY <1>7
  <2>2. Append(e, entry) \in Seq(CacheEntry) /\ DOMAIN Append(e, entry) = 1..(Len(e) + 1)
        /\ Append(e, entry)[Len(e) + 1] = entry /\ \A i \in 1..Len(e) : Append(e, entry)[i] = e[i]
    BY <1>2, <1>6
  <2>3. \A i \in 1..(Len(e) + 1) : i = Len(e) + 1 \/ i \in 1..Len(e)
    BY <1>2
  <2>4. DOMAIN e = 1..Len(e)
    BY <1>2
  <2> HIDE DEF new
  <2> QED
    BY <1>1, <1>4, <1>6, <2>1, <2>2, <2>3, <2>4
<1>8. CASE at # {}
  <2>1. k \in DOMAIN e
    BY <1>8
  <2>2. new = [e EXCEPT ![k] = entry]
    BY <1>8
  <2> HIDE DEF k, at
  <2>3. new \in Seq(CacheEntry) /\ DOMAIN new = DOMAIN e
        /\ \A i \in DOMAIN e : new[i] = IF i = k THEN entry ELSE e[i]
    BY <1>2, <1>6, <2>1, <2>2
  <2> HIDE DEF new
  <2> QED
    BY <1>1, <1>4, <1>6, <2>3
<1> QED
  BY <1>7, <1>8

\* What a command read is stamped: an entry keeps its answer and its stamp, if it has one.
LEMMA RecordToolIs ==
  ASSUME SessionTypes, NEW x \in Execs
  PROVE  LET rec == recordToolExecution(exec[x])
         IN  /\ rec.observed \in BOOLEAN /\ rec.entries \in Seq(CacheEntry)
             /\ rec.disc \in Seq(Listing)
             /\ DOMAIN rec.entries = DOMAIN stored.entries
             /\ \A i \in DOMAIN stored.entries :
                  /\ rec.entries[i].conv = stored.entries[i].conv
                  /\ rec.entries[i].ans = stored.entries[i].ans
                  /\ stored.entries[i].stamp # Unstamped => rec.entries[i].stamp = stored.entries[i].stamp
<1> DEFINE e == stored.entries
           ex == exec[x]
           read == ex.tool = "read" /\ ex.out # NoRes
           listing == IF ex.out = NoRes THEN "empty" ELSE ex.out
           at == {i \in DOMAIN e : e[i].turn = ex.turn}
           first == CHOOSE i \in at : \A j \in at : i <= j
           touched(o) == [o EXCEPT !.stamp = IF read /\ @ = Unstamped THEN file ELSE @,
                                   !.disc = IF ex.tool = "ls" /\ @ = {} THEN {listing} ELSE @]
           disc == IF ex.tool = "ls" THEN Append(proxy.disc, [turn |-> ex.turn, out |-> listing]) ELSE proxy.disc
           new == IF at = {} THEN e ELSE [e EXCEPT ![first] = touched(@)]
<1>1. recordToolExecution(ex) = [observed |-> proxy.observed \/ read, disc |-> disc, entries |-> new]
  BY DEF recordToolExecution
<1>2. e \in Seq(CacheEntry) /\ file \in FileContents /\ proxy.disc \in Seq(Listing)
      /\ proxy.observed \in BOOLEAN
  BY DEF SessionTypes, OtherTypes, StoredTypes, ProxyTypes, ProxyRecord
<1>3. ex.turn \in Nat /\ ex.out \in Outputs
  BY DEF SessionTypes, ExecTypes, ExecRecord
<1>4. listing \in Outputs
  BY <1>3 DEF Outputs
<1> HIDE DEF listing
<1>5. disc \in Seq(Listing)
  <2>1. [turn |-> ex.turn, out |-> listing] \in Listing
    BY <1>3, <1>4 DEF Listing
  <2> QED
    BY <1>2, <2>1
<1>6. (proxy.observed \/ read) \in BOOLEAN
  BY <1>2
<1> HIDE DEF read, disc
<1>7. \A o \in CacheEntry : /\ touched(o) \in CacheEntry /\ touched(o).conv = o.conv /\ touched(o).ans = o.ans
                            /\ o.stamp # Unstamped => touched(o).stamp = o.stamp
  <2> SUFFICES ASSUME NEW o \in CacheEntry
               PROVE  /\ touched(o) \in CacheEntry /\ touched(o).conv = o.conv /\ touched(o).ans = o.ans
                      /\ o.stamp # Unstamped => touched(o).stamp = o.stamp
    OBVIOUS
  <2> DEFINE s == IF read /\ o.stamp = Unstamped THEN file ELSE o.stamp
             d == IF ex.tool = "ls" /\ o.disc = {} THEN {listing} ELSE o.disc
  <2>1. touched(o) = [o EXCEPT !.stamp = s, !.disc = d]
    OBVIOUS
  <2>2. s \in FileContents \cup {Unstamped} /\ d \in SUBSET Outputs /\ (o.stamp # Unstamped => s = o.stamp)
    BY <1>2, <1>4 DEF CacheEntry
  <2> HIDE DEF s, d, touched
  <2> QED
    BY <2>1, <2>2 DEF CacheEntry
<1> HIDE DEF touched
<1>8. CASE at = {}
  <2>1. new = e
    BY <1>8
  <2> HIDE DEF new
  <2> QED
    BY <1>1, <1>2, <1>5, <1>6, <2>1
<1>9. CASE at # {}
  <2>1. first \in DOMAIN e
    <3>1. at \in SUBSET Nat
      BY <1>2
    <3>2. PICK y \in at : \A z \in at : y <= z
      BY <1>9, <3>1, LeastNat
    <3> QED
      BY <3>2
  <2>2. new = [e EXCEPT ![first] = touched(e[first])]
    BY <1>9
  <2> HIDE DEF first, at
  <2>3. new \in Seq(CacheEntry) /\ DOMAIN new = DOMAIN e
        /\ \A i \in DOMAIN e : new[i] = IF i = first THEN touched(e[first]) ELSE e[i]
    BY <1>2, <1>7, <2>1, <2>2
  <2>4. \A i \in DOMAIN e : e[i] \in CacheEntry
    BY <1>2
  <2> HIDE DEF new
  <2> QED
    BY <1>1, <1>2, <1>5, <1>6, <1>7, <2>3, <2>4
<1> QED
  BY <1>8, <1>9

-----------------------------------------------------------------------------
(* The account *)

\* A conversation stays one, and the call that was interrupted is in it with an account.
LEMMA InjectedIs ==
  ASSUME NEW conv \in Conversation, NEW id \in Int
  PROVE  /\ Injected(conv, id) \in Conversation
         /\ id # NoCall => \E i \in DOMAIN Injected(conv, id) :
                              Injected(conv, id)[i].acc /\ Injected(conv, id)[i].id = id
<1> DEFINE C == [id : Int, tool : Tools \cup {"text"}, res : Results, acc : BOOLEAN]
           at == {i \in DOMAIN conv : conv[i].id = id}
           item == [id |-> id, tool |-> "read", res |-> "account", acc |-> TRUE]
           p == IF conv = <<>> THEN 1 ELSE Len(conv)
           told(o) == [o EXCEPT !.res = IF @ = NoRes THEN "account" ELSE @, !.acc = TRUE]
           all == [i \in DOMAIN conv |-> IF i \notin at THEN conv[i] ELSE told(conv[i])]
<1>0. conv \in Seq(C) /\ Conversation = Seq(C)
  BY DEF Conversation
<1>1. item \in C /\ item.acc /\ item.id = id
  BY DEF Tools, Results
<1>2. \A o \in C : told(o) \in C /\ told(o).acc /\ told(o).id = o.id
  BY DEF Results
<1>3. Injected(conv, id) = IF id = NoCall THEN conv
                           ELSE IF at = {} THEN InsertAt(conv, p, item) ELSE all
  BY DEF Injected
<1> HIDE DEF C, item, told
<1>4. CASE id = NoCall
  BY <1>0, <1>3, <1>4
<1>5. CASE id # NoCall /\ at = {}
  <2>1. Len(conv) \in Nat /\ p \in 1..(Len(conv) + 1)
    BY <1>0
  <2> DEFINE a == SubSeq(conv, 1, p - 1)
             b == SubSeq(conv, p, Len(conv))
             whole == (a \o <<item>>) \o b
  <2>2. InsertAt(conv, p, item) = whole
    BY DEF InsertAt
  <2> HIDE DEF p
  <2>3. a \in Seq(C) /\ Len(a) = p - 1 /\ b \in Seq(C)
    BY <1>0, <2>1
  <2> HIDE DEF a, b
  <2>4. (a \o <<item>>) \in Seq(C) /\ Len(a \o <<item>>) = p /\ (a \o <<item>>)[p] = item
    BY <1>1, <2>1, <2>3
  <2> DEFINE ai == a \o <<item>>
  <2> HIDE DEF ai
  <2>5. ai \o b \in Seq(C) /\ (ai \o b)[p] = item /\ p \in DOMAIN (ai \o b)
    BY <2>1, <2>3, <2>4 DEF ai
  <2> QED
    BY <1>0, <1>1, <1>3, <1>5, <2>2, <2>5 DEF ai
<1>6. CASE id # NoCall /\ at # {}
  <2>1. all \in Seq(C) /\ DOMAIN all = DOMAIN conv
    BY <1>0, <1>2
  <2>2. PICK i \in at : TRUE
    BY <1>6
  <2>3. i \in DOMAIN conv /\ conv[i].id = id /\ conv[i] \in C /\ all[i] = told(conv[i])
    BY <1>0, <2>2
  <2> HIDE DEF all, at
  <2> QED
    BY <1>0, <1>2, <1>3, <1>6, <2>1, <2>3
<1> QED
  BY <1>4, <1>5, <1>6

\* Marking the record does not change what it says.
LEMMA MarkedIs ==
  ASSUME StoredTypes
  PROVE  /\ readGatewayInterruptedTool(MarkedRecord(stored)) = readGatewayInterruptedTool(stored)
         /\ MarkedRecord(stored) \in [inFlight : Int, interrupted : Int, entries : {stored.entries}, trace : {stored.trace}]
BY DEF StoredTypes, readGatewayInterruptedTool, MarkedRecord, NoCall

\* What is written is what is read.
LEMMA WrittenIs ==
  ASSUME StoredTypes, NEW id \in Int
  PROVE  /\ readGatewayInterruptedTool(writeGatewayInFlightTool(stored, id)) = id
         /\ writeGatewayInFlightTool(stored, id)
              \in [inFlight : {id}, interrupted : {NoCall}, entries : {stored.entries}, trace : {stored.trace}]
<1> DEFINE w == writeGatewayInFlightTool(stored, id)
<1>1. w \in [inFlight : {id}, interrupted : {NoCall}, entries : {stored.entries}, trace : {stored.trace}]
  BY DEF StoredTypes, writeGatewayInFlightTool
<1> HIDE DEF w
<1>2. w.inFlight = id /\ w.interrupted = NoCall
  BY <1>1
<1>3. readGatewayInterruptedTool(w) = id
  BY <1>2 DEF readGatewayInterruptedTool
<1> QED
  BY <1>1, <1>3 DEF w

\* Who is still sure of the record after a write.
LEMMA OthersWriteIs ==
  ASSUME ExecTypes, NEW id, NEW but
  PROVE  LET o == OthersWrite(id, but)
         IN  /\ o \in [Execs -> ExecRecord]
             /\ \A x \in Execs : /\ o[x].pc = exec[x].pc /\ o[x].id = exec[x].id /\ o[x].rec = exec[x].rec
                                 /\ o[x].alone <=> exec[x].alone /\ (x = but \/ exec[x].id = id)
<1> DEFINE o == OthersWrite(id, but)
<1>1. exec \in [Execs -> ExecRecord]
  BY DEF ExecTypes
<1>2. ASSUME NEW x \in Execs
      PROVE  /\ o[x] \in ExecRecord /\ o[x].pc = exec[x].pc /\ o[x].id = exec[x].id /\ o[x].rec = exec[x].rec
             /\ o[x].alone <=> exec[x].alone /\ (x = but \/ exec[x].id = id)
  <2> DEFINE v == exec[x].alone /\ (x = but \/ exec[x].id = id)
  <2>1. o[x] = [exec[x] EXCEPT !.alone = v]
    BY DEF OthersWrite
  <2>2. exec[x] \in ExecRecord /\ v \in BOOLEAN
    BY <1>1 DEF ExecRecord
  <2> HIDE DEF v
  <2> QED
    BY <2>1, <2>2 DEF v, ExecRecord
<1>3. o \in [Execs -> ExecRecord]
  <2>1. o = [x \in Execs |-> [exec[x] EXCEPT !.alone = exec[x].alone /\ (x = but \/ exec[x].id = id)]]
    BY DEF OthersWrite
  <2> QED
    BY <1>2, <2>1
<1> QED
  BY <1>2, <1>3

\* Cancelling changes nothing but where a command is.
LEMMA CancelledIs ==
  ASSUME ExecTypes
  PROVE  /\ Cancelled \in [Execs -> ExecRecord]
         /\ \A x \in Execs : /\ Cancelled[x].id = exec[x].id /\ Cancelled[x].rec = exec[x].rec
                             /\ Cancelled[x].alone = exec[x].alone
                             /\ Cancelled[x].pc = "free" <=> exec[x].pc = "free"
<1>1. exec \in [Execs -> ExecRecord]
  BY DEF ExecTypes
<1>2. ASSUME NEW x \in Execs
      PROVE  /\ Cancelled[x] \in ExecRecord /\ Cancelled[x].id = exec[x].id /\ Cancelled[x].rec = exec[x].rec
             /\ Cancelled[x].alone = exec[x].alone /\ (Cancelled[x].pc = "free" <=> exec[x].pc = "free")
  <2>1. Cancelled[x] = IF exec[x].pc = "run" THEN [exec[x] EXCEPT !.pc = "stopping"] ELSE exec[x]
    BY DEF Cancelled
  <2> QED
    BY <1>1, <2>1 DEF ExecRecord
<1>3. Cancelled \in [Execs -> ExecRecord]
  BY <1>2 DEF Cancelled
<1> QED
  BY <1>2, <1>3

\* What is empty has its type.
LEMMA EmptyTypes ==
  /\ FreeReq \in ReqRecord /\ FreeExec \in ExecRecord /\ <<>> \in Conversation
  /\ \A end \in {"hit", "failed", "over"} : Ended(end) \in ReqRecord
  /\ EmptyProxy.turnOf \in TurnMaps
<1>1. <<>> \in Conversation
  BY DEF Conversation
<1>2. FreeReq \in ReqRecord
  BY <1>1 DEF FreeReq, ReqRecord
<1>3. FreeExec \in ExecRecord
  BY DEF FreeExec, ExecRecord, NoCall, Tools, Outputs
<1>4. \A end \in {"hit", "failed", "over"} : Ended(end) \in ReqRecord
  BY <1>1 DEF Ended, FreeReq, ReqRecord
<1>5. EmptyProxy.turnOf \in TurnMaps
  <2>1. EmptyProxy.turnOf = [c \in {} |-> 0]
    BY DEF EmptyProxy
  <2>2. [c \in {} |-> 0] \in [{} -> Nat] /\ {} \in SUBSET Conversation
    OBVIOUS
  <2> QED
    BY <2>1, <2>2 DEF TurnMaps
<1> QED
  BY <1>1, <1>2, <1>3, <1>4, <1>5

\* A proxy without memory.
LEMMA EmptyProxyIs ==
  EmptyProxy \in ProxyRecord /\ EmptyProxy.old = <<>> /\ EmptyProxy.limit = 0
<1> DEFINE m == EmptyProxy.turnOf
<1>1. <<>> \in Seq(Listing) /\ <<>> \in Seq(TraceStep) /\ m \in TurnMaps
  BY EmptyTypes
<1>2. EmptyProxy = [turnOf |-> m, cursor |-> 0, active |-> 0, pending |-> 0,
                    observed |-> FALSE, disc |-> <<>>, turns |-> <<>>, limit |-> 0, old |-> <<>>]
  BY DEF EmptyProxy, NoCall
<1> HIDE DEF m
<1>3. \A d \in Seq(Listing), t \in Seq(TraceStep), b \in BOOLEAN, k \in TurnMaps, z \in Nat :
         [turnOf |-> k, cursor |-> z, active |-> z, pending |-> z,
          observed |-> b, disc |-> d, turns |-> t, limit |-> z, old |-> t] \in ProxyRecord
  BY DEF ProxyRecord
<1>4. [turnOf |-> m, cursor |-> 0, active |-> 0, pending |-> 0, observed |-> FALSE,
       disc |-> <<>>, turns |-> <<>>, limit |-> 0, old |-> <<>>] \in ProxyRecord
  BY <1>1, <1>3, Zenon
<1>5. EmptyProxy \in ProxyRecord
  BY <1>2, <1>4, Zenon
<1> QED
  BY <1>5 DEF EmptyProxy

\* The harness moves on.
LEMMA HarnessMoves ==
  ASSUME HarnessTypes, NEW p \in {"off", "idle", "wait", "call", "tool", "done"}
  PROVE  /\ \A r \in Nat : [harness EXCEPT !.ph = p, !.req = r] \in HarnessRecord
         /\ \A e \in Nat : [harness EXCEPT !.ph = p, !.exec = e] \in HarnessRecord
         /\ \A r, e \in Nat : [harness EXCEPT !.ph = p, !.req = r, !.exec = e] \in HarnessRecord
         /\ \A a \in Answer \cup {NoAnswer} : [harness EXCEPT !.ph = p, !.ans = a] \in HarnessRecord
         /\ \A r \in Nat, a \in Answer \cup {NoAnswer} :
               [harness EXCEPT !.ph = p, !.req = r, !.ans = a] \in HarnessRecord
         /\ \A e \in Nat, a \in Answer \cup {NoAnswer}, c \in Conversation :
               [harness EXCEPT !.ph = p, !.exec = e, !.ans = a, !.conv = c] \in HarnessRecord
<1> QED
  BY DEF HarnessTypes, HarnessRecord

\* A tool's result leaves the harness idle, or where it was.
LEMMA ToolResultIs ==
  ASSUME SessionTypes, NEW x \in Execs, NEW res \in Results
  PROVE  LET h == ToolResult(x, res)
         IN  h \in HarnessRecord /\ (h = harness \/ h.ph = "idle")
<1> DEFINE h == ToolResult(x, res)
           C == [id : Int, tool : Tools \cup {"text"}, res : Results, acc : BOOLEAN]
           item == [id |-> exec[x].id, tool |-> exec[x].tool,
                    res |-> IF res = NoRes THEN "cut" ELSE res, acc |-> FALSE]
           longer == Append(harness.conv, item)
<1>1. HarnessTypes /\ exec[x] \in ExecRecord
  BY DEF SessionTypes, ExecTypes
<1>2. longer \in Conversation
  <2>1. item \in C
    BY <1>1 DEF ExecRecord, Results
  <2> HIDE DEF item
  <2>2. harness.conv \in Seq(C)
    BY <1>1 DEF HarnessTypes, HarnessRecord, Conversation
  <2> QED
    BY <2>1, <2>2 DEF Conversation
<1>3. h = IF ~exec[x].client THEN harness
          ELSE IF exec[x].id = OwnCommand THEN [harness EXCEPT !.ph = "idle", !.exec = 0]
          ELSE [harness EXCEPT !.ph = "idle", !.exec = 0, !.ans = NoAnswer, !.conv = longer]
  BY DEF ToolResult
<1> HIDE DEF longer, h
<1>4. /\ [harness EXCEPT !.ph = "idle", !.exec = 0] \in HarnessRecord
      /\ [harness EXCEPT !.ph = "idle", !.exec = 0, !.ans = NoAnswer, !.conv = longer] \in HarnessRecord
  BY <1>1, <1>2, HarnessMoves
<1>5. CASE ~exec[x].client
  BY <1>1, <1>3, <1>5 DEF HarnessTypes, h
<1>6. CASE exec[x].client /\ exec[x].id = OwnCommand
  <2>1. h = [harness EXCEPT !.ph = "idle", !.exec = 0]
    BY <1>3, <1>6
  <2>2. h.ph = "idle"
    BY <1>1, <2>1 DEF HarnessTypes, HarnessRecord
  <2> QED
    BY <1>4, <2>1, <2>2 DEF h
<1>7. CASE exec[x].client /\ exec[x].id # OwnCommand
  <2>1. h = [harness EXCEPT !.ph = "idle", !.exec = 0, !.ans = NoAnswer, !.conv = longer]
    BY <1>3, <1>7
  <2>2. h.ph = "idle"
    BY <1>1, <2>1 DEF HarnessTypes, HarnessRecord
  <2> QED
    BY <1>4, <2>1, <2>2 DEF h
<1> QED
  BY <1>5, <1>6, <1>7

\* The turn a command is counted to.
LEMMA CurrentTurnIs ==
  ASSUME ProxyTypes
  PROVE  CurrentTurn \in Nat
<1>1. proxy.turns \in Seq(TraceStep)
  BY DEF ProxyTypes, ProxyRecord
<1>2. ASSUME proxy.turns # <<>> PROVE Last(proxy.turns).turn \in Nat
  <2>1. Len(proxy.turns) \in 1..Len(proxy.turns)
    BY <1>1, <1>2
  <2>2. Last(proxy.turns) \in TraceStep
    BY <1>1, <2>1 DEF Last
  <2> QED
    BY <2>2 DEF TraceStep
<1> QED
  BY <1>2 DEF CurrentTurn

\* What the harness makes of an answer.
LEMMA ReceivesIs ==
  ASSUME SessionTypes, NEW r \in Requests, NEW ans \in Answer, NEW ok, Receives(r, ans, ok)
  PROVE  /\ HarnessTypes'
         /\ \/ harness' = harness
            \/ harness'.ph \in {"idle", "done"}
            \/ harness'.ph = "call" /\ harness'.ans \in Answer
<1>1. \/ harness' = harness
      \/ harness' = [harness EXCEPT !.ph = "idle", !.req = 0]
      \/ harness' = [harness EXCEPT !.ph = "done", !.req = 0]
      \/ harness' = [harness EXCEPT !.ph = "call", !.req = 0, !.ans = ans]
  BY DEF Receives
<1>2. HarnessTypes
  BY DEF SessionTypes
<1>3. HarnessTypes'
  <2>1. [harness EXCEPT !.ph = "idle", !.req = 0] \in HarnessRecord
    BY <1>2, HarnessMoves
  <2>2. [harness EXCEPT !.ph = "done", !.req = 0] \in HarnessRecord
    BY <1>2, HarnessMoves
  <2>3. [harness EXCEPT !.ph = "call", !.req = 0, !.ans = ans] \in HarnessRecord
    BY <1>2, HarnessMoves
  <2> QED
    BY <1>1, <1>2, <2>1, <2>2, <2>3 DEF HarnessTypes
<1>4. \/ harness' = harness
      \/ harness'.ph \in {"idle", "done"}
      \/ harness'.ph = "call" /\ harness'.ans \in Answer
  BY <1>1, <1>2 DEF HarnessTypes, HarnessRecord
<1> QED
  BY <1>3, <1>4

-----------------------------------------------------------------------------
(* Every step keeps the invariant *)

\* A crash: what ran and was sure of its record is owed from now on.
LEMMA HostCrashesKeeps ==
  ASSUME SessionInv, HostCrashes
  PROVE  SessionInv'
<1> USE DEF SessionInv, SessionTypes
<1>1. ReqTypes'
  BY EmptyTypes DEF HostCrashes, ReqTypes
<1>2. ExecTypes'
  BY EmptyTypes DEF HostCrashes, ExecTypes
<1>3. HarnessTypes'
  BY HarnessMoves DEF HostCrashes, HarnessTypes
<1>4. ProxyTypes'
  BY EmptyProxyIs DEF HostCrashes, ProxyTypes
<1>5. StoredTypes'
  BY DEF HostCrashes, StoredTypes
<1>6. OtherTypes'
  BY DEF HostCrashes, OtherTypes, Trouble, Count
<1>7. PhaseInv'
  BY DEF HostCrashes, PhaseInv, FreeReq, FreeExec, EmptyProxy
<1>8. TapeInv'
  BY DEF HostCrashes, TapeInv, FreeReq, EmptyProxy
<1>9. RecordInv'
  BY DEF HostCrashes, RecordInv, FreeExec
<1>10. OwedInv'
  BY DEF HostCrashes, OwedInv, PhaseInv, ReqTypes, ReqRecord, RecordInv, OtherTypes, FreeReq,
     FreeExec, EmptyProxy, readGatewayInterruptedTool, NoCall
<1>11. CacheInv'
  BY DEF HostCrashes, CacheInv
<1> QED
  BY <1>1, <1>2, <1>3, <1>4, <1>5, <1>6, <1>7, <1>8, <1>9, <1>10, <1>11

\* The watchdog's mark changes nothing that is read.
LEMMA MarkInterruptedIfNeededKeeps ==
  ASSUME SessionInv, markInterruptedIfNeeded
  PROVE  SessionInv'
<1> USE DEF SessionInv, SessionTypes
<1>1. ReqTypes'
  BY DEF markInterruptedIfNeeded, ReqTypes
<1>2. ExecTypes'
  BY DEF markInterruptedIfNeeded, ExecTypes
<1>3. HarnessTypes'
  BY DEF markInterruptedIfNeeded, HarnessTypes
<1>4. ProxyTypes'
  BY DEF markInterruptedIfNeeded, ProxyTypes
<1>5. StoredTypes'
  BY MarkedIs DEF markInterruptedIfNeeded, StoredTypes
<1>6. OtherTypes'
  BY DEF markInterruptedIfNeeded, OtherTypes
<1>7. PhaseInv'
  BY DEF markInterruptedIfNeeded, PhaseInv
<1>8. TapeInv'
  BY DEF markInterruptedIfNeeded, TapeInv
<1>9. RecordInv'
  BY MarkedIs DEF markInterruptedIfNeeded, RecordInv
<1>10. OwedInv'
  BY MarkedIs DEF markInterruptedIfNeeded, OwedInv
<1>11. CacheInv'
  <2>1. stored'.entries = stored.entries /\ UNCHANGED answers
    BY MarkedIs DEF markInterruptedIfNeeded
  <2> QED
    BY <2>1 DEF CacheInv
<1> QED
  BY <1>1, <1>2, <1>3, <1>4, <1>5, <1>6, <1>7, <1>8, <1>9, <1>10, <1>11

\* After a clean exit nothing is owed.
LEMMA CleanExitKeeps ==
  ASSUME SessionInv, CleanExit
  PROVE  SessionInv'
<1> USE DEF SessionInv, SessionTypes
<1>1. ReqTypes'
  BY EmptyTypes DEF CleanExit, Exits, ReqTypes
<1>2. ExecTypes'
  BY EmptyTypes DEF CleanExit, Exits, ExecTypes
<1>3. HarnessTypes'
  BY HarnessMoves DEF CleanExit, Exits, HarnessTypes
<1>4. ProxyTypes'
  BY EmptyProxyIs DEF CleanExit, Exits, ProxyTypes
<1>5. StoredTypes'
  <2>1. stored' \in [inFlight : {NoCall}, interrupted : {NoCall}, entries : {stored.entries}, trace : {stored.trace}]
    BY WrittenIs DEF CleanExit, Exits, NoCall
  <2> QED
    BY <2>1 DEF StoredTypes, NoCall
<1>6. OtherTypes'
  BY GatewayAssumption DEF CleanExit, OtherTypes, Exits, Trouble, TroubleIf, Count, FreeReq,
     FreeExec, EmptyProxy
<1>7. PhaseInv'
  BY DEF CleanExit, PhaseInv, Exits, FreeReq, FreeExec, EmptyProxy
<1>8. TapeInv'
  BY DEF CleanExit, TapeInv, Exits, FreeReq, EmptyProxy
<1>9. RecordInv'
  BY DEF CleanExit, RecordInv, Exits, FreeExec
<1>10. OwedInv'
  BY DEF CleanExit, OwedInv, Exits, FreeReq, FreeExec, EmptyProxy
<1>11. CacheInv'
  <2>1. stored'.entries = stored.entries /\ UNCHANGED answers
    BY DEF CleanExit, Exits, writeGatewayInFlightTool, StoredTypes
  <2> QED
    BY <2>1 DEF CacheInv
<1> QED
  BY <1>1, <1>2, <1>3, <1>4, <1>5, <1>6, <1>7, <1>8, <1>9, <1>10, <1>11

\* A request is sent.
LEMMA SendKeeps ==
  ASSUME SessionInv, Send
  PROVE  SessionInv'
<1> USE DEF SessionInv, SessionTypes
<1>1. ReqTypes'
  BY DEF Send, ReqTypes, ReqRecord, HarnessTypes, HarnessRecord, FreeReq, NoAnswer, NoCall
<1>2. ExecTypes'
  BY DEF Send, ExecTypes
<1>3. HarnessTypes'
  <2>1. used.requests + 1 \in Nat /\ NoAnswer \in Answer \cup {NoAnswer}
    BY DEF OtherTypes
  <2> QED
    BY <2>1, HarnessMoves DEF Send, HarnessTypes
<1>4. ProxyTypes'
  BY DEF Send, ProxyTypes
<1>5. StoredTypes'
  BY DEF Send, StoredTypes
<1>6. OtherTypes'
  BY DEF Send, OtherTypes
<1>7. PhaseInv'
  BY DEF Send, PhaseInv, FreeReq
<1>8. TapeInv'
  BY DEF Send, TapeInv, FreeReq
<1>9. RecordInv'
  BY DEF Send, RecordInv
<1>10. OwedInv'
  BY DEF Send, OwedInv, FreeReq
<1>11. CacheInv'
  BY DEF Send, CacheInv
<1> QED
  BY <1>1, <1>2, <1>3, <1>4, <1>5, <1>6, <1>7, <1>8, <1>9, <1>10, <1>11

\* The harness closes the connection.
LEMMA GiveUpRequestKeeps ==
  ASSUME SessionInv, GiveUpRequest
  PROVE  SessionInv'
<1> USE DEF SessionInv, SessionTypes
<1>1. ReqTypes'
  BY DEF GiveUpRequest, ReqTypes, ReqRecord
<1>2. ExecTypes'
  BY DEF GiveUpRequest, ExecTypes
<1>3. HarnessTypes'
  BY HarnessMoves DEF GiveUpRequest, HarnessTypes
<1>4. ProxyTypes'
  BY DEF GiveUpRequest, ProxyTypes
<1>5. StoredTypes'
  BY DEF GiveUpRequest, StoredTypes
<1>6. OtherTypes'
  BY DEF GiveUpRequest, OtherTypes, Trouble, Count
<1>7. PhaseInv'
  BY DEF GiveUpRequest, PhaseInv
<1>8. TapeInv'
  BY DEF GiveUpRequest, TapeInv
<1>9. RecordInv'
  BY DEF GiveUpRequest, RecordInv
<1>10. OwedInv'
  BY DEF GiveUpRequest, OwedInv
<1>11. CacheInv'
  BY DEF GiveUpRequest, CacheInv
<1> QED
  BY <1>1, <1>2, <1>3, <1>4, <1>5, <1>6, <1>7, <1>8, <1>9, <1>10, <1>11

\* A command writes the record, whatever was in it.
LEMMA OnShellExecKeeps ==
  ASSUME SessionInv, onShellExec
  PROVE  SessionInv'
<1> USE DEF SessionInv, SessionTypes
<1>1. ReqTypes'
  BY DEF onShellExec, ReqTypes
<1>2. ExecTypes'
  <2> DEFINE x == used.execs + 1
             rec == IF proxy.active = NoCall THEN OwnCommand ELSE proxy.active
             own == harness.ph = "idle"
             new == [FreeExec EXCEPT !.pc = "run", !.client = TRUE, !.alone = TRUE,
                       !.id = IF own THEN OwnCommand ELSE harness.ans.id,
                       !.tool = IF own THEN "ls" ELSE harness.ans.tool,
                       !.rec = rec, !.turn = CurrentTurn]
             id == IF own THEN OwnCommand ELSE harness.ans.id
             tool == IF own THEN "ls" ELSE harness.ans.tool
  <2>1. rec \in Int
    BY DEF ProxyTypes, ProxyRecord, OwnCommand
  <2>2. id \in Int /\ tool \in Tools \cup {"text"}
    BY DEF onShellExec, PhaseInv, Answer, OwnCommand, Tools
  <2>3. CurrentTurn \in Nat
    BY CurrentTurnIs
  <2>4. new = [FreeExec EXCEPT !.pc = "run", !.client = TRUE, !.alone = TRUE,
                 !.id = id, !.tool = tool, !.rec = rec, !.turn = CurrentTurn]
    OBVIOUS
  <2> HIDE DEF id, tool, rec
  <2>5. new \in ExecRecord
    BY <2>1, <2>2, <2>3, <2>4, EmptyTypes DEF ExecRecord
  <2>6. exec' = [OthersWrite(rec, 0) EXCEPT ![x] = new]
    BY DEF onShellExec, rec
  <2> HIDE DEF new, x
  <2> QED
    BY <2>5, <2>6, OthersWriteIs DEF ExecTypes
<1>3. HarnessTypes'
  <2>1. used.execs + 1 \in Nat
    BY DEF OtherTypes
  <2> QED
    BY <2>1, HarnessMoves DEF onShellExec, HarnessTypes
<1>4. ProxyTypes'
  BY DEF onShellExec, ProxyTypes
<1>5. StoredTypes'
  <2> DEFINE rec == IF proxy.active = NoCall THEN OwnCommand ELSE proxy.active
  <2>1. rec \in Int
    BY DEF ProxyTypes, ProxyRecord, OwnCommand
  <2>2. stored' = writeGatewayInFlightTool(stored, rec)
    BY DEF onShellExec
  <2> HIDE DEF rec
  <2>3. stored' \in [inFlight : {rec}, interrupted : {NoCall}, entries : {stored.entries}, trace : {stored.trace}]
    BY <2>1, <2>2, WrittenIs
  <2> QED
    BY <2>1, <2>3 DEF StoredTypes, NoCall
<1>6. OtherTypes'
  <2>1. \A b \in BOOLEAN : Count(b) \in Nat
    BY DEF Count, OtherTypes
  <2>2. used' = [used EXCEPT !.execs = used.execs + 1, !.troubles = Count(harness.ph = "idle")]
    BY DEF onShellExec
  <2>3. \A n, c \in Nat : [used EXCEPT !.execs = n, !.troubles = c]
                      \in [requests : Nat, answers : Nat, execs : Nat, troubles : Nat, launches : Nat]
    BY DEF OtherTypes
  <2>4. UNCHANGED <<file, host>> /\ rewritten' = TRUE /\ used.execs + 1 \in Nat
    BY DEF onShellExec, OtherTypes
  <2> QED
    BY <2>1, <2>2, <2>3, <2>4 DEF OtherTypes
<1>7. PhaseInv'
  BY DEF onShellExec, PhaseInv
<1>8. TapeInv'
  BY DEF onShellExec, TapeInv
<1>9. RecordInv'
  <2> DEFINE n == used.execs + 1
             rec == IF proxy.active = NoCall THEN OwnCommand ELSE proxy.active
             own == harness.ph = "idle"
             new == [FreeExec EXCEPT !.pc = "run", !.client = TRUE, !.alone = TRUE,
                       !.id = IF own THEN OwnCommand ELSE harness.ans.id,
                       !.tool = IF own THEN "ls" ELSE harness.ans.tool,
                       !.rec = rec, !.turn = CurrentTurn]
  <2>1. rec \in Int /\ rec # NoCall
    BY DEF ProxyTypes, ProxyRecord, OwnCommand, NoCall
  <2>2. readGatewayInterruptedTool(stored') = rec
    BY <2>1, WrittenIs DEF onShellExec
  <2>3. new.id # NoCall /\ new.rec = rec
    BY DEF onShellExec, PhaseInv, Answer, OwnCommand, NoCall, FreeExec
  <2>4. exec' = [OthersWrite(rec, 0) EXCEPT ![n] = new] /\ rewritten' = TRUE
    BY DEF onShellExec
  <2> HIDE DEF new, rec, n
  <2>5. ASSUME NEW y \in Execs, y = n, exec'[y].pc # "free"
        PROVE  exec'[y].id # NoCall /\ exec'[y].rec = rec
    BY <2>3, <2>4, <2>5, OthersWriteIs DEF ExecTypes
  <2>6. ASSUME NEW y \in Execs, y # n
        PROVE  exec'[y] = OthersWrite(rec, 0)[y]
    BY <2>4, <2>6, OthersWriteIs
  <2>7. ASSUME NEW y \in Execs, exec'[y].pc # "free"
        PROVE  /\ exec'[y].id # NoCall /\ exec'[y].rec # NoCall
               /\ exec'[y].alone => rec \in {exec'[y].id, exec'[y].rec}
    <3>1. CASE y = n
      BY <2>1, <2>5, <2>7, <3>1
    <3>2. CASE y # n
      <4>1. /\ exec'[y].pc = exec[y].pc /\ exec'[y].id = exec[y].id /\ exec'[y].rec = exec[y].rec
            /\ exec'[y].alone => exec[y].id = rec
        <5>1. 0 # y
          BY GatewayAssumption DEF Execs
        <5> QED
          BY <2>6, <3>2, <5>1, OthersWriteIs
      <4> QED
        BY <2>7, <4>1 DEF RecordInv
    <3> QED
      BY <3>1, <3>2
  <2> QED
    BY <2>2, <2>4, <2>7 DEF RecordInv
<1>10. OwedInv'
  BY DEF onShellExec, OwedInv, PhaseInv, ReqTypes, ReqRecord, OtherTypes,
     readGatewayInterruptedTool, NoCall
<1>11. CacheInv'
  <2> DEFINE rec == IF proxy.active = NoCall THEN OwnCommand ELSE proxy.active
  <2>1. rec \in Int
    BY DEF ProxyTypes, ProxyRecord, OwnCommand
  <2>2. stored' = writeGatewayInFlightTool(stored, rec)
    BY DEF onShellExec
  <2> HIDE DEF rec
  <2>3. stored' \in [inFlight : {rec}, interrupted : {NoCall}, entries : {stored.entries}, trace : {stored.trace}]
    BY <2>1, <2>2, WrittenIs
  <2>4. stored'.entries = stored.entries /\ UNCHANGED answers
    BY <2>3 DEF onShellExec
  <2> QED
    BY <2>4 DEF CacheInv
<1> QED
  BY <1>1, <1>2, <1>3, <1>4, <1>5, <1>6, <1>7, <1>8, <1>9, <1>10, <1>11

\* The harness gives a tool up; its handler is still there.
LEMMA GiveUpToolKeeps ==
  ASSUME SessionInv, GiveUpTool
  PROVE  SessionInv'
<1> USE DEF SessionInv, SessionTypes
<1>1. ReqTypes'
  BY DEF GiveUpTool, ReqTypes
<1>2. ExecTypes'
  <2>1. exec' = [Cancelled EXCEPT ![harness.exec].client = FALSE]
    BY DEF GiveUpTool
  <2>2. \A e \in ExecRecord : [e EXCEPT !.client = FALSE] \in ExecRecord
    BY DEF ExecRecord
  <2> QED
    BY <2>1, <2>2, CancelledIs DEF ExecTypes
<1>3. HarnessTypes'
  <2>1. harness.exec \in Execs /\ "timeout" \in Results
    BY DEF GiveUpTool, PhaseInv, Results
  <2> QED
    BY <2>1, ToolResultIs DEF GiveUpTool, HarnessTypes
<1>4. ProxyTypes'
  BY DEF GiveUpTool, ProxyTypes
<1>5. StoredTypes'
  BY DEF GiveUpTool, StoredTypes
<1>6. OtherTypes'
  BY DEF GiveUpTool, OtherTypes, Trouble, Count, ToolResult, Cancelled
<1>7. PhaseInv'
  <2>1. harness.exec \in Execs /\ "timeout" \in Results /\ harness.ph = "tool" /\ host = "up"
    BY DEF GiveUpTool, PhaseInv, Results, OtherTypes
  <2>2. harness' = harness \/ harness'.ph = "idle"
    BY <2>1, ToolResultIs DEF GiveUpTool
  <2> QED
    BY <2>1, <2>2 DEF GiveUpTool, PhaseInv
<1>8. TapeInv'
  BY DEF GiveUpTool, TapeInv
<1>9. RecordInv'
  <2>1. exec' = [Cancelled EXCEPT ![harness.exec].client = FALSE] /\ UNCHANGED <<stored, rewritten>>
    BY DEF GiveUpTool
  <2>2. \A y \in Execs : /\ exec'[y].id = exec[y].id /\ exec'[y].rec = exec[y].rec /\ exec'[y].alone = exec[y].alone
                         /\ exec'[y].pc = "free" <=> exec[y].pc = "free"
    BY <2>1, CancelledIs DEF ExecRecord
  <2> QED
    BY <2>1, <2>2 DEF RecordInv
<1>10. OwedInv'
  BY DEF GiveUpTool, OwedInv
<1>11. CacheInv'
  BY DEF GiveUpTool, CacheInv
<1> QED
  BY <1>1, <1>2, <1>3, <1>4, <1>5, <1>6, <1>7, <1>8, <1>9, <1>10, <1>11

\* Somebody else edits the file.
LEMMA EditKeeps ==
  ASSUME SessionInv, Edit
  PROVE  SessionInv'
<1> USE DEF SessionInv, SessionTypes
<1>1. ReqTypes'
  BY DEF Edit, ReqTypes
<1>2. ExecTypes'
  BY DEF Edit, ExecTypes
<1>3. HarnessTypes'
  BY DEF Edit, HarnessTypes
<1>4. ProxyTypes'
  BY DEF Edit, ProxyTypes
<1>5. StoredTypes'
  BY DEF Edit, StoredTypes
<1>6. OtherTypes'
  BY DEF Edit, OtherTypes, Trouble, Count
<1>7. PhaseInv'
  BY DEF Edit, PhaseInv
<1>8. TapeInv'
  BY DEF Edit, TapeInv
<1>9. RecordInv'
  BY DEF Edit, RecordInv
<1>10. OwedInv'
  BY DEF Edit, OwedInv
<1>11. CacheInv'
  BY DEF Edit, CacheInv
<1> QED
  BY <1>1, <1>2, <1>3, <1>4, <1>5, <1>6, <1>7, <1>8, <1>9, <1>10, <1>11

\* cancelActiveTools
LEMMA OnBeforeMainRequestKeeps ==
  ASSUME SessionInv, NEW r \in Requests, onBeforeMainRequest(r)
  PROVE  SessionInv'
<1> USE DEF SessionInv, SessionTypes
<1>1. ReqTypes'
  BY DEF onBeforeMainRequest, ReqTypes, ReqRecord, Cancelled
<1>2. ExecTypes'
  BY CancelledIs DEF onBeforeMainRequest, ExecTypes
<1>3. HarnessTypes'
  BY DEF onBeforeMainRequest, HarnessTypes
<1>4. ProxyTypes'
  BY DEF onBeforeMainRequest, ProxyTypes
<1>5. StoredTypes'
  BY DEF onBeforeMainRequest, StoredTypes
<1>6. OtherTypes'
  BY DEF onBeforeMainRequest, OtherTypes
<1>7. PhaseInv'
  BY CancelledIs DEF onBeforeMainRequest, PhaseInv
<1>8. TapeInv'
  BY DEF onBeforeMainRequest, TapeInv, Cancelled
<1>9. RecordInv'
  BY CancelledIs DEF onBeforeMainRequest, RecordInv
<1>10. OwedInv'
  BY DEF onBeforeMainRequest, OwedInv, Cancelled
<1>11. CacheInv'
  BY DEF onBeforeMainRequest, CacheInv
<1> QED
  BY <1>1, <1>2, <1>3, <1>4, <1>5, <1>6, <1>7, <1>8, <1>9, <1>10, <1>11

\* A miss is beyond the tape.
LEMMA MissKeeps ==
  ASSUME SessionInv, NEW r \in Requests, Miss(r)
  PROVE  SessionInv'
<1> USE DEF SessionInv, SessionTypes
<1>1. ReqTypes'
  BY DEF Miss, ReqTypes, ReqRecord
<1>2. ExecTypes'
  BY DEF Miss, ExecTypes
<1>3. HarnessTypes'
  BY DEF Miss, HarnessTypes
<1>4. ProxyTypes'
  BY DEF Miss, ProxyTypes, ProxyRecord
<1>5. StoredTypes'
  BY DEF Miss, StoredTypes
<1>6. OtherTypes'
  BY DEF Miss, OtherTypes
<1>7. PhaseInv'
  BY DEF Miss, PhaseInv
<1>8. TapeInv'
  <2>1. req[r].turn >= proxy.limit
    <3>1. req[r].turn \in Nat
      BY DEF ReqTypes, ReqRecord
    <3> QED
      BY <3>1, MissIs DEF Miss
  <2>2. proxy'.old = proxy.old /\ proxy'.limit = proxy.limit
    BY DEF Miss, ProxyTypes, ProxyRecord
  <2>3. \A q \in Requests : req'[q].turn = req[q].turn /\ (q # r => req'[q].pc = req[q].pc)
    BY DEF Miss, ReqTypes, ReqRecord
  <2> QED
    BY <2>1, <2>2, <2>3 DEF TapeInv
<1>9. RecordInv'
  BY DEF Miss, RecordInv
<1>10. OwedInv'
  BY DEF Miss, OwedInv
<1>11. CacheInv'
  BY DEF Miss, CacheInv
<1> QED
  BY <1>1, <1>2, <1>3, <1>4, <1>5, <1>6, <1>7, <1>8, <1>9, <1>10, <1>11

\* The upstream answers.
LEMMA ForwardToUpstreamKeeps ==
  ASSUME SessionInv, NEW r \in Requests, forwardToUpstream(r)
  PROVE  SessionInv'
<1> USE DEF SessionInv, SessionTypes
<1>1. ReqTypes'
  <2>1. PICK tool \in Tools \cup {"text"}, ok \in BOOLEAN :
           LET ans == [id |-> used.answers + 1, tool |-> tool]
           IN  /\ used' = [used EXCEPT !.answers = @ + 1, !.troubles = Count(~ok)]
               /\ req' = [req EXCEPT ![r].pc = "streamed", ![r].ans = ans, ![r].ok = ok]
               /\ Receives(r, ans, ok)
    BY DEF forwardToUpstream
  <2> DEFINE ans == [id |-> used.answers + 1, tool |-> tool]
  <2>2. ans \in Answer
    BY DEF Answer, OtherTypes
  <2> HIDE DEF ans
  <2>3. req' = [req EXCEPT ![r].pc = "streamed", ![r].ans = ans, ![r].ok = ok]
    BY <2>1 DEF ans
  <2>4. \A q \in ReqRecord : [[[q EXCEPT !.pc = "streamed"] EXCEPT !.ans = ans] EXCEPT !.ok = ok] \in ReqRecord
    BY <2>2 DEF ReqRecord
  <2>5. req' = [req EXCEPT ![r] = [[[req[r] EXCEPT !.pc = "streamed"] EXCEPT !.ans = ans] EXCEPT !.ok = ok]]
    BY <2>3 DEF ReqTypes
  <2> QED
    BY <2>4, <2>5 DEF ReqTypes
<1>2. ExecTypes'
  BY DEF forwardToUpstream, ExecTypes
<1>3. HarnessTypes'
  <2>1. PICK tool \in Tools \cup {"text"}, ok \in BOOLEAN :
           LET ans == [id |-> used.answers + 1, tool |-> tool]
           IN  /\ used' = [used EXCEPT !.answers = @ + 1, !.troubles = Count(~ok)]
               /\ req' = [req EXCEPT ![r].pc = "streamed", ![r].ans = ans, ![r].ok = ok]
               /\ Receives(r, ans, ok)
    BY DEF forwardToUpstream
  <2> DEFINE ans == [id |-> used.answers + 1, tool |-> tool]
  <2>2. ans \in Answer
    BY DEF Answer, OtherTypes
  <2> HIDE DEF ans
  <2>3. Receives(r, ans, ok)
    BY <2>1 DEF ans
  <2> QED
    BY <2>2, <2>3, ReceivesIs
<1>4. ProxyTypes'
  BY DEF forwardToUpstream, ProxyTypes
<1>5. StoredTypes'
  BY DEF forwardToUpstream, StoredTypes
<1>6. OtherTypes'
  <2>1. PICK tool \in Tools \cup {"text"}, ok \in BOOLEAN :
           LET ans == [id |-> used.answers + 1, tool |-> tool]
           IN  /\ used' = [used EXCEPT !.answers = @ + 1, !.troubles = Count(~ok)]
               /\ req' = [req EXCEPT ![r].pc = "streamed", ![r].ans = ans, ![r].ok = ok]
               /\ Receives(r, ans, ok)
    BY DEF forwardToUpstream
  <2> DEFINE ans == [id |-> used.answers + 1, tool |-> tool]
  <2>2. ans \in Answer
    BY DEF Answer, OtherTypes
  <2> HIDE DEF ans
  <2>3. Count(~ok) \in Nat
    BY DEF Count, OtherTypes
  <2>4. used' = [used EXCEPT !.answers = used.answers + 1, !.troubles = Count(~ok)]
    BY <2>1
  <2>5. \A n, c \in Nat : [used EXCEPT !.answers = n, !.troubles = c]
                      \in [requests : Nat, answers : Nat, execs : Nat, troubles : Nat, launches : Nat]
    BY DEF OtherTypes
  <2>6. UNCHANGED <<file, host, rewritten>> /\ used.answers + 1 \in Nat
    BY DEF forwardToUpstream, OtherTypes
  <2> QED
    BY <2>3, <2>4, <2>5, <2>6 DEF OtherTypes
<1>7. PhaseInv'
  <2>1. PICK tool \in Tools \cup {"text"}, ok \in BOOLEAN :
           LET ans == [id |-> used.answers + 1, tool |-> tool]
           IN  /\ used' = [used EXCEPT !.answers = @ + 1, !.troubles = Count(~ok)]
               /\ req' = [req EXCEPT ![r].pc = "streamed", ![r].ans = ans, ![r].ok = ok]
               /\ Receives(r, ans, ok)
    BY DEF forwardToUpstream
  <2> DEFINE ans == [id |-> used.answers + 1, tool |-> tool]
  <2>2. ans \in Answer
    BY DEF Answer, OtherTypes
  <2> HIDE DEF ans
  <2>3. Receives(r, ans, ok) /\ req' = [req EXCEPT ![r].pc = "streamed", ![r].ans = ans, ![r].ok = ok]
    BY <2>1 DEF ans
  <2>4. harness' = harness \/ harness'.ph \in {"idle", "done"} \/ (harness'.ph = "call" /\ harness'.ans \in Answer)
    BY <2>2, <2>3, ReceivesIs
  <2>5. req[r].pc = "upstream" /\ UNCHANGED <<host, proxy, exec>>
    BY DEF forwardToUpstream
  <2>6. \A q \in Requests : q # r => req'[q] = req[q]
    BY <2>3 DEF ReqTypes
  <2>7. req'[r].ans = ans
    BY <2>3 DEF ReqTypes, ReqRecord
  <2>8. host = "up"
    BY <2>5 DEF PhaseInv, OtherTypes
  <2>9. harness'.ph = "off" => harness.ph = "off"
    BY <2>4
  <2>10. harness'.ph = "call" => harness'.ans \in Answer
    BY <2>4 DEF PhaseInv
  <2>11. harness'.ph = "tool" => harness'.exec \in Execs
    BY <2>4 DEF PhaseInv
  <2>12. \A q \in Requests : req'[q].pc = "streamed" => req'[q].ans \in Answer
    BY <2>2, <2>6, <2>7 DEF PhaseInv
  <2> QED
    BY <2>5, <2>8, <2>9, <2>10, <2>11, <2>12 DEF PhaseInv
<1>8. TapeInv'
  BY DEF forwardToUpstream, TapeInv, ReqTypes, ReqRecord, Receives
<1>9. RecordInv'
  BY DEF forwardToUpstream, RecordInv
<1>10. OwedInv'
  BY DEF forwardToUpstream, OwedInv, Receives
<1>11. CacheInv'
  BY DEF forwardToUpstream, CacheInv
<1> QED
  BY <1>1, <1>2, <1>3, <1>4, <1>5, <1>6, <1>7, <1>8, <1>9, <1>10, <1>11

\* The fetch fails.
LEMMA RequestFailsKeeps ==
  ASSUME SessionInv, NEW r \in Requests, RequestFails(r)
  PROVE  SessionInv'
<1> USE DEF SessionInv, SessionTypes
<1>1. ReqTypes'
  BY EmptyTypes DEF RequestFails, ReqTypes
<1>2. ExecTypes'
  BY DEF RequestFails, ExecTypes
<1>3. HarnessTypes'
  BY HarnessMoves DEF RequestFails, HarnessTypes
<1>4. ProxyTypes'
  BY DEF RequestFails, ProxyTypes
<1>5. StoredTypes'
  BY DEF RequestFails, StoredTypes
<1>6. OtherTypes'
  BY GatewayAssumption DEF RequestFails, OtherTypes, Ended, FreeReq, Trouble, TroubleIf, Count
<1>7. PhaseInv'
  BY DEF RequestFails, PhaseInv, Ended, FreeReq
<1>8. TapeInv'
  BY DEF RequestFails, TapeInv, Ended, FreeReq
<1>9. RecordInv'
  BY DEF RequestFails, RecordInv
<1>10. OwedInv'
  BY DEF RequestFails, OwedInv, Ended, FreeReq
<1>11. CacheInv'
  BY DEF RequestFails, CacheInv
<1> QED
  BY <1>1, <1>2, <1>3, <1>4, <1>5, <1>6, <1>7, <1>8, <1>9, <1>10, <1>11

\* The harness closes before the stream ends.
LEMMA CloseEarlyKeeps ==
  ASSUME SessionInv, NEW r \in Requests, CloseEarly(r)
  PROVE  SessionInv'
<1> USE DEF SessionInv, SessionTypes
<1>1. ReqTypes'
  BY DEF CloseEarly, ReqTypes, ReqRecord
<1>2. ExecTypes'
  BY DEF CloseEarly, ExecTypes
<1>3. HarnessTypes'
  BY DEF CloseEarly, HarnessTypes
<1>4. ProxyTypes'
  BY DEF CloseEarly, ProxyTypes
<1>5. StoredTypes'
  BY DEF CloseEarly, StoredTypes
<1>6. OtherTypes'
  BY DEF CloseEarly, OtherTypes, Trouble, Count
<1>7. PhaseInv'
  BY DEF CloseEarly, PhaseInv
<1>8. TapeInv'
  BY DEF CloseEarly, TapeInv
<1>9. RecordInv'
  BY DEF CloseEarly, RecordInv
<1>10. OwedInv'
  BY DEF CloseEarly, OwedInv
<1>11. CacheInv'
  BY DEF CloseEarly, CacheInv
<1> QED
  BY <1>1, <1>2, <1>3, <1>4, <1>5, <1>6, <1>7, <1>8, <1>9, <1>10, <1>11

\* The command reads.
LEMMA CommandReadsKeeps ==
  ASSUME SessionInv, NEW x \in Execs, CommandReads(x)
  PROVE  SessionInv'
<1> USE DEF SessionInv, SessionTypes
<1>1. ReqTypes'
  BY DEF CommandReads, ReqTypes
<1>2. ExecTypes'
  <2>1. \A v \in Outputs : [exec EXCEPT ![x].out = v] \in [Execs -> ExecRecord]
    BY DEF ExecTypes, ExecRecord
  <2>2. (IF exec[x].tool = "read" THEN file ELSE IF file = "none" THEN "empty" ELSE "listed") \in Outputs
    BY DEF OtherTypes, Outputs
  <2> QED
    BY <2>1, <2>2 DEF CommandReads, ExecTypes
<1>3. HarnessTypes'
  BY DEF CommandReads, HarnessTypes
<1>4. ProxyTypes'
  BY DEF CommandReads, ProxyTypes
<1>5. StoredTypes'
  BY DEF CommandReads, StoredTypes
<1>6. OtherTypes'
  BY DEF CommandReads, OtherTypes
<1>7. PhaseInv'
  BY DEF CommandReads, PhaseInv
<1>8. TapeInv'
  BY DEF CommandReads, TapeInv
<1>9. RecordInv'
  BY DEF CommandReads, RecordInv
<1>10. OwedInv'
  BY DEF CommandReads, OwedInv
<1>11. CacheInv'
  BY DEF CommandReads, CacheInv
<1> QED
  BY <1>1, <1>2, <1>3, <1>4, <1>5, <1>6, <1>7, <1>8, <1>9, <1>10, <1>11

\* The handler throws: the record stays, and nobody is sure of it.
LEMMA ExecThrowsKeeps ==
  ASSUME SessionInv, NEW x \in Execs, ExecThrows(x)
  PROVE  SessionInv'
<1> USE DEF SessionInv, SessionTypes
<1>1. ReqTypes'
  BY DEF ExecThrows, ReqTypes
<1>2. ExecTypes'
  BY EmptyTypes DEF ExecThrows, ExecTypes
<1>3. HarnessTypes'
  <2>1. "error" \in Results
    BY DEF Results
  <2> QED
    BY <2>1, ToolResultIs DEF ExecThrows, HarnessTypes
<1>4. ProxyTypes'
  BY DEF ExecThrows, ProxyTypes
<1>5. StoredTypes'
  BY DEF ExecThrows, StoredTypes
<1>6. OtherTypes'
  BY DEF ExecThrows, OtherTypes, ToolResult, Trouble, Count
<1>7. PhaseInv'
  <2>1. "error" \in Results
    BY DEF Results
  <2>2. harness' = harness \/ harness'.ph = "idle"
    BY <2>1, ToolResultIs DEF ExecThrows
  <2>3. \A y \in Execs : exec'[y].pc = "free" \/ exec'[y] = exec[y]
    BY DEF ExecThrows, ExecTypes, FreeExec
  <2>4. exec[x].pc # "free" /\ UNCHANGED <<host, proxy, req>>
    BY DEF ExecThrows
  <2> QED
    BY <2>2, <2>3, <2>4 DEF PhaseInv, OtherTypes
<1>8. TapeInv'
  BY DEF ExecThrows, TapeInv
<1>9. RecordInv'
  BY DEF ExecThrows, RecordInv, ToolResult, FreeExec
<1>10. OwedInv'
  BY DEF ExecThrows, OwedInv
<1>11. CacheInv'
  BY DEF ExecThrows, CacheInv
<1> QED
  BY <1>1, <1>2, <1>3, <1>4, <1>5, <1>6, <1>7, <1>8, <1>9, <1>10, <1>11

\* What a harness resumes is a conversation.
LEMMA ResumedIs ==
  ASSUME SessionTypes
  PROVE  Resumed \in Conversation
<1> DEFINE C == [id : Int, tool : Tools \cup {"text"}, res : Results, acc : BOOLEAN]
           item == [id |-> harness.ans.id, tool |-> harness.ans.tool, res |-> NoRes, acc |-> FALSE]
<1>1. harness.conv \in Seq(C) /\ harness.ans \in Answer \cup {NoAnswer}
  BY DEF SessionTypes, HarnessTypes, HarnessRecord, Conversation
<1>2. CASE harness.ans = NoAnswer
  BY <1>1, <1>2 DEF Resumed, Conversation
<1>3. CASE harness.ans # NoAnswer
  <2>1. harness.ans \in Answer
    BY <1>1, <1>3
  <2>2. item \in C
    BY <2>1 DEF Answer, Results, Outputs
  <2>3. Resumed = Append(harness.conv, item)
    BY <1>3 DEF Resumed
  <2> HIDE DEF item
  <2> QED
    BY <1>1, <2>2, <2>3 DEF Conversation
<1> QED
  BY <1>2, <1>3

\* A launch takes what is owed from the record into its memory.
LEMMA StartKeeps ==
  ASSUME SessionInv, NEW conv \in Conversation, NEW limit \in Nat, NEW old \in Seq(TraceStep),
         old = <<>> => limit = 0, old # <<>> => limit < Len(old), Start(conv, limit, old)
  PROVE  SessionInv'
<1> USE DEF SessionInv, SessionTypes
<1> DEFINE id == readGatewayInterruptedTool(stored)
<1>1. id \in Int
  BY DEF readGatewayInterruptedTool, StoredTypes
<1>2. proxy' = [EmptyProxy EXCEPT !.pending = id, !.limit = limit, !.old = old]
  BY DEF Start
<1>3. proxy' \in ProxyRecord /\ proxy'.pending = id /\ proxy'.limit = limit /\ proxy'.old = old
  <2> HIDE DEF id
  <2>1. id \in Int /\ limit \in Nat /\ old \in Seq(TraceStep)
    BY <1>1
  <2> QED
    BY <1>2, <2>1, EmptyProxyIs DEF ProxyRecord
<1>4. harness' \in HarnessRecord /\ harness'.ph = "idle"
  <2>1. harness' = [OffHarness EXCEPT !.ph = "idle", !.conv = conv]
    BY DEF Start
  <2>2. OffHarness \in HarnessRecord
    BY EmptyTypes DEF OffHarness, HarnessRecord
  <2> QED
    BY <2>1, <2>2 DEF HarnessRecord
<1>5. host = "down" /\ host' = "up" /\ rewritten' = FALSE /\ UNCHANGED <<file, stored, req, exec, owed, answers>>
  BY DEF Start
<1>6. \A r \in Requests : req'[r].pc = "free"
  BY <1>5 DEF PhaseInv
<1>7. \A x \in Execs : exec'[x].pc = "free"
  BY <1>5 DEF PhaseInv
<1>8. OtherTypes'
  <2>1. used' = [used EXCEPT !.launches = used.launches + 1]
    BY DEF Start
  <2>2. used.launches + 1 \in Nat
    BY DEF OtherTypes
  <2>3. \A n \in Nat : [used EXCEPT !.launches = n]
                      \in [requests : Nat, answers : Nat, execs : Nat, troubles : Nat, launches : Nat]
    BY DEF OtherTypes
  <2> QED
    BY <1>5, <2>1, <2>2, <2>3 DEF OtherTypes
<1>9. SessionTypes'
  BY <1>3, <1>4, <1>5, <1>8 DEF ReqTypes, ExecTypes, HarnessTypes, ProxyTypes, StoredTypes
<1>10. PhaseInv'
  BY <1>4, <1>5, <1>6, <1>7 DEF PhaseInv
<1>11. TapeInv'
  BY <1>3, <1>6 DEF TapeInv
<1>12. RecordInv'
  BY <1>7 DEF RecordInv
<1>13. OwedInv'
  <2>1. owed # {} => id \in owed /\ NoCall \notin owed
    BY <1>5 DEF OwedInv
  <2> HIDE DEF id
  <2>2. owed' # {} => proxy'.pending \in owed'
    BY <1>3, <1>5, <2>1
  <2>3. readGatewayInterruptedTool(stored') = id
    BY <1>5 DEF id
  <2> QED
    BY <1>5, <1>6, <2>1, <2>2, <2>3 DEF OwedInv
<1>14. CacheInv'
  BY <1>5 DEF CacheInv
<1> QED
  BY <1>9, <1>10, <1>11, <1>12, <1>13, <1>14

\* A launch of the harness.
LEMMA WrapAgentKeeps ==
  ASSUME SessionInv, wrapAgent
  PROVE  SessionInv'
<1>1. PICK conv \in {<<>>, Resumed} : Start(conv, 0, <<>>)
  BY DEF wrapAgent
<1>2. conv \in Conversation
  BY EmptyTypes, ResumedIs DEF SessionInv
<1>3. <<>> \in Seq(TraceStep) /\ 0 \in Nat
  OBVIOUS
<1> QED
  BY <1>1, <1>2, <1>3, StartKeeps

\* A fork: its step is within the tape.
LEMMA ForkGatewayRunAtStepKeeps ==
  ASSUME SessionInv, forkGatewayRunAtStep
  PROVE  SessionInv'
<1>1. PICK n \in DOMAIN traceGatewayRun : Start(<<>>, n - 1, traceGatewayRun)
  BY DEF forkGatewayRunAtStep
<1> DEFINE t == traceGatewayRun
<1>2. t \in Seq(TraceStep)
  BY DEF traceGatewayRun, SessionInv, SessionTypes, StoredTypes
<1> HIDE DEF t
<1>3. n \in 1..Len(t) /\ t # <<>>
  BY <1>1, <1>2 DEF t
<1>4. n - 1 \in Nat /\ n - 1 < Len(t)
  BY <1>2, <1>3
<1>5. <<>> \in Conversation
  BY EmptyTypes
<1>6. Start(<<>>, n - 1, t)
  BY <1>1 DEF t
<1> QED
  BY <1>2, <1>3, <1>4, <1>5, <1>6, StartKeeps

\* A write of the record, and who is sure of it then.
LEMMA WriteKeepsRecord ==
  ASSUME SessionTypes, RecordInv, NEW id \in Int, id # NoCall, NEW d,
         stored' \in [inFlight : {id}, interrupted : {NoCall}, entries : {d}, trace : Seq(TraceStep)],
         exec' = OthersWrite(id, 0), UNCHANGED rewritten
  PROVE  RecordInv'
<1>1. readGatewayInterruptedTool(stored') = id
  BY DEF readGatewayInterruptedTool
<1>2. ASSUME NEW x \in Execs
      PROVE  /\ exec'[x].pc = exec[x].pc /\ exec'[x].id = exec[x].id /\ exec'[x].rec = exec[x].rec
             /\ exec'[x].alone => exec[x].id = id
  <2>1. x # 0
    BY GatewayAssumption DEF Execs
  <2> QED
    BY <2>1, OthersWriteIs DEF SessionTypes
<1> QED
  BY <1>1, <1>2 DEF RecordInv

\* The record is cleared: nobody is sure of it.
LEMMA ClearKeepsRecord ==
  ASSUME SessionTypes, RecordInv, exec' = OthersWrite(NoCall, 0), UNCHANGED rewritten
  PROVE  RecordInv'
<1>1. ASSUME NEW x \in Execs
      PROVE  /\ exec'[x].pc = exec[x].pc /\ exec'[x].id = exec[x].id /\ exec'[x].rec = exec[x].rec
             /\ exec'[x].alone => exec[x].id = NoCall
  <2>1. x # 0
    BY GatewayAssumption DEF Execs
  <2> QED
    BY <2>1, OthersWriteIs DEF SessionTypes
<1> QED
  BY <1>1 DEF RecordInv

\* Commands that only lose their record keep the harness's phase possible.
LEMMA OthersKeepPhase ==
  ASSUME SessionTypes, NEW id, NEW but, exec' = OthersWrite(id, but)
  PROVE  ExecTypes' /\ \A x \in Execs : exec'[x].pc = exec[x].pc
BY OthersWriteIs DEF SessionTypes, ExecTypes

\* A conversation that is taken up has a turn.
LEMMA TurnsAre ==
  ASSUME NEW m \in TurnMaps, NEW conv \in Conversation, NEW n \in Nat
  PROVE  /\ conv \in DOMAIN m => m[conv] \in Nat
         /\ [c \in (DOMAIN m) \cup {conv} |-> IF c = conv THEN n ELSE m[c]] \in TurnMaps
<1>1. PICK D \in SUBSET Conversation : m \in [D -> Nat]
  BY DEF TurnMaps
<1> DEFINE f == [c \in (DOMAIN m) \cup {conv} |-> IF c = conv THEN n ELSE m[c]]
<1>2. D \cup {conv} \in SUBSET Conversation /\ DOMAIN m = D
  BY <1>1
<1>3. f \in [D \cup {conv} -> Nat]
  BY <1>1, <1>2
<1> HIDE DEF f
<1>4. f \in TurnMaps
  BY <1>2, <1>3 DEF TurnMaps
<1> QED
  BY <1>1, <1>4 DEF f

\* The account is given, and nothing is owed any more.
LEMMA AdmitTurnKeeps ==
  ASSUME SessionInv, NEW r \in Requests, AdmitTurn(r)
  PROVE  SessionInv'
<1> USE DEF SessionInv, SessionTypes
<1> DEFINE conv == Injected(req[r].conv, proxy.pending)
           reported == proxy.active # NoCall /\ Reports(req[r].conv, proxy.active)
           replay == conv \in DOMAIN proxy.turnOf
           turn == IF replay THEN proxy.turnOf[conv] ELSE proxy.cursor
           active == IF reported THEN NoCall ELSE proxy.active
           cursor == IF replay THEN proxy.cursor ELSE proxy.cursor + 1
           turnOf == [c \in (DOMAIN proxy.turnOf) \cup {conv} |-> IF c = conv THEN turn ELSE proxy.turnOf[c]]
<1>1. /\ req' = [req EXCEPT ![r].pc = "admitted", ![r].conv = conv, ![r].turn = turn]
      /\ proxy' = [proxy EXCEPT !.active = active, !.pending = NoCall, !.cursor = cursor, !.turnOf = turnOf]
      /\ IF reported \/ proxy.pending # NoCall
         THEN stored' = writeGatewayInFlightTool(stored, NoCall) /\ exec' = OthersWrite(NoCall, 0)
         ELSE UNCHANGED <<stored, exec>>
      /\ req[r].pc = "settled" /\ owed' = {}
      /\ UNCHANGED <<file, host, harness, marks, used, rewritten, answers>>
  BY DEF AdmitTurn
<1>2. proxy.pending \in Int /\ req[r].conv \in Conversation /\ proxy.turnOf \in TurnMaps
      /\ proxy.cursor \in Nat /\ proxy.active \in Int
  BY DEF ProxyTypes, ProxyRecord, ReqTypes, ReqRecord
<1>3. conv \in Conversation
  BY <1>2, InjectedIs
<1> HIDE DEF conv, reported
<1>4. turn \in Nat /\ cursor \in Nat /\ active \in Int /\ turnOf \in TurnMaps
  <2>1. turn \in Nat
    BY <1>2, <1>3, TurnsAre
  <2>2. cursor \in Nat /\ active \in Int
    BY <1>2 DEF NoCall
  <2>3. turnOf \in TurnMaps
    <3> HIDE DEF turn
    <3> QED
      BY <1>2, <1>3, <2>1, TurnsAre
  <2> QED
    BY <2>1, <2>2, <2>3
<1> HIDE DEF turn, cursor, active, turnOf
<1>5. ReqTypes'
  <2>1. \A q \in ReqRecord : [[[q EXCEPT !.pc = "admitted"] EXCEPT !.conv = conv] EXCEPT !.turn = turn] \in ReqRecord
    BY <1>3, <1>4 DEF ReqRecord
  <2>2. req' = [req EXCEPT ![r] = [[[req[r] EXCEPT !.pc = "admitted"] EXCEPT !.conv = conv] EXCEPT !.turn = turn]]
    BY <1>1 DEF ReqTypes
  <2> QED
    BY <2>1, <2>2 DEF ReqTypes
<1>6. ProxyTypes' /\ proxy'.old = proxy.old /\ proxy'.limit = proxy.limit
  <2>1. NoCall \in Int
    BY DEF NoCall
  <2> QED
    BY <1>1, <1>4, <2>1 DEF ProxyTypes, ProxyRecord
<1>7. ExecTypes' /\ \A x \in Execs : exec'[x].pc = exec[x].pc
  BY <1>1, OthersKeepPhase DEF ExecTypes
<1>8. StoredTypes' /\ stored'.entries = stored.entries
  <2>1. CASE reported \/ proxy.pending # NoCall
    <3>1. stored' \in [inFlight : {NoCall}, interrupted : {NoCall}, entries : {stored.entries}, trace : {stored.trace}]
      BY <1>1, <2>1, WrittenIs DEF NoCall
    <3> QED
      BY <3>1 DEF StoredTypes, NoCall
  <2>2. CASE ~(reported \/ proxy.pending # NoCall)
    BY <1>1, <2>2 DEF StoredTypes
  <2> QED
    BY <2>1, <2>2
<1>9. HarnessTypes' /\ OtherTypes'
  BY <1>1 DEF HarnessTypes, OtherTypes
<1>10. host = "up"
  BY <1>1 DEF PhaseInv, OtherTypes
<1>11. \A q \in Requests : q # r => req'[q] = req[q]
  BY <1>1 DEF ReqTypes
<1>12. req'[r].pc = "admitted"
  BY <1>1 DEF ReqTypes, ReqRecord
<1>13. PhaseInv'
  BY <1>1, <1>7, <1>10, <1>11, <1>12 DEF PhaseInv
<1>14. TapeInv'
  BY <1>6, <1>11, <1>12 DEF TapeInv
<1>15. RecordInv'
  <2>1. CASE reported \/ proxy.pending # NoCall
    BY <1>1, <2>1, ClearKeepsRecord
  <2>2. CASE ~(reported \/ proxy.pending # NoCall)
    BY <1>1, <2>2 DEF RecordInv
  <2> QED
    BY <2>1, <2>2
<1>16. OwedInv'
  BY <1>1 DEF OwedInv
<1>17. CacheInv'
  BY <1>1, <1>8 DEF CacheInv
<1> QED
  BY <1>5, <1>6, <1>7, <1>8, <1>9, <1>13, <1>14, <1>15, <1>16, <1>17

\* A step of the trace is kept.
LEMMA TraceGrows ==
  ASSUME SessionTypes, NEW turn \in Nat, NEW ans \in Answer, NEW ok \in BOOLEAN
  PROVE  LET turns == Append(proxy.turns, [turn |-> turn, ans |-> ans, ok |-> ok])
         IN  turns \in Seq(TraceStep) /\ Last(turns).ans = ans
<1> DEFINE s == [turn |-> turn, ans |-> ans, ok |-> ok]
           turns == Append(proxy.turns, s)
<1>1. proxy.turns \in Seq(TraceStep)
  BY DEF SessionTypes, ProxyTypes, ProxyRecord
<1>2. s \in TraceStep /\ s.ans = ans
  BY DEF TraceStep
<1> HIDE DEF s
<1>3. turns \in Seq(TraceStep) /\ Len(turns) = Len(proxy.turns) + 1 /\ turns[Len(proxy.turns) + 1] = s
  BY <1>1, <1>2
<1> HIDE DEF turns
<1>4. Last(turns) = s
  BY <1>3 DEF Last
<1> QED
  BY <1>2, <1>3, <1>4 DEF turns, s

\* The call of an answer is noted, or there is none.
LEMMA NotedIs ==
  ASSUME SessionTypes, RecordInv, NEW ans \in Answer, NEW ok \in BOOLEAN,
         NEW entries \in Seq(CacheEntry), NEW trace \in Seq(TraceStep), NEW id, id = FirstCall(ans, ok),
         stored' = [NoteCall(id, stored) EXCEPT !.trace = trace, !.entries = entries],
         exec' = (IF id = NoCall THEN exec ELSE OthersWrite(id, 0)), UNCHANGED rewritten
  PROVE  /\ id \in Int /\ StoredTypes' /\ stored'.entries = entries
         /\ ExecTypes' /\ (\A x \in Execs : exec'[x].pc = exec[x].pc) /\ RecordInv'
<1> USE DEF SessionTypes
<1>1. id \in Int
  BY DEF FirstCall, Answer, NoCall
<1>2. CASE id = NoCall
  <2>1. stored' = [stored EXCEPT !.trace = trace, !.entries = entries] /\ exec' = exec
    BY <1>2 DEF NoteCall
  <2>2. StoredTypes' /\ stored'.entries = entries
        /\ stored'.inFlight = stored.inFlight /\ stored'.interrupted = stored.interrupted
    BY <2>1 DEF StoredTypes
  <2>3. RecordInv'
    BY <2>1, <2>2 DEF RecordInv, readGatewayInterruptedTool
  <2> QED
    BY <1>1, <2>1, <2>2, <2>3 DEF ExecTypes
<1>3. CASE id # NoCall
  <2> DEFINE w == writeGatewayInFlightTool(stored, id)
  <2>1. stored' = [w EXCEPT !.trace = trace, !.entries = entries] /\ exec' = OthersWrite(id, 0)
    BY <1>3 DEF NoteCall
  <2>2. w \in [inFlight : {id}, interrupted : {NoCall}, entries : {stored.entries}, trace : {stored.trace}]
    BY <1>1, WrittenIs
  <2> HIDE DEF w
  <2>3. stored' \in [inFlight : {id}, interrupted : {NoCall}, entries : {entries}, trace : Seq(TraceStep)]
    BY <2>1, <2>2
  <2>4. StoredTypes' /\ stored'.entries = entries
    BY <1>1, <2>3 DEF StoredTypes, NoCall
  <2>5. RecordInv'
    BY <1>1, <1>3, <2>1, <2>3, WriteKeepsRecord
  <2> QED
    BY <1>1, <2>1, <2>4, <2>5, OthersKeepPhase
<1> QED
  BY <1>2, <1>3

\* What an answer from the cache is, and what it leaves.
LEMMA HitIs ==
  ASSUME SessionInv, NEW r \in Requests, Hit(r)
  PROVE  \E c \in ToSet(lookup(req[r].turn, req[r].conv)) :
            /\ c.ans \in Answer /\ c.ok \in BOOLEAN
            /\ req' = [req EXCEPT ![r] = Ended("hit")]
            /\ Receives(r, c.ans, c.ok)
            /\ ProxyTypes' /\ proxy'.old = proxy.old /\ proxy'.limit = proxy.limit
            /\ Last(proxy'.turns).ans = c.ans
            /\ StoredTypes' /\ stored'.entries = stored.entries
            /\ ExecTypes' /\ (\A x \in Execs : exec'[x].pc = exec[x].pc) /\ RecordInv'
<1> USE DEF SessionInv, SessionTypes
<1> DEFINE noted == proxy.observed \/ extractFiles(req[r].conv)
           step(c) == [turn |-> req[r].turn, ans |-> c.ans, ok |-> c.ok]
           turns(c) == Append(proxy.turns, step(c))
<1>1. PICK c \in ToSet(lookup(req[r].turn, req[r].conv)) :
        /\ req' = [req EXCEPT ![r] = Ended("hit")]
        /\ Receives(r, c.ans, c.ok)
        /\ proxy' = [proxy EXCEPT !.observed = noted, !.active = FirstCall(c.ans, c.ok), !.turns = turns(c)]
        /\ stored' = [NoteCall(FirstCall(c.ans, c.ok), stored) EXCEPT !.trace = proxy'.turns]
        /\ exec' = IF FirstCall(c.ans, c.ok) = NoCall THEN exec ELSE OthersWrite(FirstCall(c.ans, c.ok), 0)
  BY DEF Hit
<1>2. req[r].turn \in Nat /\ UNCHANGED rewritten
  BY DEF ReqTypes, ReqRecord, Hit
<1>3. c.ans \in Answer /\ c.ok \in BOOLEAN
  BY <1>2, LookupIs
<1> DEFINE t == turns(c)
           id == FirstCall(c.ans, c.ok)
<1>4. t \in Seq(TraceStep) /\ Last(t).ans = c.ans
  BY <1>2, <1>3, TraceGrows
<1>5. id \in Int
  BY <1>3 DEF FirstCall, Answer, NoCall
<1>6. noted \in BOOLEAN
  BY DEF ProxyTypes, ProxyRecord, extractFiles
<1>7. proxy' = [proxy EXCEPT !.observed = noted, !.active = id, !.turns = t]
  BY <1>1
<1> HIDE DEF noted, t
<1>8. stored' = [NoteCall(id, stored) EXCEPT !.trace = proxy'.turns]
      /\ exec' = IF id = NoCall THEN exec ELSE OthersWrite(id, 0)
  BY <1>1
<1>14. exec' = IF id = NoCall THEN exec ELSE OthersWrite(id, 0)
  BY <1>1
<1>9. id = FirstCall(c.ans, c.ok)
  OBVIOUS
<1> HIDE DEF id
<1>10. ProxyTypes' /\ proxy'.old = proxy.old /\ proxy'.limit = proxy.limit /\ proxy'.turns = t
  BY <1>4, <1>5, <1>6, <1>7 DEF ProxyTypes, ProxyRecord
<1>11. NoteCall(id, stored).entries = stored.entries
       /\ NoteCall(id, stored) \in [inFlight : Int, interrupted : Int, entries : {stored.entries}, trace : {stored.trace}]
  <2>1. CASE id = NoCall
    BY <2>1 DEF NoteCall, StoredTypes
  <2>2. CASE id # NoCall
    <3>1. NoteCall(id, stored) \in [inFlight : {id}, interrupted : {NoCall}, entries : {stored.entries}, trace : {stored.trace}]
      BY <1>5, <2>2, WrittenIs DEF NoteCall
    <3> QED
      BY <1>5, <3>1 DEF NoCall
  <2> QED
    BY <2>1, <2>2
<1>12. stored' = [NoteCall(id, stored) EXCEPT !.trace = t, !.entries = stored.entries]
  <2> DEFINE n == NoteCall(id, stored)
  <2>1. stored' = [n EXCEPT !.trace = t]
    BY <1>8, <1>10
  <2> HIDE DEF n
  <2>2. n \in [inFlight : Int, interrupted : Int, entries : {stored.entries}, trace : {stored.trace}]
    BY <1>11 DEF n
  <2>3. [n EXCEPT !.trace = t] = [n EXCEPT !.trace = t, !.entries = stored.entries]
    BY <2>2
  <2> QED
    BY <2>1, <2>3 DEF n
<1>13. /\ StoredTypes' /\ stored'.entries = stored.entries
       /\ ExecTypes' /\ (\A x \in Execs : exec'[x].pc = exec[x].pc) /\ RecordInv'
  <2>1. stored.entries \in Seq(CacheEntry)
    BY DEF StoredTypes
  <2> QED
    BY <1>2, <1>3, <1>4, <1>14, <1>9, <1>12, <2>1, NotedIs
<1> QED
  BY <1>1, <1>3, <1>4, <1>10, <1>13

\* A hit needs an admitted request, so nothing is owed.
LEMMA HitKeeps ==
  ASSUME SessionInv, NEW r \in Requests, Hit(r)
  PROVE  SessionInv'
<1>1. PICK c \in ToSet(lookup(req[r].turn, req[r].conv)) :
            /\ c.ans \in Answer /\ c.ok \in BOOLEAN
            /\ req' = [req EXCEPT ![r] = Ended("hit")]
            /\ Receives(r, c.ans, c.ok)
            /\ ProxyTypes' /\ proxy'.old = proxy.old /\ proxy'.limit = proxy.limit
            /\ Last(proxy'.turns).ans = c.ans
            /\ StoredTypes' /\ stored'.entries = stored.entries
            /\ ExecTypes' /\ (\A x \in Execs : exec'[x].pc = exec[x].pc) /\ RecordInv'
  BY HitIs
<1> USE DEF SessionInv, SessionTypes
<1>2. req[r].pc = "admitted" /\ UNCHANGED <<file, host, marks, used, owed, rewritten, answers>>
  BY DEF Hit
<1>3. ReqTypes' /\ (\A q \in Requests : q # r => req'[q] = req[q]) /\ req'[r].pc = "hit"
  BY <1>1, EmptyTypes DEF ReqTypes, Ended, FreeReq
<1>4. HarnessTypes' /\ (\/ harness' = harness \/ harness'.ph \in {"idle", "done"}
                        \/ harness'.ph = "call" /\ harness'.ans \in Answer)
  BY <1>1, ReceivesIs
<1>5. OtherTypes'
  BY <1>2 DEF OtherTypes
<1>6. host = "up"
  BY <1>2 DEF PhaseInv, OtherTypes
<1>7. PhaseInv'
  BY <1>1, <1>2, <1>3, <1>4, <1>6 DEF PhaseInv
<1>8. TapeInv'
  BY <1>1, <1>3 DEF TapeInv
<1>9. OwedInv'
  BY <1>2 DEF OwedInv
<1>10. CacheInv'
  BY <1>1, <1>2 DEF CacheInv
<1> QED
  BY <1>1, <1>3, <1>4, <1>5, <1>7, <1>8, <1>9, <1>10

\* A turn is recorded with the answer behind it.
LEMMA TurnCompletedKeeps ==
  ASSUME SessionInv, NEW r \in Requests, TurnCompleted(r)
  PROVE  SessionInv'
<1> USE DEF SessionInv, SessionTypes
<1> DEFINE ans == req[r].ans
           ok == req[r].ok
           turn == req[r].turn
           conv == req[r].conv
           id == FirstCall(ans, ok)
           rec == recordTurn(turn, conv, ans)
           turns == Append(proxy.turns, [turn |-> turn, ans |-> ans, ok |-> ok])
           fresh == ok /\ proxy.old = <<>>
           entries == IF fresh THEN rec.entries ELSE stored.entries
           noted == IF fresh THEN rec.observed ELSE proxy.observed
           new == [conv |-> conv, ans |-> ans, over |-> IF extractFiles(conv) THEN file ELSE "unknown"]
<1>1. /\ req[r].pc = "streamed" /\ req' = [req EXCEPT ![r] = Ended("over")]
      /\ proxy' = [proxy EXCEPT !.active = id, !.turns = turns, !.observed = noted]
      /\ exec' = IF id = NoCall THEN exec ELSE OthersWrite(id, 0)
      /\ UNCHANGED <<file, host, harness, marks, used, owed, rewritten>>
  BY DEF TurnCompleted
<1>18. answers' = IF ~ok THEN answers ELSE answers \cup {new}
  BY DEF TurnCompleted
<1>2. ans \in Answer /\ ok \in BOOLEAN /\ turn \in Nat /\ conv \in Conversation
  BY <1>1 DEF ReqTypes, ReqRecord, PhaseInv
<1>3. id \in Int
  BY <1>2 DEF FirstCall, Answer, NoCall
<1>4. turns \in Seq(TraceStep)
  BY <1>2, TraceGrows
<1>5. /\ rec.observed \in BOOLEAN /\ rec.entries \in Seq(CacheEntry)
      /\ \A i \in DOMAIN rec.entries :
           \/ i \in DOMAIN stored.entries /\ rec.entries[i] = stored.entries[i]
           \/ /\ rec.entries[i].conv = conv /\ rec.entries[i].ans = ans
              /\ extractFiles(conv) => rec.entries[i].stamp = file
  BY <1>2, RecordTurnIs
<1>6. stored' = [NoteCall(id, stored) EXCEPT !.trace = turns, !.entries = entries]
  <2> DEFINE n == NoteCall(id, stored)
  <2>1. n.entries = stored.entries
    <3>1. id # NoCall => writeGatewayInFlightTool(stored, id).entries = stored.entries
      BY DEF writeGatewayInFlightTool, StoredTypes
    <3> QED
      BY <3>1 DEF NoteCall
  <2>2. stored' = [n EXCEPT !.trace = turns, !.entries = IF ok /\ proxy.old = <<>> THEN rec.entries ELSE @]
    BY DEF TurnCompleted
  <2>3. stored' = [n EXCEPT !.trace = turns, !.entries = IF ok /\ proxy.old = <<>> THEN rec.entries ELSE n.entries]
    <3> HIDE DEF n, turns, rec
    <3> QED
      BY <2>2
  <2> HIDE DEF n
  <2> QED
    BY <2>1, <2>3 DEF n
<1>7. entries \in Seq(CacheEntry) /\ noted \in BOOLEAN
  <2>1. stored.entries \in Seq(CacheEntry) /\ proxy.observed \in BOOLEAN
    BY DEF StoredTypes, ProxyTypes, ProxyRecord
  <2> QED
    BY <1>5, <2>1
<1>8. id = FirstCall(ans, ok)
  OBVIOUS
<1>9. CacheInv' \/ stored'.entries # entries
  <2>1. ASSUME fresh, stored'.entries = entries, NEW i \in DOMAIN rec.entries
        PROVE  \E a \in answers' : Witness(rec.entries[i], a)
    <3>1. answers' = answers \cup {new}
      BY <1>18, <2>1
    <3>2. CASE i \in DOMAIN stored.entries /\ rec.entries[i] = stored.entries[i]
      BY <3>1, <3>2 DEF CacheInv
    <3>3. CASE /\ rec.entries[i].conv = conv /\ rec.entries[i].ans = ans
               /\ extractFiles(conv) => rec.entries[i].stamp = file
      <4>1. new.over # "unknown" => extractFiles(conv) /\ new.over = file
        OBVIOUS
      <4>2. file # Unstamped
        BY DEF OtherTypes, FileContents, Unstamped
      <4>3. new.ans = ans /\ new.conv = conv
        OBVIOUS
      <4> HIDE DEF new, rec
      <4>4. Witness(rec.entries[i], new)
        BY <3>3, <4>1, <4>2, <4>3 DEF Witness
      <4> QED
        BY <3>1, <4>4
    <3> QED
      BY <1>5, <2>1, <3>2, <3>3
  <2>2. ASSUME ~fresh, stored'.entries = entries
        PROVE  CacheInv'
    <3>1. stored'.entries = stored.entries
      BY <2>2
    <3>2. answers \subseteq answers'
      BY <1>18
    <3> QED
      BY <3>1, <3>2 DEF CacheInv
  <2>3. ASSUME fresh, stored'.entries = entries
        PROVE  CacheInv'
    <3>1. stored'.entries = rec.entries
      BY <2>3
    <3> QED
      BY <2>1, <2>3, <3>1 DEF CacheInv
  <2> QED
    BY <2>2, <2>3
<1> HIDE DEF ans, ok, turn, conv, id, turns, noted, entries, new, rec, fresh
<1>10. ProxyTypes' /\ proxy'.old = proxy.old /\ proxy'.limit = proxy.limit
  BY <1>1, <1>3, <1>4, <1>7 DEF ProxyTypes, ProxyRecord
<1>11. /\ StoredTypes' /\ stored'.entries = entries
       /\ ExecTypes' /\ (\A x \in Execs : exec'[x].pc = exec[x].pc) /\ RecordInv'
  BY <1>1, <1>2, <1>4, <1>6, <1>7, <1>8, NotedIs
<1>12. ReqTypes' /\ (\A q \in Requests : q # r => req'[q] = req[q]) /\ req'[r].pc = "over"
  BY <1>1, EmptyTypes DEF ReqTypes, Ended, FreeReq
<1>13. HarnessTypes' /\ OtherTypes'
  BY <1>1 DEF HarnessTypes, OtherTypes
<1>14. host = "up"
  BY <1>1 DEF PhaseInv, OtherTypes
<1>15. PhaseInv'
  BY <1>1, <1>11, <1>12, <1>14 DEF PhaseInv
<1>16. TapeInv'
  BY <1>10, <1>12 DEF TapeInv
<1>17. OwedInv'
  BY <1>1 DEF OwedInv
<1> QED
  BY <1>9, <1>10, <1>11, <1>12, <1>13, <1>15, <1>16, <1>17

\* A command of this launch has returned: what is owed is in the memory.
LEMMA ExecReturnsKeeps ==
  ASSUME SessionInv, NEW x \in Execs, ExecReturns(x)
  PROVE  SessionInv'
<1> USE DEF SessionInv, SessionTypes
<1> DEFINE done == recordToolExecution(exec[x])
           cleared == writeGatewayInFlightTool(stored, NoCall)
<1>1. /\ exec[x].pc \in {"run", "stopping"}
      /\ exec' = [OthersWrite(NoCall, x) EXCEPT ![x] = FreeExec]
      /\ harness' = ToolResult(x, exec[x].out)
      /\ IF proxy.old # <<>>
         THEN stored' = cleared /\ UNCHANGED proxy
         ELSE /\ stored' = [cleared EXCEPT !.entries = done.entries]
              /\ proxy' = [proxy EXCEPT !.observed = done.observed, !.disc = done.disc]
      /\ UNCHANGED <<file, host, req, marks, used, owed, rewritten, answers>>
  BY DEF ExecReturns
<1>2. /\ done.observed \in BOOLEAN /\ done.entries \in Seq(CacheEntry)
      /\ done.disc \in Seq(Listing)
      /\ DOMAIN done.entries = DOMAIN stored.entries
      /\ \A i \in DOMAIN stored.entries :
           /\ done.entries[i].conv = stored.entries[i].conv
           /\ done.entries[i].ans = stored.entries[i].ans
           /\ stored.entries[i].stamp # Unstamped => done.entries[i].stamp = stored.entries[i].stamp
  BY RecordToolIs
<1>3. cleared \in [inFlight : {NoCall}, interrupted : {NoCall}, entries : {stored.entries}, trace : {stored.trace}]
  BY WrittenIs DEF NoCall
<1> HIDE DEF done, cleared
<1>4. ReqTypes' /\ OtherTypes'
  BY <1>1 DEF ReqTypes, OtherTypes
<1>5. ExecTypes' /\ exec'[x].pc = "free"
      /\ \A y \in Execs : y # x => /\ exec'[y].pc = exec[y].pc /\ exec'[y].id = exec[y].id /\ exec'[y].rec = exec[y].rec
                                   /\ exec'[y].alone => exec[y].id = NoCall
  <2>1. OthersWrite(NoCall, x) \in [Execs -> ExecRecord]
    BY OthersWriteIs
  <2>2. ExecTypes' /\ exec'[x] = FreeExec /\ \A y \in Execs : y # x => exec'[y] = OthersWrite(NoCall, x)[y]
    BY <1>1, <2>1, EmptyTypes DEF ExecTypes
  <2>3. FreeExec.pc = "free"
    BY DEF FreeExec
  <2> QED
    BY <2>2, <2>3, OthersWriteIs
<1>6. HarnessTypes' /\ (harness' = harness \/ harness'.ph = "idle")
  <2>1. exec[x].out \in Results
    BY DEF ExecTypes, ExecRecord, Results
  <2> QED
    BY <1>1, <2>1, ToolResultIs DEF HarnessTypes
<1>7. ProxyTypes' /\ proxy'.old = proxy.old /\ proxy'.limit = proxy.limit /\ proxy'.pending = proxy.pending
  BY <1>1, <1>2 DEF ProxyTypes, ProxyRecord
<1>8. StoredTypes'
  <2>1. cleared \in [inFlight : Int, interrupted : Int, entries : Seq(CacheEntry), trace : Seq(TraceStep)]
    BY <1>3 DEF StoredTypes, NoCall
  <2>2. [cleared EXCEPT !.entries = done.entries]
           \in [inFlight : Int, interrupted : Int, entries : Seq(CacheEntry), trace : Seq(TraceStep)]
    BY <1>2, <2>1
  <2> QED
    BY <1>1, <2>1, <2>2 DEF StoredTypes
<1>9. host = "up" /\ harness.ph # "off" /\ rewritten
  BY <1>1 DEF PhaseInv, OtherTypes, RecordInv
<1>10. PhaseInv'
  BY <1>1, <1>5, <1>6, <1>9 DEF PhaseInv
<1>11. TapeInv'
  BY <1>1, <1>7 DEF TapeInv
<1>12. RecordInv'
  BY <1>1, <1>5 DEF RecordInv
<1>13. OwedInv'
  BY <1>1, <1>7, <1>9 DEF OwedInv
<1>14. CacheInv'
  <2>1. /\ DOMAIN stored'.entries = DOMAIN stored.entries
        /\ \A i \in DOMAIN stored.entries :
             /\ stored'.entries[i].conv = stored.entries[i].conv
             /\ stored'.entries[i].ans = stored.entries[i].ans
             /\ stored.entries[i].stamp # Unstamped => stored'.entries[i].stamp = stored.entries[i].stamp
    <3>1. CASE proxy.old # <<>>
      BY <1>1, <1>3, <3>1
    <3>2. CASE proxy.old = <<>>
      <4>1. stored'.entries = done.entries
        BY <1>1, <1>3, <3>2
      <4> QED
        BY <1>2, <4>1
    <3> QED
      BY <3>1, <3>2
  <2>2. ASSUME NEW i \in DOMAIN stored'.entries
        PROVE  \E a \in answers' : Witness(stored'.entries[i], a)
    <3>1. PICK a \in answers : Witness(stored.entries[i], a)
      BY <2>1, <2>2 DEF CacheInv
    <3>2. Witness(stored'.entries[i], a)
      BY <2>1, <2>2, <3>1 DEF Witness
    <3> QED
      BY <1>1, <3>2
  <2> QED
    BY <2>2 DEF CacheInv
<1> QED
  BY <1>4, <1>5, <1>6, <1>7, <1>8, <1>10, <1>11, <1>12, <1>13, <1>14

-----------------------------------------------------------------------------
(* The theorems of the session *)

\* The invariant of a session, for any bounds.
LEMMA SessionInvHolds == GatewaySpec => []SessionInv
<1>1. GatewayInit => SessionInv
  <2> SUFFICES ASSUME GatewayInit PROVE SessionInv
    OBVIOUS
  <2> USE DEF GatewayInit
  <2>1. ReqTypes /\ ExecTypes
    BY EmptyTypes DEF ReqTypes, ExecTypes
  <2>2. HarnessTypes /\ harness.ph = "off"
    BY EmptyTypes DEF HarnessTypes, HarnessRecord, OffHarness
  <2>3. ProxyTypes /\ proxy.old = <<>> /\ proxy.limit = 0
    BY EmptyProxyIs DEF ProxyTypes
  <2>4. StoredTypes /\ stored.entries = <<>>
    <3>1. <<>> \in Seq(CacheEntry) /\ <<>> \in Seq(TraceStep)
      OBVIOUS
    <3> QED
      BY <3>1 DEF StoredTypes, NoCall
  <2>5. OtherTypes
    BY DEF OtherTypes, FileContents
  <2>6. PhaseInv
    BY <2>2 DEF PhaseInv, FreeReq, FreeExec
  <2>7. TapeInv
    BY <2>3 DEF TapeInv, FreeReq
  <2>8. RecordInv
    BY DEF RecordInv, FreeExec
  <2>9. OwedInv
    BY DEF OwedInv
  <2>10. CacheInv
    BY <2>4 DEF CacheInv
  <2> QED
    BY <2>1, <2>2, <2>3, <2>4, <2>5, <2>6, <2>7, <2>8, <2>9, <2>10 DEF SessionInv, SessionTypes
<1>2. SessionInv /\ [GatewayNext]_gatewayVars => SessionInv'
  <2> SUFFICES ASSUME SessionInv, [GatewayNext]_gatewayVars PROVE SessionInv'
    OBVIOUS
  <2>1. ASSUME GatewayNext PROVE SessionInv'
    <3>1. ASSUME NEW r \in Requests, Step(r) \/ CloseEarly(r) PROVE SessionInv'
      BY <3>1, OnBeforeMainRequestKeeps, AdmitTurnKeeps, HitKeeps, MissKeeps,
         ForwardToUpstreamKeeps,
         RequestFailsKeeps, TurnCompletedKeeps, CloseEarlyKeeps DEF Step
    <3>2. ASSUME NEW x \in Execs, CommandReads(x) \/ ExecReturns(x) \/ ExecThrows(x) PROVE SessionInv'
      BY <3>2, CommandReadsKeeps, ExecReturnsKeeps, ExecThrowsKeeps
    <3> QED
      BY <2>1, <3>1, <3>2, WrapAgentKeeps, ForkGatewayRunAtStepKeeps, HostCrashesKeeps,
         MarkInterruptedIfNeededKeeps, CleanExitKeeps, SendKeeps, GiveUpRequestKeeps, OnShellExecKeeps,
         GiveUpToolKeeps, EditKeeps DEF GatewayNext
  <2>2. CASE UNCHANGED gatewayVars
    BY <2>2 DEF gatewayVars, SessionInv, SessionTypes, ReqTypes, ExecTypes, HarnessTypes,
       ProxyTypes, StoredTypes,
       OtherTypes, PhaseInv, TapeInv, RecordInv, OwedInv, CacheInv, Witness, readGatewayInterruptedTool
  <2> QED
    BY <2>1, <2>2
<1> QED
  BY <1>1, <1>2, PTL DEF GatewaySpec

\* Which step takes a request up, and which answers it from the cache.
LEMMA WhoAdmits ==
  ASSUME SessionInv, [GatewayNext]_gatewayVars, NEW r \in Requests
  PROVE  /\ req[r].pc = "settled" /\ req'[r].pc = "admitted" => AdmitTurn(r)
         /\ req[r].pc = "admitted" /\ req'[r].pc = "hit" => Hit(r)
<1> DEFINE G == /\ req[r].pc = "settled" /\ req'[r].pc = "admitted" => AdmitTurn(r)
                /\ req[r].pc = "admitted" /\ req'[r].pc = "hit" => Hit(r)
           Moves(was, is) == \A q \in Requests : req'[q].pc = req[q].pc \/ (req[q].pc \in was /\ req'[q].pc \in is)
<1>0. req \in [Requests -> ReqRecord]
  BY DEF SessionInv, SessionTypes, ReqTypes
<1>1. CASE UNCHANGED gatewayVars
  BY <1>1 DEF gatewayVars
<1>2. ASSUME wrapAgent \/ forkGatewayRunAtStep \/ markInterruptedIfNeeded \/ onShellExec \/ GiveUpTool \/ Edit
      PROVE  G
  <2>1. UNCHANGED req
    BY <1>2 DEF wrapAgent, forkGatewayRunAtStep, Start, markInterruptedIfNeeded, onShellExec,
       GiveUpTool, Edit
  <2> QED
    BY <2>1
<1>3. ASSUME HostCrashes \/ CleanExit PROVE G
  <2>1. \A q \in Requests : req'[q].pc = "free"
    BY <1>3 DEF HostCrashes, CleanExit, Exits, FreeReq
  <2> QED
    BY <2>1
<1>4. ASSUME Send PROVE G
  <2>1. \A q \in Requests : req'[q].pc = req[q].pc \/ req'[q].pc = "arrived"
    BY <1>0, <1>4 DEF Send, FreeReq
  <2> QED
    BY <2>1
<1>5. ASSUME GiveUpRequest PROVE G
  <2>1. \A q \in Requests : req'[q].pc = req[q].pc
    BY <1>0, <1>5 DEF GiveUpRequest, ReqRecord
  <2> QED
    BY <2>1
<1>6. ASSUME NEW q \in Requests, Step(q) \/ CloseEarly(q) PROVE G
  <2>1. CASE AdmitTurn(q)
    <3>1. q # r => req'[r] = req[r]
      BY <1>0, <2>1 DEF AdmitTurn
    <3>2. req[q].pc = "settled" /\ req'[q].pc = "admitted"
      <4> DEFINE conv == Injected(req[q].conv, proxy.pending)
                 turn == IF conv \in DOMAIN proxy.turnOf THEN proxy.turnOf[conv] ELSE proxy.cursor
      <4>1. req' = [req EXCEPT ![q].pc = "admitted", ![q].conv = conv, ![q].turn = turn] /\ req[q].pc = "settled"
        BY <2>1 DEF AdmitTurn
      <4> HIDE DEF conv, turn
      <4> QED
        BY <1>0, <4>1 DEF ReqRecord
    <3> QED
      BY <2>1, <3>1, <3>2
  <2>2. CASE Hit(q)
    <3>1. q # r => req'[r] = req[r]
      BY <1>0, <2>2 DEF Hit
    <3>2. req[q].pc = "admitted" /\ req'[q].pc = "hit"
      BY <1>0, <2>2 DEF Hit, Ended, FreeReq
    <3> QED
      BY <2>2, <3>1, <3>2
  <2>3. CASE onBeforeMainRequest(q) \/ Miss(q) \/ RequestFails(q) \/ CloseEarly(q)
    <3>1. q # r => req'[r] = req[r]
      BY <1>0, <2>3 DEF onBeforeMainRequest, Miss, RequestFails, CloseEarly
    <3>2. req'[q].pc \in {"settled", "upstream", "failed", "streamed"}
      BY <1>0, <2>3 DEF onBeforeMainRequest, Miss, RequestFails, CloseEarly, Ended, FreeReq,
         ReqRecord
    <3> QED
      BY <3>1, <3>2
  <2>4. CASE forwardToUpstream(q)
    <3>1. q # r => req'[r] = req[r]
      BY <1>0, <2>4 DEF forwardToUpstream
    <3>2. req'[q].pc = "streamed"
      BY <1>0, <2>4 DEF forwardToUpstream, ReqRecord
    <3> QED
      BY <3>1, <3>2
  <2>5. CASE TurnCompleted(q)
    <3>1. req' = [req EXCEPT ![q] = Ended("over")]
      BY <2>5 DEF TurnCompleted
    <3>2. (q # r => req'[r] = req[r]) /\ req'[q].pc = "over"
      BY <1>0, <3>1 DEF Ended, FreeReq
    <3> QED
      BY <3>2
  <2> QED
    BY <1>6, <2>1, <2>2, <2>3, <2>4, <2>5 DEF Step
<1>7. ASSUME NEW x \in Execs, CommandReads(x) \/ ExecReturns(x) \/ ExecThrows(x) PROVE G
  <2>1. UNCHANGED req
    BY <1>7 DEF CommandReads, ExecReturns, ExecThrows
  <2> QED
    BY <2>1
<1> HIDE DEF G
<1>8. ASSUME GatewayNext PROVE G
  BY <1>2, <1>3, <1>4, <1>5, <1>6, <1>7, <1>8 DEF GatewayNext
<1> QED
  BY <1>1, <1>8 DEF G

\* A launch that died while a command ran is accounted for by the first
\* request the next one takes up (injectInterruptedToolAccount): what is owed
\* is in the record while no launch has written it, and in the memory of the
\* launch that is up.
THEOREM AccountsHold == GatewaySpec => CrashedToolAccounted
<1> DEFINE A(r) == req[r].pc = "settled" /\ req'[r].pc = "admitted" /\ owed # {} =>
                     \E i \in DOMAIN req'[r].conv : req'[r].conv[i].acc /\ req'[r].conv[i].id \in owed
<1>1. SessionInv /\ [GatewayNext]_gatewayVars => \A r \in Requests : A(r)
  <2> SUFFICES ASSUME SessionInv, [GatewayNext]_gatewayVars, NEW r \in Requests,
                      req[r].pc = "settled", req'[r].pc = "admitted", owed # {}
               PROVE  \E i \in DOMAIN req'[r].conv : req'[r].conv[i].acc /\ req'[r].conv[i].id \in owed
    OBVIOUS
  <2> DEFINE conv == Injected(req[r].conv, proxy.pending)
             turn == IF conv \in DOMAIN proxy.turnOf THEN proxy.turnOf[conv] ELSE proxy.cursor
  <2>1. AdmitTurn(r)
    BY WhoAdmits
  <2>2. req' = [req EXCEPT ![r].pc = "admitted", ![r].conv = conv, ![r].turn = turn]
    BY <2>1 DEF AdmitTurn
  <2>3. proxy.pending \in Int /\ req[r].conv \in Conversation /\ req \in [Requests -> ReqRecord]
    BY DEF SessionInv, SessionTypes, ProxyTypes, ProxyRecord, ReqTypes, ReqRecord
  <2>4. proxy.pending \in owed /\ proxy.pending # NoCall
    <3>1. host = "up"
      BY <2>1 DEF AdmitTurn, SessionInv, SessionTypes, PhaseInv, OtherTypes
    <3> QED
      BY <3>1 DEF SessionInv, OwedInv
  <2>5. \E i \in DOMAIN conv : conv[i].acc /\ conv[i].id = proxy.pending
    BY <2>3, <2>4, InjectedIs
  <2> HIDE DEF conv, turn
  <2>6. req'[r].conv = conv
    BY <2>2, <2>3 DEF ReqRecord
  <2> QED
    BY <2>4, <2>5, <2>6
<1> QED
  BY <1>1, SessionInvHolds, PTL DEF GatewaySpec, CrashedToolAccounted

\* A hit is fresh: the entry behind it is the upstream's answer to the same
\* calls, and its stamp, which the file still means, is of when it answered.
LEMMA FreshStep ==
  ASSUME SessionInv, [GatewayNext]_gatewayVars, NEW r \in Requests,
         req[r].pc = "admitted", req'[r].pc = "hit", req[r].turn >= proxy.limit
  PROVE  \E a \in answers : /\ a.ans = Last(proxy'.turns).ans
                            /\ CallsOf(a.conv) = CallsOf(req[r].conv)
                            /\ a.over = "unknown" \/ Sem[a.over] = Sem[file]
<1>1. Hit(r)
  BY WhoAdmits
<1>2. PICK c \in ToSet(lookup(req[r].turn, req[r].conv)) : Last(proxy'.turns).ans = c.ans
  BY <1>1, HitIs
<1>3. req[r].turn \in Nat
  BY DEF SessionInv, SessionTypes, ReqTypes, ReqRecord
<1>4. PICK i \in DOMAIN stored.entries :
        /\ c.ans = stored.entries[i].ans
        /\ CallsOf(stored.entries[i].conv) = CallsOf(req[r].conv)
        /\ ~ Stale(stored.entries[i])
  BY <1>2, <1>3, LookupIs DEF SessionInv
<1>5. PICK a \in answers : Witness(stored.entries[i], a)
  BY <1>4 DEF SessionInv, CacheInv
<1>6. a.ans = c.ans /\ a.conv = stored.entries[i].conv
  BY <1>4, <1>5 DEF Witness
<1>7. a.over = "unknown" \/ Sem[a.over] = Sem[file]
  BY <1>4, <1>5 DEF Witness, Stale
<1> QED
  BY <1>2, <1>4, <1>6, <1>7

\* What is answered without the upstream is what it would be asked for again:
\* lookup() serves what is fresh, and a fork asks nothing before its step.
THEOREM ReplayHolds == GatewaySpec => ReplayIsTrue
<1>1. SessionInv => GatewayTypes /\ ForkAsksNothing
  BY DEF SessionInv, SessionTypes, OtherTypes, HarnessTypes, HarnessRecord, ReqTypes, ReqRecord,
     ExecTypes, ExecRecord,
         PhaseInv, TapeInv, GatewayTypes, ForkAsksNothing
<1> DEFINE A(r) == req[r].pc = "admitted" /\ req'[r].pc = "hit" /\ req[r].turn >= proxy.limit =>
                      \E a \in answers : /\ a.ans = Last(proxy'.turns).ans
                                         /\ CallsOf(a.conv) = CallsOf(req[r].conv)
                                         /\ a.over = "unknown" \/ Sem[a.over] = Sem[file]
<1>2. SessionInv /\ [GatewayNext]_gatewayVars => \A r \in Requests : A(r)
  BY FreshStep
<1> QED
  BY <1>1, <1>2, SessionInvHolds, PTL DEF GatewaySpec, ReplayIsTrue, HitIsFresh
=============================================================================
