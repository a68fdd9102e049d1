------------------------ MODULE ResourceArbiterProofs ------------------------
(***************************************************************************)
(* Proofs about ResourceArbiter for any operations, runs and resources:    *)
(* type correctness, and that isolation survives every grant, release,     *)
(* cancellation, refusal, crash and rebuild.                               *)
(***************************************************************************)
EXTENDS ResourceArbiter, SequenceTheorems, FiniteSetTheorems, TLAPS

\* splice(i, 1) returns a queue that is one shorter.
LEMMA RemoveAtType ==
  ASSUME NEW S, NEW s \in Seq(S), NEW i \in DOMAIN s
  PROVE  RemoveAt(s, i) \in Seq(S) /\ Len(RemoveAt(s, i)) = Len(s) - 1
<1>1. Len(s) \in Nat /\ DOMAIN s = 1 .. Len(s) /\ Len(s) - 1 \in Nat
  BY LenProperties
<1>2. RemoveAt(s, i) \in [1 .. Len(s) - 1 -> S]
  BY <1>1, ElementOfSeq DEF RemoveAt
<1>3. RemoveAt(s, i) \in Seq(S)
  BY <1>1, <1>2, SeqDef
<1>4. DOMAIN RemoveAt(s, i) = 1 .. Len(s) - 1
  BY DEF RemoveAt
<1>5. Len(RemoveAt(s, i)) \in Nat /\ DOMAIN RemoveAt(s, i) = 1 .. Len(RemoveAt(s, i))
  BY <1>3, LenProperties
<1>6. ASSUME NEW m \in Nat, NEW n \in Nat, 1 .. m = 1 .. n PROVE m = n
  <2>1. CASE m < n
    <3>1. n \in 1 .. n /\ n \notin 1 .. m
      BY <2>1
    <3> QED
      BY <1>6, <3>1
  <2>2. CASE n < m
    <3>1. m \in 1 .. m /\ m \notin 1 .. n
      BY <2>2
    <3> QED
      BY <1>6, <3>1
  <2> QED
    BY <2>1, <2>2
<1> QED
  BY <1>1, <1>3, <1>4, <1>5, <1>6

\* Taking an operation out of the queue leaves a queue.
LEMMA WithoutType ==
  ASSUME NEW S, NEW s \in Seq(S), NEW o
  PROVE  Without(s, o) \in Seq(S)
<1>1. CASE \E i \in DOMAIN s : s[i] = o
  BY <1>1, RemoveAtType DEF Without
<1>2. CASE ~ \E i \in DOMAIN s : s[i] = o
  BY <1>2 DEF Without
<1> QED
  BY <1>1, <1>2

\* The part of the type invariant without the queue and its scan.
TableOK ==
    /\ locked \in [Resource -> Op \cup {NoOp}]
    /\ allocated \in SUBSET Op
    /\ needs \in [Op -> SUBSET Resource]
    /\ stage \in [Op -> Stage]
    /\ cancelled \in SUBSET Op
    /\ leases \in SUBSET (Resource \X Op)
    /\ adjudicated \in SUBSET Op
    /\ openRuns \in SUBSET Run

\* The queue and the position of processWaitQueue in it.
QueueOK ==
    /\ queue \in Seq(Op)
    /\ scanAt \in 0 .. Len(queue) + 1
    /\ reserved \in SUBSET Resource
    /\ capped \in BOOLEAN /\ fenced \in BOOLEAN

\* A release keeps the types of what it changes.
LEMMA ReleaseType ==
  ASSUME TableOK, NEW o \in Op, Release(o)
  PROVE  /\ locked' \in [Resource -> Op \cup {NoOp}]
         /\ allocated' \in SUBSET Op
         /\ leases' \in SUBSET (Resource \X Op)
  BY DEF TableOK, Release

\* So does a grant.
LEMMA GrantType ==
  ASSUME TableOK, NEW o \in Op, NEW res \in SUBSET Resource, Grant(o, res)
  PROVE  /\ locked' \in [Resource -> Op \cup {NoOp}]
         /\ allocated' \in SUBSET Op
  BY DEF TableOK, Grant

\* So does a rebuild from rows and unfinished operations of the store.
LEMMA RebuildType ==
  ASSUME TableOK, NEW rows \in SUBSET (Resource \X Op), NEW unfinished \in SUBSET Op,
         Rebuild(rows, unfinished)
  PROVE  /\ locked' \in [Resource -> Op \cup {NoOp}]
         /\ allocated' \in SUBSET Op
<1>1. \A l \in rows : l[2] \in Op
  OBVIOUS
<1>2. ASSUME NEW r \in Resource, \E o \in unfinished : r \in needs[o]
      PROVE  (CHOOSE o \in unfinished : r \in needs[o]) \in Op
  BY <1>2
<1>3. ASSUME NEW r \in Resource, \E l \in rows : l[1] = r
      PROVE  (CHOOSE l \in rows : l[1] = r)[2] \in Op
  BY <1>1, <1>3
<1> QED
  BY <1>2, <1>3 DEF Rebuild

\* A scan starts inside the queue.
LEMMA StartScanType ==
  ASSUME QueueOK, StartScan
  PROVE  scanAt' \in 0 .. Len(queue) + 1 /\ reserved' \in SUBSET Resource
         /\ capped' \in BOOLEAN
<1>1. Len(queue) \in Nat
  BY LenProperties DEF QueueOK
<1>2. scanAt' \in 0 .. Len(queue) + 1
  BY <1>1 DEF StartScan
<1> QED
  BY <1>2 DEF StartScan

\* The initial states are well typed.
LEMMA TypeInit == Init => TableOK /\ QueueOK
<1> SUFFICES ASSUME Init PROVE TableOK /\ QueueOK
  OBVIOUS
<1>1. TableOK
  BY DEF Init, TableOK, Stage
<1>2. queue \in Seq(Op) /\ Len(queue) = 0
  BY EmptySeq DEF Init
<1>3. scanAt \in 0 .. Len(queue) + 1
  BY <1>2 DEF Init
<1>4. QueueOK
  BY <1>2, <1>3 DEF Init, QueueOK
<1> QED
  BY <1>1, <1>4

\* One step of the scan.
LEMMA ScanType ==
  ASSUME TableOK, QueueOK, Scan
  PROVE  TableOK' /\ QueueOK'
<1>1. /\ scanAt \in DOMAIN queue /\ DOMAIN queue = 1 .. Len(queue) /\ Len(queue) \in Nat
      /\ queue[scanAt] \in Op
  BY LenProperties, ElementOfSeq DEF QueueOK, Scan
<1>2. CASE ScanSkip
  <2>1. TableOK'
    BY <1>2 DEF TableOK, Scan, ScanSkip
  <2>2. reserved' \in SUBSET Resource
    BY <1>1, <1>2 DEF TableOK, QueueOK, ScanSkip
  <2>3. scanAt' \in 0 .. Len(queue') + 1
    BY <1>1, <1>2 DEF ScanSkip
  <2>4. capped' \in BOOLEAN
    BY <1>2, Zenon DEF QueueOK, ScanSkip
  <2> QED
    BY <1>2, <2>1, <2>2, <2>3, <2>4 DEF QueueOK, Scan, ScanSkip
<1>3. CASE ScanGrant
  <2>1. /\ locked' \in [Resource -> Op \cup {NoOp}] /\ allocated' \in SUBSET Op
    BY <1>1, <1>3, GrantType DEF TableOK, ScanGrant
  <2>2. stage' \in [Op -> Stage]
    BY <1>1, <1>3 DEF TableOK, ScanGrant, Stage
  <2>3. queue' \in Seq(Op) /\ Len(queue') = Len(queue) - 1
    BY <1>1, <1>3, RemoveAtType DEF QueueOK, ScanGrant
  <2>4. scanAt' \in 0 .. Len(queue') + 1
    BY <1>1, <1>3, <2>3 DEF ScanGrant
  <2> QED
    BY <1>3, <2>1, <2>2, <2>3, <2>4 DEF TableOK, QueueOK, Scan, ScanGrant
<1> QED
  BY <1>2, <1>3 DEF Scan

\* The state a crash leaves is well typed.
LEMMA CrashType ==
  ASSUME TableOK, NEW rows \in SUBSET (Resource \X Op), Rebuild(rows, UnfinishedOps),
         stage' = StageAfterCrash, queue' = <<>>, scanAt' = 0, reserved' = {},
         capped' = FALSE, cancelled' = {}, fenced' = FALSE, needs' = needs,
         openRuns' = openRuns, leases' = rows, adjudicated' \in SUBSET Op
  PROVE  TableOK' /\ QueueOK'
<1>1. UnfinishedOps \in SUBSET Op
  BY DEF UnfinishedOps
<1>2. locked' \in [Resource -> Op \cup {NoOp}] /\ allocated' \in SUBSET Op
  BY <1>1, RebuildType
<1>3. stage' \in [Op -> Stage]
  BY DEF TableOK, StageAfterCrash, Stage
<1>4. TableOK'
  BY <1>2, <1>3 DEF TableOK
<1>5. queue' \in Seq(Op) /\ Len(queue') = 0
  BY EmptySeq
<1>6. scanAt' \in 0 .. Len(queue') + 1
  BY <1>5
<1> QED
  BY <1>4, <1>5, <1>6 DEF QueueOK

\* Every step keeps the types.
LEMMA TypeNext == TableOK /\ QueueOK /\ [Next]_vars => TableOK' /\ QueueOK'
<1> SUFFICES ASSUME TableOK, QueueOK, [Next]_vars PROVE TableOK' /\ QueueOK'
  OBVIOUS
<1>0. queue \in Seq(Op) /\ Len(queue) \in Nat
  BY LenProperties DEF QueueOK
<1>1. CASE UNCHANGED vars
  BY <1>1 DEF vars, memory, TableOK, QueueOK
<1>2. ASSUME NEW o \in Op, Submit(o) PROVE TableOK' /\ QueueOK'
  <2>1. PICK res \in SUBSET Resource :
            \/ SubmitAborted(o, res)
            \/ SubmitGranted(o, res)
            \/ \E waits \in BOOLEAN : SubmitBlocked(o, res, waits)
    BY <1>2 DEF Submit
  <2>2. CASE SubmitAborted(o, res)
    <3>1. TableOK'
      BY <2>2 DEF SubmitAborted, TableOK, Stage
    <3> QED
      BY <2>2, <3>1 DEF SubmitAborted, QueueOK
  <2>3. CASE SubmitGranted(o, res)
    <3>1. locked' \in [Resource -> Op \cup {NoOp}] /\ allocated' \in SUBSET Op
      BY <2>3, GrantType DEF SubmitGranted
    <3>2. TableOK'
      BY <2>3, <3>1 DEF SubmitGranted, TableOK, Stage
    <3> QED
      BY <2>3, <3>2 DEF SubmitGranted, QueueOK
  <2>4. ASSUME NEW waits \in BOOLEAN, SubmitBlocked(o, res, waits) PROVE TableOK' /\ QueueOK'
    <3>1. TableOK'
      BY <2>4 DEF SubmitBlocked, TableOK, Stage
    <3>2. queue' \in Seq(Op) /\ scanAt' \in 0 .. Len(queue') + 1
      BY <2>4, <1>0, AppendProperties DEF SubmitBlocked, QueueOK, Idle
    <3> QED
      BY <2>4, <3>1, <3>2 DEF SubmitBlocked, QueueOK
  <2> QED
    BY <2>1, <2>2, <2>3, <2>4
<1>3. ASSUME NEW o \in Op, Resume(o) PROVE TableOK' /\ QueueOK'
  <2>1. CASE RegisterIntent(o)
    <3>1. leases' \in SUBSET (Resource \X Op)
      BY <2>1 DEF RegisterIntent, TableOK
    <3>2. TableOK'
      BY <2>1, <3>1 DEF RegisterIntent, memory, TableOK, Stage
    <3> QED
      BY <2>1, <3>2 DEF RegisterIntent, memory, QueueOK
  <2>2. CASE RegisterRefused(o)
    <3>1. TableOK'
      BY <2>2, ReleaseType DEF RegisterRefused, TableOK, Stage
    <3> QED
      BY <2>2, <3>1, StartScanType DEF RegisterRefused, QueueOK
  <2>3. CASE CancelBeforeIntent(o)
    <3>1. TableOK'
      BY <2>3, ReleaseType DEF CancelBeforeIntent, TableOK, Stage
    <3> QED
      BY <2>3, <3>1, StartScanType DEF CancelBeforeIntent, QueueOK
  <2>4. CASE CancelRefused(o)
    BY <2>4 DEF CancelRefused, memory, TableOK, QueueOK, Stage
  <2>5. CASE ResumeFenced(o)
    BY <2>5 DEF ResumeFenced, memory, TableOK, QueueOK, Stage
  <2> QED
    BY <1>3, <2>1, <2>2, <2>3, <2>4, <2>5 DEF Resume
<1>4. ASSUME NEW o \in Op, Settle(o) PROVE TableOK' /\ QueueOK'
  <2>1. TableOK'
    BY <1>4, ReleaseType DEF Settle, TableOK, Stage
  <2> QED
    BY <1>4, <2>1, StartScanType DEF Settle, QueueOK
<1>5. ASSUME NEW o \in Op, Isolate(o) PROVE TableOK' /\ QueueOK'
  BY <1>5 DEF Isolate, memory, TableOK, QueueOK, Stage
<1>6. ASSUME NEW o \in Op, Adjudicate(o) PROVE TableOK' /\ QueueOK'
  <2>1. TableOK'
    BY <1>6, ReleaseType DEF Adjudicate, TableOK
  <2> QED
    BY <1>6, <2>1, StartScanType DEF Adjudicate, QueueOK
<1>7. ASSUME NEW o \in Op, Cancel(o) PROVE TableOK' /\ QueueOK'
  <2>1. TableOK'
    BY <1>7 DEF Cancel, TableOK, Stage
  <2>2. queue' \in Seq(Op) /\ scanAt' = 0
    BY <1>7, <1>0, WithoutType DEF Cancel, Idle
  <2>3. scanAt' \in 0 .. Len(queue') + 1
    BY <2>2, LenProperties
  <2> QED
    BY <1>7, <2>1, <2>2, <2>3 DEF Cancel, QueueOK
<1>8. ASSUME NEW o \in Op, WaitTimeout(o) PROVE TableOK' /\ QueueOK'
  <2>1. TableOK'
    BY <1>8 DEF WaitTimeout, TableOK, Stage
  <2>2. queue' \in Seq(Op) /\ scanAt' = 0
    BY <1>8, <1>0, WithoutType DEF WaitTimeout, Idle
  <2>3. scanAt' \in 0 .. Len(queue') + 1
    BY <2>2, LenProperties
  <2> QED
    BY <1>8, <2>1, <2>2, <2>3 DEF WaitTimeout, QueueOK
<1>9. CASE Scan
  BY <1>9, ScanType
<1>10. CASE ScanEnd
  <2>1. TableOK'
    BY <1>10 DEF ScanEnd, TableOK
  <2>2. scanAt' \in 0 .. Len(queue') + 1
    BY <1>10, <1>0 DEF ScanEnd
  <2> QED
    BY <1>10, <2>1, <2>2 DEF ScanEnd, QueueOK
<1>11. ASSUME NEW u \in Run, CloseRun(u) PROVE TableOK' /\ QueueOK'
  BY <1>11 DEF CloseRun, memory, TableOK, QueueOK
<1>12. CASE Fence
  BY <1>12 DEF Fence, TableOK, QueueOK
<1>13. CASE Restart
  <2>1. leases \in SUBSET (Resource \X Op) /\ adjudicated' \in SUBSET Op /\ leases' = leases
    BY <1>13 DEF Restart, TableOK
  <2> QED
    BY <1>13, <2>1, CrashType DEF Restart
<1>14. ASSUME NEW o \in Op, NEW kept \in SUBSET Resource, AdjudicateCrash(o, kept)
       PROVE  TableOK' /\ QueueOK'
  <2> DEFINE rows == {l \in leases : l[2] = o => l[1] \in kept}
  <2>1. rows \in SUBSET (Resource \X Op) /\ adjudicated' \in SUBSET Op
    BY <1>14 DEF AdjudicateCrash, TableOK
  <2>2. leases' = rows /\ Rebuild(rows, UnfinishedOps)
    BY <1>14 DEF AdjudicateCrash
  <2> QED
    BY <1>14, <2>1, <2>2, CrashType DEF AdjudicateCrash
<1> QED
  BY <1>1, <1>2, <1>3, <1>4, <1>5, <1>6, <1>7, <1>8, <1>9, <1>10, <1>11, <1>12, <1>13,
     <1>14 DEF Next

\* Every reachable state of the arbiter is well typed; in particular the index of
\* processWaitQueue never runs past the end of a queue it shortens while it scans.
THEOREM TypeCorrect == Spec => []TypeOK
<1>1. TableOK /\ QueueOK => TypeOK
  BY DEF TableOK, QueueOK, TypeOK
<1> QED
  BY <1>1, TypeInit, TypeNext, PTL DEF Spec

-----------------------------------------------------------------------------
\* Isolation.

\* A granted operation that has not registered its intent yet, and was not
\* cancelled, holds what it needs: RegisterIntent relies on it.
GrantInv ==
    \A o \in Op : stage[o] = "resumed" /\ o \notin cancelled =>
        \A r \in needs[o] : locked[r] = o

\* What an unsettled operation needs is leased to it.
LeaseInv == \A o \in Op : Unsettled(o) => \A r \in needs[o] : <<r, o>> \in leases

\* The inductive invariant.
IInv == TableOK /\ QueueOK /\ LeaseNamesHolder /\ GrantInv /\ LeaseInv

\* The lease and the table together give isolation.
LEMMA InvImpliesIsolation == IInv => IsolationHeld
  BY DEF IInv, TableOK, LeaseNamesHolder, LeaseInv, IsolationHeld

\* A grant takes no resource from a holder: the request met none.
LEMMA GrantSafe ==
  ASSUME TableOK, LeaseNamesHolder, NEW o \in Op, NEW res \in SUBSET Resource,
         \A r \in res : locked[r] \in {NoOp, o}, Grant(o, res)
  PROVE  /\ \A l \in leases : locked'[l[1]] = l[2]
         /\ \A r \in Resource, p \in Op : locked[r] = p => locked'[r] = p
         /\ \A r \in res : locked'[r] = o
<1>1. ASSUME NEW r \in Resource, NEW p \in Op, locked[r] = p PROVE locked'[r] = p
  BY <1>1, ArbiterAssumption DEF Grant
<1>2. ASSUME NEW l \in leases PROVE locked'[l[1]] = l[2]
  <2>1. l[1] \in Resource /\ l[2] \in Op /\ locked[l[1]] = l[2]
    BY <1>2 DEF TableOK, LeaseNamesHolder
  <2> QED
    BY <1>1, <2>1
<1>3. \A r \in res : locked'[r] = o
  BY DEF Grant
<1> QED
  BY <1>1, <1>2, <1>3

\* A release frees only what its operation holds, although it trusts the rows.
LEMMA ReleaseSafe ==
  ASSUME TableOK, LeaseNamesHolder, NEW o \in Op, Release(o)
  PROVE  /\ \A l \in leases' : locked'[l[1]] = l[2]
         /\ \A r \in Resource, p \in Op \ {o} : locked[r] = p => locked'[r] = p
         /\ \A r \in Resource, p \in Op \ {o} : <<r, p>> \in leases => <<r, p>> \in leases'
<1>1. ASSUME NEW r \in Resource, NEW p \in Op \ {o}, locked[r] = p PROVE locked'[r] = p
  <2>1. <<r, o>> \notin leases
    BY <1>1 DEF LeaseNamesHolder
  <2> QED
    BY <1>1, <2>1 DEF Release
<1>2. ASSUME NEW l \in leases' PROVE locked'[l[1]] = l[2]
  <2>1. l \in leases /\ l[2] # o /\ l[1] \in Resource /\ l[2] \in Op
    BY <1>2 DEF Release, TableOK
  <2>2. locked[l[1]] = l[2]
    BY <2>1 DEF LeaseNamesHolder
  <2> QED
    BY <1>1, <2>1, <2>2
<1>3. \A r \in Resource, p \in Op \ {o} : <<r, p>> \in leases => <<r, p>> \in leases'
  BY DEF Release
<1> QED
  BY <1>1, <1>2, <1>3

\* The rebuilt table agrees with the lost one on every leased resource.
LEMMA RebuildSafe ==
  ASSUME IInv, NEW rows \in SUBSET leases, Rebuild(rows, UnfinishedOps)
  PROVE  \A l \in rows : locked'[l[1]] = l[2]
<1> SUFFICES ASSUME NEW l \in rows PROVE locked'[l[1]] = l[2]
  OBVIOUS
<1> DEFINE r == l[1]
<1>1. r \in Resource /\ l[2] \in Op /\ locked[r] = l[2]
  BY DEF IInv, TableOK, LeaseNamesHolder
<1>2. CASE \E o \in UnfinishedOps : r \in needs[o]
  <2> DEFINE o == CHOOSE o \in UnfinishedOps : r \in needs[o]
  <2>1. o \in UnfinishedOps /\ r \in needs[o]
    BY <1>2
  <2>2. o \in Op /\ Unsettled(o)
    BY <2>1 DEF UnfinishedOps, Unsettled
  <2>3. locked[r] = o
    BY <2>1, <2>2, InvImpliesIsolation DEF IsolationHeld
  <2>4. locked'[r] = o
    BY <1>1, <1>2 DEF Rebuild
  <2> QED
    BY <1>1, <2>3, <2>4
<1>3. CASE ~ \E o \in UnfinishedOps : r \in needs[o]
  <2> DEFINE k == CHOOSE k \in rows : k[1] = r
  <2>1. k \in rows /\ k[1] = r
    OBVIOUS
  <2>2. locked[r] = k[2]
    BY <2>1 DEF IInv, LeaseNamesHolder
  <2>3. locked'[r] = k[2]
    BY <1>1, <1>3 DEF Rebuild
  <2> QED
    BY <1>1, <2>2, <2>3
<1> QED
  BY <1>2, <1>3

\* The invariant holds initially.
LEMMA InvInit == Init => IInv
<1> SUFFICES ASSUME Init PROVE IInv
  OBVIOUS
<1>1. LeaseNamesHolder /\ GrantInv /\ LeaseInv
  BY DEF Init, LeaseNamesHolder, GrantInv, LeaseInv, Unsettled
<1> QED
  BY <1>1, TypeInit DEF IInv

\* A step that releases the resources of an operation and ends it.
LEMMA ReleaseInv ==
  ASSUME IInv, NEW o \in Op, Release(o), UNCHANGED <<needs, cancelled>>,
         \A p \in Op \ {o} : stage'[p] = stage[p]
                              /\ (p \in adjudicated' <=> p \in adjudicated),
         stage'[o] # "resumed", ~Unsettled(o)'
  PROVE  LeaseNamesHolder' /\ GrantInv' /\ LeaseInv'
<1>1. LeaseNamesHolder'
  BY ReleaseSafe DEF IInv, LeaseNamesHolder
<1>2. GrantInv'
  BY ReleaseSafe DEF IInv, GrantInv, TableOK
<1>3. LeaseInv'
  BY ReleaseSafe DEF IInv, LeaseInv, TableOK, Unsettled
<1> QED
  BY <1>1, <1>2, <1>3

\* A step that changes neither the table nor the leases, where nothing but an
\* operation that needs no protection changes its stage.
LEMMA QuietInv ==
  ASSUME IInv, UNCHANGED <<locked, leases, needs>>,
         \A p \in Op : Unsettled(p)' => Unsettled(p),
         \A p \in Op : stage'[p] = "resumed" /\ p \notin cancelled' =>
             stage[p] = "resumed" /\ p \notin cancelled
  PROVE  LeaseNamesHolder' /\ GrantInv' /\ LeaseInv'
<1>1. LeaseNamesHolder'
  BY DEF IInv, LeaseNamesHolder
<1>2. ASSUME NEW p \in Op, stage'[p] = "resumed", p \notin cancelled', NEW r \in needs'[p]
      PROVE  locked'[r] = p
  <2>1. stage[p] = "resumed" /\ p \notin cancelled
    BY <1>2
  <2> QED
    BY <1>2, <2>1 DEF IInv, GrantInv
<1>3. ASSUME NEW p \in Op, Unsettled(p)', NEW r \in needs'[p] PROVE <<r, p>> \in leases'
  <2>1. Unsettled(p)
    BY <1>3
  <2> QED
    BY <1>3, <2>1 DEF IInv, LeaseInv
<1> QED
  BY <1>1, <1>2, <1>3 DEF GrantInv, LeaseInv

\* A crash: the waiting callers are gone, the rest keeps its leases.
LEMMA CrashInv ==
  ASSUME IInv, NEW rows \in SUBSET leases, Rebuild(rows, UnfinishedOps),
         leases' = rows, stage' = StageAfterCrash, needs' = needs,
         adjudicated \subseteq adjudicated',
         \A l \in leases : l \in rows \/ (l[2] \in adjudicated' /\ stage[l[2]] = "indeterminate")
  PROVE  LeaseNamesHolder' /\ GrantInv' /\ LeaseInv'
<1>1. LeaseNamesHolder'
  BY RebuildSafe DEF LeaseNamesHolder
<1>2. \A o \in Op : stage'[o] # "resumed" /\ (Unsettled(o)' => Unsettled(o))
  BY DEF StageAfterCrash, Unsettled
<1>3. GrantInv'
  BY <1>2 DEF GrantInv
<1>4. ASSUME NEW o \in Op, Unsettled(o)', NEW r \in needs'[o] PROVE <<r, o>> \in leases'
  <2>1. <<r, o>> \in leases
    BY <1>2, <1>4 DEF IInv, LeaseInv
  <2>2. ~(o \in adjudicated' /\ stage[o] = "indeterminate")
    BY <1>4 DEF StageAfterCrash, Unsettled
  <2> QED
    BY <2>1, <2>2
<1> QED
  BY <1>1, <1>3, <1>4 DEF LeaseInv

\* Every step preserves the invariant.
LEMMA InvNext == IInv /\ [Next]_vars => IInv'
<1> SUFFICES ASSUME IInv, [Next]_vars PROVE IInv'
  OBVIOUS
<1> DEFINE Goal == LeaseNamesHolder' /\ GrantInv' /\ LeaseInv'
<1>0. TableOK' /\ QueueOK' /\ TableOK /\ QueueOK
  BY TypeNext DEF IInv
<1>1. CASE UNCHANGED vars
  <2>1. Goal
    BY <1>1, QuietInv DEF vars, memory, Unsettled
  <2> QED
    BY <1>0, <2>1 DEF IInv
<1>2. ASSUME NEW o \in Op, NEW res \in SUBSET Resource, SubmitAborted(o, res) PROVE Goal
  BY <1>0, <1>2 DEF SubmitAborted, IInv, TableOK, LeaseNamesHolder, GrantInv, LeaseInv,
                    Unsettled
<1>3. ASSUME NEW o \in Op, NEW res \in SUBSET Resource, SubmitGranted(o, res) PROVE Goal
  <2>1. /\ \A l \in leases : locked'[l[1]] = l[2]
        /\ \A r \in Resource, p \in Op : locked[r] = p => locked'[r] = p
        /\ \A r \in res : locked'[r] = o
    BY <1>0, <1>3, GrantSafe DEF SubmitGranted, IInv
  <2>2. LeaseNamesHolder'
    BY <1>3, <2>1 DEF SubmitGranted, LeaseNamesHolder
  <2>3. GrantInv'
    BY <1>0, <1>3, <2>1 DEF SubmitGranted, IInv, GrantInv, TableOK
  <2>4. LeaseInv'
    BY <1>0, <1>3 DEF SubmitGranted, IInv, LeaseInv, TableOK, Unsettled
  <2> QED
    BY <2>2, <2>3, <2>4
<1>4. ASSUME NEW o \in Op, NEW res \in SUBSET Resource, NEW waits \in BOOLEAN,
             SubmitBlocked(o, res, waits)
      PROVE  Goal
  BY <1>0, <1>4 DEF SubmitBlocked, IInv, TableOK, LeaseNamesHolder, GrantInv, LeaseInv,
                    Unsettled
<1>5. ASSUME NEW o \in Op, RegisterIntent(o) PROVE Goal
  <2>1. \A r \in needs[o] : r \in Resource /\ locked[r] = o
    BY <1>0, <1>5 DEF RegisterIntent, IInv, GrantInv, TableOK
  <2>2. LeaseNamesHolder'
    BY <1>5, <2>1 DEF RegisterIntent, memory, IInv, LeaseNamesHolder
  <2>3. GrantInv'
    BY <1>0, <1>5 DEF RegisterIntent, memory, IInv, GrantInv, TableOK
  <2>4. LeaseInv'
    BY <1>0, <1>5 DEF RegisterIntent, memory, IInv, LeaseInv, TableOK, Unsettled
  <2> QED
    BY <2>2, <2>3, <2>4
<1>6. ASSUME NEW o \in Op, RegisterRefused(o) PROVE Goal
  BY <1>0, <1>6, ReleaseInv DEF RegisterRefused, TableOK, Unsettled
<1>7. ASSUME NEW o \in Op, CancelBeforeIntent(o) PROVE Goal
  BY <1>0, <1>7, ReleaseInv DEF CancelBeforeIntent, TableOK, Unsettled
<1>8. ASSUME NEW o \in Op, CancelRefused(o) PROVE Goal
  BY <1>0, <1>8, QuietInv DEF CancelRefused, memory, TableOK, Unsettled
<1>9. ASSUME NEW o \in Op, ResumeFenced(o) PROVE Goal
  BY <1>0, <1>9, QuietInv DEF ResumeFenced, memory, TableOK, Unsettled
<1>10. ASSUME NEW o \in Op, Settle(o) PROVE Goal
  BY <1>0, <1>10, ReleaseInv DEF Settle, TableOK, Unsettled
<1>11. ASSUME NEW o \in Op, Isolate(o) PROVE Goal
  BY <1>0, <1>11, QuietInv DEF Isolate, memory, TableOK, Unsettled
<1>12. ASSUME NEW o \in Op, Adjudicate(o) PROVE Goal
  BY <1>0, <1>12, ReleaseInv DEF Adjudicate, TableOK, Unsettled
<1>13. ASSUME NEW o \in Op, Cancel(o) PROVE Goal
  BY <1>0, <1>13, QuietInv DEF Cancel, TableOK, Unsettled
<1>14. ASSUME NEW o \in Op, WaitTimeout(o) PROVE Goal
  BY <1>0, <1>14, QuietInv DEF WaitTimeout, TableOK, Unsettled
<1>15. ASSUME Scan PROVE Goal
  <2>1. CASE ScanSkip
    BY <1>15, <2>1, <1>0, QuietInv DEF Scan, ScanSkip, Unsettled
  <2>2. CASE ScanGrant
    <3> DEFINE o == queue[scanAt]
    <3>1. o \in Op /\ needs[o] \in SUBSET Resource
      BY <1>0, <1>15, ElementOfSeq, LenProperties DEF Scan, QueueOK, TableOK
    <3>2. /\ \A l \in leases : locked'[l[1]] = l[2]
          /\ \A r \in Resource, p \in Op : locked[r] = p => locked'[r] = p
          /\ \A r \in needs[o] : locked'[r] = o
      BY <1>0, <2>2, <3>1, GrantSafe DEF ScanGrant, ConflictFree, IInv
    <3>3. UNCHANGED <<needs, cancelled, leases, adjudicated>>
          /\ stage' = [stage EXCEPT ![o] = "resumed"]
      BY <1>15, <2>2 DEF Scan, ScanGrant
    <3> HIDE DEF o
    <3>4. LeaseNamesHolder'
      BY <3>2, <3>3 DEF LeaseNamesHolder
    <3>5. GrantInv'
      BY <1>0, <3>1, <3>2, <3>3 DEF IInv, GrantInv, TableOK
    <3>6. LeaseInv'
      BY <1>0, <3>1, <3>3 DEF IInv, LeaseInv, TableOK, Unsettled
    <3> QED
      BY <3>4, <3>5, <3>6
  <2> QED
    BY <1>15, <2>1, <2>2 DEF Scan
<1>16. ASSUME ScanEnd PROVE Goal
  BY <1>16, QuietInv DEF ScanEnd, Unsettled
<1>17. ASSUME NEW u \in Run, CloseRun(u) PROVE Goal
  BY <1>17, QuietInv DEF CloseRun, memory, Unsettled
<1>18. ASSUME Fence PROVE Goal
  BY <1>18, QuietInv DEF Fence, Unsettled
<1>19. ASSUME Restart PROVE Goal
  BY <1>19, CrashInv DEF Restart
<1>20. ASSUME NEW o \in Op, NEW kept \in SUBSET Resource, AdjudicateCrash(o, kept) PROVE Goal
  <2> DEFINE rows == {l \in leases : l[2] = o => l[1] \in kept}
  <2>1. rows \in SUBSET leases /\ leases' = rows /\ Rebuild(rows, UnfinishedOps)
    BY <1>20 DEF AdjudicateCrash
  <2>2. \A l \in leases : l \in rows \/ (l[2] \in adjudicated' /\ stage[l[2]] = "indeterminate")
    BY <1>20 DEF AdjudicateCrash
  <2> QED
    BY <1>20, <2>1, <2>2, CrashInv DEF AdjudicateCrash
<1>21. CASE Next
  <2>1. Goal
    BY <1>2, <1>3, <1>4, <1>5, <1>6, <1>7, <1>8, <1>9, <1>10, <1>11, <1>12, <1>13,
       <1>14,
       <1>15, <1>16, <1>17, <1>18, <1>19, <1>20, <1>21 DEF Next, Submit, Resume
  <2> QED
    BY <1>0, <2>1 DEF IInv
<1> QED
  BY <1>1, <1>21

\* Isolation, for any operations and resources: while an operation may still have
\* effects, the table names it as the holder of all it declared and the store
\* keeps its leases, through every crash and rebuild.
THEOREM Isolation == Spec => []IsolationHeld
  BY InvInit, InvNext, InvImpliesIsolation, PTL DEF Spec

\* A lease in the store is never contradicted by the table.
THEOREM LeasesAgree == Spec => []LeaseNamesHolder
<1>1. IInv => LeaseNamesHolder
  BY DEF IInv
<1> QED
  BY <1>1, InvInit, InvNext, PTL DEF Spec

-----------------------------------------------------------------------------
\* Admission.

\* No operation is in the queue twice.
Distinct(s) == \A i, j \in DOMAIN s : s[i] = s[j] => i = j

\* The queue holds waiting operations, each once: what Without takes out is out.
QueueInv == Distinct(queue) /\ \A i \in DOMAIN queue : stage[queue[i]] = "queued"

\* An operation counts against the cap from its grant on, never while it waits.
AllocInv ==
    /\ \A o \in allocated : stage[o] \notin {"idle", "queued"}
    /\ \A o \in Op : stage[o] = "resumed" /\ o \notin cancelled => o \in allocated

\* What a pass of processWaitQueue carries along: the resources of exactly the
\* waiters it has passed over, and that the cap is reached when it says so.
ScanInv ==
    scanAt # 0 =>
        /\ \A j \in DOMAIN queue : j < scanAt => needs[queue[j]] \subseteq reserved
        /\ \A r \in reserved :
               \E j \in DOMAIN queue : j < scanAt /\ r \in needs[queue[j]]
        /\ capped => MaxConcurrentOps # 0 /\ Cardinality(ActiveOps) >= MaxConcurrentOps

\* The inductive invariant of admission.
FairInv ==
    IInv /\ QueueInv /\ AllocInv /\ ScanInv /\ CapRespected /\ PassLeavesNoneAdmissible

\* splice(i, 1) drops item i and keeps the items before it where they are.
LEMMA RemoveAtItems ==
  ASSUME NEW S, NEW s \in Seq(S), NEW i \in DOMAIN s, Distinct(s)
  PROVE  /\ Distinct(RemoveAt(s, i))
         /\ \A j \in DOMAIN RemoveAt(s, i) :
                \E k \in DOMAIN s : k # i /\ RemoveAt(s, i)[j] = s[k]
         /\ \A j \in DOMAIN s : j < i =>
                j \in DOMAIN RemoveAt(s, i) /\ RemoveAt(s, i)[j] = s[j]
         /\ \A j \in DOMAIN RemoveAt(s, i) : j < i => j \in DOMAIN s
<1>1. Len(s) \in Nat /\ DOMAIN s = 1 .. Len(s) /\ i \in 1 .. Len(s)
  BY LenProperties
<1> DEFINE t == RemoveAt(s, i)
<1>2. DOMAIN t = 1 .. Len(s) - 1
  BY DEF RemoveAt
<1>3. \A j \in DOMAIN t : t[j] = IF j < i THEN s[j] ELSE s[j + 1]
  BY DEF RemoveAt
<1> HIDE DEF t
<1>4. Distinct(t)
  BY <1>1, <1>2, <1>3 DEF Distinct
<1>5. ASSUME NEW j \in DOMAIN t PROVE \E k \in DOMAIN s : k # i /\ t[j] = s[k]
  <2>1. CASE j < i
    BY <1>1, <1>2, <1>3, <2>1
  <2>2. CASE ~(j < i)
    <3>1. j + 1 \in DOMAIN s /\ j + 1 # i /\ t[j] = s[j + 1]
      BY <1>1, <1>2, <1>3, <2>2
    <3> QED
      BY <3>1
  <2> QED
    BY <2>1, <2>2
<1>6. \A j \in DOMAIN s : j < i => j \in DOMAIN t /\ t[j] = s[j]
  BY <1>1, <1>2, <1>3
<1>7. \A j \in DOMAIN t : j < i => j \in DOMAIN s
  BY <1>1, <1>2
<1> QED
  BY <1>4, <1>5, <1>6, <1>7 DEF t

\* Taking an operation out of a queue of distinct ones leaves all the others.
LEMMA WithoutItems ==
  ASSUME NEW S, NEW s \in Seq(S), NEW o, Distinct(s)
  PROVE  /\ Distinct(Without(s, o))
         /\ \A j \in DOMAIN Without(s, o) :
                Without(s, o)[j] # o /\ \E k \in DOMAIN s : Without(s, o)[j] = s[k]
<1>1. CASE \E i \in DOMAIN s : s[i] = o
  <2> DEFINE i == CHOOSE i \in DOMAIN s : s[i] = o
  <2>1. i \in DOMAIN s /\ s[i] = o
    BY <1>1
  <2>2. Without(s, o) = RemoveAt(s, i)
    BY <1>1 DEF Without
  <2> HIDE DEF i
  <2>3. Distinct(RemoveAt(s, i))
        /\ \A j \in DOMAIN RemoveAt(s, i) :
               \E k \in DOMAIN s : k # i /\ RemoveAt(s, i)[j] = s[k]
    BY <2>1, RemoveAtItems
  <2>4. \A j \in DOMAIN RemoveAt(s, i) :
            RemoveAt(s, i)[j] # o /\ \E k \in DOMAIN s : RemoveAt(s, i)[j] = s[k]
    BY <2>1, <2>3 DEF Distinct
  <2> QED
    BY <2>2, <2>3, <2>4
<1>2. CASE ~ \E i \in DOMAIN s : s[i] = o
  BY <1>2 DEF Without
<1> QED
  BY <1>1, <1>2

\* Any set of operations has a number of members.
LEMMA OpsCounted ==
  ASSUME NEW A \in SUBSET Op
  PROVE  IsFiniteSet(A) /\ Cardinality(A) \in Nat
  BY ArbiterAssumption, FS_Subset, FS_CardinalityType

\* The operations that count are operations.
LEMMA ActiveAreOps ==
  ASSUME TableOK
  PROVE  ActiveOps \in SUBSET Op
  BY DEF TableOK, ActiveOps, UnfinishedOps

\* The cap survives a step that admits nobody.
LEMMA CapKept ==
  ASSUME TableOK, CapRespected, ActiveOps' \subseteq ActiveOps
  PROVE  CapRespected'
<1>1. IsFiniteSet(ActiveOps) /\ Cardinality(ActiveOps) \in Nat
  BY ActiveAreOps, OpsCounted
<1>2. Cardinality(ActiveOps') \in Nat /\ Cardinality(ActiveOps') <= Cardinality(ActiveOps)
  BY <1>1, ActiveAreOps, OpsCounted, FS_Subset
<1> QED
  BY <1>1, <1>2, ArbiterAssumption DEF CapRespected

\* It survives a grant that allocateResources found to be under it.
LEMMA CapGrant ==
  ASSUME TableOK, CapRespected, NEW o \in Op, UnderCap(o),
         ActiveOps' = ActiveOps \cup {o}
  PROVE  CapRespected'
<1>1. IsFiniteSet(ActiveOps) /\ Cardinality(ActiveOps) \in Nat
  BY ActiveAreOps, OpsCounted
<1>2. Cardinality(ActiveOps') =
          IF o \in ActiveOps THEN Cardinality(ActiveOps) ELSE Cardinality(ActiveOps) + 1
  BY <1>1, FS_AddElement
<1> QED
  BY <1>1, <1>2, ArbiterAssumption DEF CapRespected, UnderCap

\* Outside a pass, and where one starts, nothing has been passed over.
LEMMA OutsideScan ==
  ASSUME QueueOK', scanAt' = 0 \/ (scanAt' = 1 /\ reserved' = {} /\ ~capped')
  PROVE  ScanInv' /\ PassLeavesNoneAdmissible'
<1>1. \A j \in DOMAIN queue' : j \in Nat /\ ~(j < 1)
  BY LenProperties DEF QueueOK
<1>2. CASE scanAt' = 0
  BY <1>2 DEF ScanInv, PassLeavesNoneAdmissible
<1>3. CASE scanAt' = 1 /\ reserved' = {} /\ ~capped'
  BY <1>1, <1>3 DEF ScanInv, PassLeavesNoneAdmissible
<1> QED
  BY <1>2, <1>3

\* Releasing and starting a pass: nobody is admitted, the queue stays.
LEMMA ReleaseFair ==
  ASSUME FairInv, TableOK', QueueOK', NEW o \in Op, Release(o), StartScan, UNCHANGED <<queue, cancelled>>,
         stage[o] \notin {"idle", "queued"}, stage'[o] \notin {"idle", "queued", "resumed"},
         stage'[o] \in {"holding", "orphan"} => stage[o] \in {"holding", "orphan"},
         \A p \in Op \ {o} : stage'[p] = stage[p]
  PROVE  /\ QueueInv' /\ AllocInv' /\ ScanInv' /\ CapRespected'
         /\ PassLeavesNoneAdmissible'
<1>0. TableOK /\ QueueOK
  BY DEF FairInv, IInv
<1>1. QueueInv'
  BY <1>0, ElementOfSeq, LenProperties DEF FairInv, QueueInv, QueueOK
<1>2. AllocInv'
  BY <1>0 DEF FairInv, AllocInv, Release, TableOK
<1>3. ActiveOps' \subseteq ActiveOps
  BY <1>0 DEF ActiveOps, UnfinishedOps, Release, TableOK
<1>4. CapRespected'
  BY <1>0, <1>3, CapKept DEF FairInv
<1>5. ScanInv' /\ PassLeavesNoneAdmissible'
  BY OutsideScan DEF StartScan
<1> QED
  BY <1>1, <1>2, <1>4, <1>5

\* A step outside a pass that leaves the queue alone and ends or moves on an
\* operation that is not waiting.
LEMMA QuietFair ==
  ASSUME FairInv, TableOK', QueueOK', scanAt' = 0, UNCHANGED <<queue, allocated>>,
         cancelled \subseteq cancelled',
         \A p \in Op : \/ stage'[p] = stage[p]
                       \/ /\ stage[p] \notin {"idle", "queued"}
                          /\ stage'[p] \notin {"idle", "queued", "resumed"},
         UnfinishedOps' \subseteq ActiveOps
  PROVE  /\ QueueInv' /\ AllocInv' /\ ScanInv' /\ CapRespected'
         /\ PassLeavesNoneAdmissible'
<1>0. TableOK /\ QueueOK
  BY DEF FairInv, IInv
<1>1. \A i \in DOMAIN queue : queue[i] \in Op
  BY <1>0, ElementOfSeq, LenProperties DEF QueueOK
<1>2. QueueInv'
  BY <1>1 DEF FairInv, QueueInv
<1>3. AllocInv'
  BY <1>0 DEF FairInv, AllocInv, TableOK
<1>4. ActiveOps' \subseteq ActiveOps
  BY DEF ActiveOps
<1>5. CapRespected'
  BY <1>0, <1>4, CapKept DEF FairInv
<1>6. ScanInv' /\ PassLeavesNoneAdmissible'
  BY OutsideScan
<1> QED
  BY <1>2, <1>3, <1>5, <1>6

\* An operation leaves the queue without a grant.
LEMMA LeaveFair ==
  ASSUME FairInv, TableOK', QueueOK', NEW o \in Op, scanAt' = 0, queue' = Without(queue, o),
         UNCHANGED allocated, cancelled \subseteq cancelled',
         \A p \in Op \ {o} : stage'[p] = stage[p],
         \/ stage'[o] = stage[o] /\ stage[o] # "queued"
         \/ stage[o] = "queued" /\ stage'[o] = "failed"
         \/ stage[o] = "queued" /\ stage'[o] = "resumed" /\ o \in cancelled'
  PROVE  /\ QueueInv' /\ AllocInv' /\ ScanInv' /\ CapRespected'
         /\ PassLeavesNoneAdmissible'
<1>0. TableOK /\ QueueOK /\ Distinct(queue)
  BY DEF FairInv, IInv, QueueInv
<1>1. \A i \in DOMAIN queue : queue[i] \in Op /\ stage[queue[i]] = "queued"
  BY <1>0, ElementOfSeq, LenProperties DEF QueueOK, FairInv, QueueInv
<1>2. /\ Distinct(Without(queue, o))
      /\ \A j \in DOMAIN Without(queue, o) : /\ Without(queue, o)[j] # o
                                             /\ \E k \in DOMAIN queue : Without(queue, o)[j] = queue[k]
  BY <1>0, WithoutItems DEF QueueOK
<1>3. \A j \in DOMAIN queue' : queue'[j] \in Op \ {o} /\ stage[queue'[j]] = "queued"
  BY <1>1, <1>2
<1>4. QueueInv'
  BY <1>2, <1>3 DEF QueueInv
<1>5. AllocInv'
  BY <1>0 DEF FairInv, AllocInv, TableOK
<1>6. ActiveOps' \subseteq ActiveOps
  BY <1>0 DEF ActiveOps, UnfinishedOps, TableOK
<1>7. CapRespected'
  BY <1>0, <1>6, CapKept DEF FairInv
<1>8. ScanInv' /\ PassLeavesNoneAdmissible'
  BY OutsideScan
<1> QED
  BY <1>4, <1>5, <1>7, <1>8

\* A crash empties the queue and keeps what the store says is unfinished.
LEMMA CrashFair ==
  ASSUME FairInv, TableOK', QueueOK', stage' = StageAfterCrash, allocated' = UnfinishedOps,
         queue' = <<>>, scanAt' = 0
  PROVE  /\ QueueInv' /\ AllocInv' /\ ScanInv' /\ CapRespected'
         /\ PassLeavesNoneAdmissible'
<1>0. TableOK
  BY DEF FairInv, IInv
<1>1. DOMAIN queue' = {}
  OBVIOUS
<1>2. QueueInv'
  BY <1>1 DEF QueueInv, Distinct
<1>3. AllocInv'
  BY DEF AllocInv, StageAfterCrash, UnfinishedOps
<1>4. ActiveOps' \subseteq ActiveOps
  BY DEF ActiveOps, UnfinishedOps, StageAfterCrash
<1>5. CapRespected'
  BY <1>0, <1>4, CapKept DEF FairInv
<1>6. ScanInv' /\ PassLeavesNoneAdmissible'
  BY OutsideScan
<1> QED
  BY <1>2, <1>3, <1>5, <1>6

\* A waiter that is passed over is blocked: by a holder, by an earlier waiter
\* whose resources are reserved, or by the cap.
LEMMA SkipFair ==
  ASSUME FairInv, TableOK', QueueOK', Scan, ScanSkip
  PROVE  /\ QueueInv' /\ AllocInv' /\ ScanInv' /\ CapRespected'
         /\ PassLeavesNoneAdmissible'
<1> DEFINE o == queue[scanAt]
<1>0. TableOK /\ QueueOK
  BY DEF FairInv, IInv
<1>1. /\ Len(queue) \in Nat /\ DOMAIN queue = 1 .. Len(queue) /\ scanAt \in 1 .. Len(queue)
      /\ \A i \in DOMAIN queue : queue[i] \in Op
  BY <1>0, LenProperties, ElementOfSeq DEF QueueOK, Scan
<1>2. /\ UNCHANGED <<locked, allocated, queue, stage, needs, cancelled>>
      /\ scanAt' = scanAt + 1 /\ reserved' = reserved \cup needs[o]
      /\ scanAt # 0 /\ scanAt' # 0
  BY <1>1 DEF Scan, ScanSkip
<1>3. /\ ActiveOps' = ActiveOps
      /\ \A i \in DOMAIN queue : UnderCap(queue[i])' <=> UnderCap(queue[i])
  BY <1>2 DEF ActiveOps, UnfinishedOps, UnderCap
<1>4. o \in Op /\ o \notin ActiveOps
  BY <1>0, <1>1 DEF FairInv, QueueInv, AllocInv, ActiveOps, UnfinishedOps
<1>5. Cardinality(ActiveOps) \in Nat
  BY <1>0, ActiveAreOps, OpsCounted
<1>6. capped' => MaxConcurrentOps # 0 /\ Cardinality(ActiveOps) >= MaxConcurrentOps
  <2>1. CASE capped
    BY <2>1, <1>2 DEF FairInv, ScanInv
  <2>2. CASE ~capped
    <3> SUFFICES ASSUME capped' PROVE MaxConcurrentOps # 0 /\ Cardinality(ActiveOps) >= MaxConcurrentOps
      OBVIOUS
    <3>1. ~UnderCap(o)
      BY <2>2 DEF ScanSkip
    <3> QED
      BY <3>1, <1>5, ArbiterAssumption DEF UnderCap
  <2> QED
    BY <2>1, <2>2
<1>7. \A j \in DOMAIN queue : j < scanAt => needs[queue[j]] \subseteq reserved
  BY <1>2 DEF FairInv, ScanInv
<1>8. \A r \in reserved : \E j \in DOMAIN queue : j < scanAt /\ r \in needs[queue[j]]
  BY <1>2 DEF FairInv, ScanInv
<1>9. \A j \in DOMAIN queue : j < scanAt + 1 => j < scanAt \/ j = scanAt
  BY <1>1
<1>10. \A j \in DOMAIN queue : j < scanAt => j < scanAt + 1
  BY <1>1
<1>11. ScanInv'
  <2>1. \A j \in DOMAIN queue : j < scanAt + 1 => needs[queue[j]] \subseteq reserved \cup needs[o]
    BY <1>7, <1>9
  <2>2. \A r \in reserved \cup needs[o] :
            \E j \in DOMAIN queue : j < scanAt + 1 /\ r \in needs[queue[j]]
    <3>1. scanAt \in DOMAIN queue /\ scanAt < scanAt + 1
      BY <1>1
    <3> QED
      BY <1>8, <1>10, <3>1
  <2> QED
    BY <1>2, <1>3, <1>6, <2>1, <2>2 DEF ScanInv
<1>12. Blocked(scanAt)
  <2>1. CASE needs[o] \cap reserved # {}
    <3>1. PICK r \in needs[o] : r \in reserved
      BY <2>1
    <3>2. PICK j \in DOMAIN queue : j < scanAt /\ r \in needs[queue[j]]
      BY <3>1, <1>8
    <3>3. j \in 1 .. scanAt - 1
      BY <3>2, <1>1
    <3> QED
      BY <3>1, <3>2, <3>3 DEF Blocked
  <2>2. CASE ~ConflictFree(o)
    BY <2>2 DEF ConflictFree, Blocked
  <2>3. CASE capped
    <3>1. ~UnderCap(o)
      BY <2>3, <1>2, <1>4, <1>5, ArbiterAssumption DEF FairInv, ScanInv, UnderCap
    <3> QED
      BY <3>1 DEF Blocked
  <2>4. CASE ~UnderCap(o)
    BY <2>4 DEF Blocked
  <2> QED
    BY <2>1, <2>2, <2>3, <2>4 DEF ScanSkip
<1>13. \A i \in DOMAIN queue : i < scanAt => Blocked(i)
  BY <1>2 DEF FairInv, PassLeavesNoneAdmissible
<1>14. \A i \in DOMAIN queue : Blocked(i) => Blocked(i)'
  BY <1>2, <1>3 DEF Blocked
<1>15. PassLeavesNoneAdmissible'
  BY <1>2, <1>9, <1>12, <1>13, <1>14 DEF PassLeavesNoneAdmissible
<1>16. QueueInv' /\ AllocInv'
  BY <1>2 DEF FairInv, QueueInv, AllocInv
<1>17. CapRespected'
  BY <1>3 DEF FairInv, CapRespected
<1> QED
  BY <1>11, <1>15, <1>16, <1>17

\* A grant inside a pass unblocks none of the waiters it has passed over.
LEMMA GrantFair ==
  ASSUME FairInv, TableOK', QueueOK', Scan, ScanGrant
  PROVE  /\ QueueInv' /\ AllocInv' /\ ScanInv' /\ CapRespected'
         /\ PassLeavesNoneAdmissible'
<1> DEFINE o == queue[scanAt]
<1>0. TableOK /\ QueueOK /\ Distinct(queue)
  BY DEF FairInv, IInv, QueueInv
<1>1. /\ Len(queue) \in Nat /\ DOMAIN queue = 1 .. Len(queue) /\ scanAt \in 1 .. Len(queue)
      /\ \A i \in DOMAIN queue : queue[i] \in Op /\ stage[queue[i]] = "queued"
  BY <1>0, LenProperties, ElementOfSeq DEF QueueOK, Scan, FairInv, QueueInv
<1>2. /\ UNCHANGED <<scanAt, reserved, capped, needs, cancelled>>
      /\ queue' = RemoveAt(queue, scanAt) /\ stage' = [stage EXCEPT ![o] = "resumed"]
      /\ ~capped /\ ConflictFree(o) /\ UnderCap(o) /\ Grant(o, needs[o]) /\ scanAt # 0
  BY <1>1 DEF Scan, ScanGrant
<1>3. /\ Distinct(queue')
      /\ \A j \in DOMAIN queue' : \E k \in DOMAIN queue : k # scanAt /\ queue'[j] = queue[k]
      /\ \A j \in DOMAIN queue : j < scanAt => j \in DOMAIN queue' /\ queue'[j] = queue[j]
      /\ \A j \in DOMAIN queue' : j < scanAt => j \in DOMAIN queue
  <2>1. queue \in Seq(Op) /\ scanAt \in DOMAIN queue
    BY <1>0, <1>1 DEF QueueOK
  <2> DEFINE t == RemoveAt(queue, scanAt)
  <2>2. /\ Distinct(t)
        /\ \A j \in DOMAIN t : \E k \in DOMAIN queue : k # scanAt /\ t[j] = queue[k]
        /\ \A j \in DOMAIN queue : j < scanAt => j \in DOMAIN t /\ t[j] = queue[j]
        /\ \A j \in DOMAIN t : j < scanAt => j \in DOMAIN queue
    BY <1>0, <2>1, RemoveAtItems
  <2> QED
    BY <1>2, <2>2
<1>4. o \in Op /\ stage[o] = "queued" /\ o \notin ActiveOps
  BY <1>0, <1>1 DEF FairInv, QueueInv, AllocInv, ActiveOps, UnfinishedOps
<1>5. Cardinality(ActiveOps) \in Nat
  BY <1>0, ActiveAreOps, OpsCounted
<1>6. QueueInv'
  <2>1. ASSUME NEW j \in DOMAIN queue' PROVE stage'[queue'[j]] = "queued"
    <3>1. PICK k \in DOMAIN queue : k # scanAt /\ queue'[j] = queue[k]
      BY <1>3
    <3>2. queue[k] # o /\ queue[k] \in Op /\ stage[queue[k]] = "queued"
      BY <1>0, <1>1, <3>1 DEF Distinct
    <3> QED
      BY <1>0, <1>2, <3>1, <3>2 DEF TableOK
  <2> QED
    BY <1>3, <2>1 DEF QueueInv
<1>7. AllocInv'
  BY <1>0, <1>2, <1>4 DEF FairInv, AllocInv, Grant, TableOK
<1>8. ActiveOps' = ActiveOps \cup {o}
  <2>1. UnfinishedOps' = UnfinishedOps
    BY <1>0, <1>2, <1>4 DEF UnfinishedOps, TableOK
  <2> QED
    BY <1>2, <2>1 DEF ActiveOps, Grant
<1>9. CapRespected'
  BY <1>0, <1>2, <1>4, <1>8, CapGrant DEF FairInv
<1>10. ScanInv'
  <2>1. \A j \in DOMAIN queue' : j < scanAt => needs[queue'[j]] \subseteq reserved
    BY <1>2, <1>3 DEF FairInv, ScanInv
  <2>2. ASSUME NEW r \in reserved
        PROVE  \E j \in DOMAIN queue' : j < scanAt /\ r \in needs[queue'[j]]
    <3>1. PICK j \in DOMAIN queue : j < scanAt /\ r \in needs[queue[j]]
      BY <1>2, <2>2 DEF FairInv, ScanInv
    <3> QED
      BY <1>3, <3>1
  <2> QED
    BY <1>2, <2>1, <2>2 DEF ScanInv
<1>11. ASSUME NEW i \in DOMAIN queue, i < scanAt PROVE Blocked(i)'
  <2>1. Blocked(i) /\ queue'[i] = queue[i] /\ queue[i] # o /\ queue[i] \in Op
    BY <1>0, <1>1, <1>2, <1>3, <1>11 DEF FairInv, PassLeavesNoneAdmissible, Distinct
  <2>2. queue[i] \notin ActiveOps
    BY <1>0, <1>1 DEF FairInv, AllocInv, ActiveOps, UnfinishedOps
  <2>3. UnderCap(queue[i])
    BY <1>2, <1>4, <2>2 DEF UnderCap
  <2>4. CASE \E r \in needs[queue[i]] : locked[r] \notin {NoOp, queue[i]}
    <3>1. PICK r \in needs[queue[i]] : locked[r] \notin {NoOp, queue[i]}
      BY <2>4
    <3>2. r \in Resource
      BY <1>0, <2>1 DEF TableOK
    <3>3. locked'[r] \notin {NoOp, queue[i]}
      BY <1>2, <1>4, <2>1, <3>1, <3>2, ArbiterAssumption DEF Grant
    <3> QED
      BY <1>2, <2>1, <3>1, <3>3 DEF Blocked
  <2>5. CASE \E j \in 1 .. i - 1 : needs[queue[i]] \cap needs[queue[j]] # {}
    <3>1. PICK j \in 1 .. i - 1 : needs[queue[i]] \cap needs[queue[j]] # {}
      BY <2>5
    <3>2. j \in DOMAIN queue /\ j < scanAt
      BY <1>1, <1>11, <3>1
    <3>3. queue'[j] = queue[j]
      BY <1>3, <3>2
    <3> QED
      BY <1>2, <2>1, <3>1, <3>3 DEF Blocked
  <2> QED
    BY <2>1, <2>3, <2>4, <2>5 DEF Blocked
<1>12. PassLeavesNoneAdmissible'
  BY <1>2, <1>3, <1>11 DEF PassLeavesNoneAdmissible
<1> QED
  BY <1>6, <1>7, <1>9, <1>10, <1>12

\* The invariant holds initially.
LEMMA FairInit == Init => FairInv
<1> SUFFICES ASSUME Init PROVE FairInv
  OBVIOUS
<1>1. DOMAIN queue = {}
  BY DEF Init
<1>2. QueueInv /\ AllocInv /\ ScanInv /\ PassLeavesNoneAdmissible
  BY <1>1 DEF Init, QueueInv, Distinct, AllocInv, ScanInv, PassLeavesNoneAdmissible
<1>3. ActiveOps = {}
  BY DEF Init, ActiveOps, UnfinishedOps
<1>4. CapRespected
  BY <1>3, FS_EmptySet, ArbiterAssumption DEF CapRespected
<1> QED
  BY <1>2, <1>4, InvInit DEF FairInv

\* Every step preserves it.
LEMMA FairNext == FairInv /\ [Next]_vars => FairInv'
<1> SUFFICES ASSUME FairInv, [Next]_vars PROVE FairInv'
  OBVIOUS
<1> DEFINE Goal == /\ QueueInv' /\ AllocInv' /\ ScanInv' /\ CapRespected'
                   /\ PassLeavesNoneAdmissible'
<1>0. IInv' /\ TableOK /\ QueueOK /\ TableOK' /\ QueueOK'
  BY InvNext DEF FairInv, IInv
<1>1. CASE UNCHANGED vars
  <2>1. Goal
    BY <1>1 DEF vars, memory, FairInv, QueueInv, AllocInv, ScanInv, CapRespected,
       ActiveOps,
       UnfinishedOps, PassLeavesNoneAdmissible, Blocked, UnderCap
  <2> QED
    BY <1>0, <2>1 DEF FairInv
<1>2. ASSUME NEW o \in Op, NEW res \in SUBSET Resource, SubmitAborted(o, res) PROVE Goal
  <2>1. QueueInv'
    BY <1>0, <1>2, ElementOfSeq, LenProperties DEF SubmitAborted, FairInv, QueueInv,
       TableOK, QueueOK
  <2>2. AllocInv'
    BY <1>0, <1>2 DEF SubmitAborted, FairInv, AllocInv, TableOK
  <2>3. ActiveOps' \subseteq ActiveOps
    BY <1>0, <1>2 DEF SubmitAborted, ActiveOps, UnfinishedOps, TableOK
  <2>4. CapRespected'
    BY <1>0, <2>3, CapKept DEF FairInv
  <2> QED
    BY <1>0, <1>2, <2>1, <2>2, <2>4, OutsideScan DEF SubmitAborted, Idle
<1>3. ASSUME NEW o \in Op, NEW res \in SUBSET Resource, SubmitGranted(o, res) PROVE Goal
  <2>1. QueueInv'
    BY <1>0, <1>3, ElementOfSeq, LenProperties DEF SubmitGranted, FairInv, QueueInv,
       TableOK, QueueOK
  <2>2. AllocInv'
    BY <1>0, <1>3 DEF SubmitGranted, Grant, FairInv, AllocInv, TableOK
  <2>3. ActiveOps' = ActiveOps \cup {o}
    <3>1. UnfinishedOps' = UnfinishedOps
      BY <1>0, <1>3 DEF SubmitGranted, UnfinishedOps, TableOK
    <3> QED
      BY <1>3, <3>1 DEF SubmitGranted, ActiveOps, Grant
  <2>4. CapRespected'
    BY <1>0, <1>3, <2>3, CapGrant DEF FairInv, SubmitGranted
  <2> QED
    BY <1>0, <1>3, <2>1, <2>2, <2>4, OutsideScan DEF SubmitGranted, Idle
<1>4. ASSUME NEW o \in Op, NEW res \in SUBSET Resource, NEW waits \in BOOLEAN,
             SubmitBlocked(o, res, waits)
      PROVE  Goal
  <2>1. QueueInv'
    <3>1. \A i \in DOMAIN queue : queue[i] \in Op \ {o} /\ stage[queue[i]] = "queued"
      BY <1>0, <1>4, ElementOfSeq, LenProperties DEF SubmitBlocked, FairInv, QueueInv,
         QueueOK
    <3>2. CASE waits
      <4>1. /\ queue' = Append(queue, o) /\ Len(queue) \in Nat
            /\ DOMAIN queue = 1 .. Len(queue) /\ DOMAIN queue' = 1 .. Len(queue) + 1
            /\ \A i \in 1 .. Len(queue) : queue'[i] = queue[i]
            /\ queue'[Len(queue) + 1] = o
        BY <1>0, <1>4, <3>2, AppendProperties, LenProperties DEF SubmitBlocked, QueueOK
      <4>2. \A i \in DOMAIN queue' : i \in DOMAIN queue \/ i = Len(queue) + 1
        BY <4>1
      <4>3. Distinct(queue')
        BY <3>1, <4>1, <4>2 DEF FairInv, QueueInv, Distinct
      <4>4. stage'[o] = "queued" /\ \A p \in Op \ {o} : stage'[p] = stage[p]
        BY <1>0, <1>4, <3>2 DEF SubmitBlocked, TableOK
      <4> QED
        BY <3>1, <4>1, <4>2, <4>3, <4>4 DEF QueueInv
    <3>3. CASE ~waits
      BY <1>0, <1>4, <3>1, <3>3 DEF SubmitBlocked, FairInv, QueueInv, TableOK
    <3> QED
      BY <3>2, <3>3
  <2>2. AllocInv'
    BY <1>0, <1>4 DEF SubmitBlocked, FairInv, AllocInv, TableOK
  <2>3. ActiveOps' \subseteq ActiveOps
    BY <1>0, <1>4 DEF SubmitBlocked, ActiveOps, UnfinishedOps, TableOK
  <2>4. CapRespected'
    BY <1>0, <2>3, CapKept DEF FairInv
  <2> QED
    BY <1>0, <1>4, <2>1, <2>2, <2>4, OutsideScan DEF SubmitBlocked, Idle
<1>5. ASSUME NEW o \in Op, RegisterIntent(o) PROVE Goal
  <2>1. UnfinishedOps' \subseteq ActiveOps
    BY <1>0, <1>5 DEF RegisterIntent, FairInv, AllocInv, ActiveOps, UnfinishedOps,
       TableOK
  <2> QED
    BY <1>0, <1>5, <2>1, QuietFair DEF RegisterIntent, memory, Idle, TableOK
<1>6. ASSUME NEW o \in Op, RegisterRefused(o) PROVE Goal
  BY <1>0, <1>6, ReleaseFair DEF RegisterRefused, TableOK
<1>7. ASSUME NEW o \in Op, CancelBeforeIntent(o) PROVE Goal
  BY <1>0, <1>7, ReleaseFair DEF CancelBeforeIntent, TableOK
<1>8. ASSUME NEW o \in Op, CancelRefused(o) PROVE Goal
  BY <1>0, <1>8, QuietFair DEF CancelRefused, memory, Idle, TableOK, ActiveOps,
     UnfinishedOps
<1>9. ASSUME NEW o \in Op, ResumeFenced(o) PROVE Goal
  BY <1>0, <1>9, QuietFair DEF ResumeFenced, memory, Idle, TableOK, ActiveOps,
     UnfinishedOps
<1>10. ASSUME NEW o \in Op, Settle(o) PROVE Goal
  BY <1>0, <1>10, ReleaseFair DEF Settle, TableOK
<1>11. ASSUME NEW o \in Op, Isolate(o) PROVE Goal
  BY <1>0, <1>11, QuietFair DEF Isolate, memory, Idle, TableOK, ActiveOps, UnfinishedOps
<1>12. ASSUME NEW o \in Op, Adjudicate(o) PROVE Goal
  BY <1>0, <1>12, ReleaseFair DEF Adjudicate, TableOK
<1>13. ASSUME NEW o \in Op, Cancel(o) PROVE Goal
  BY <1>0, <1>13, LeaveFair DEF Cancel, Idle, TableOK
<1>14. ASSUME NEW o \in Op, WaitTimeout(o) PROVE Goal
  BY <1>0, <1>14, LeaveFair DEF WaitTimeout, Idle, TableOK
<1>15. ASSUME Scan PROVE Goal
  BY <1>0, <1>15, SkipFair, GrantFair DEF Scan
<1>16. ASSUME ScanEnd PROVE Goal
  BY <1>0, <1>16, QuietFair DEF ScanEnd, ActiveOps, UnfinishedOps
<1>17. ASSUME NEW u \in Run, CloseRun(u) PROVE Goal
  BY <1>0, <1>17, QuietFair DEF CloseRun, memory, Idle, ActiveOps, UnfinishedOps
<1>18. ASSUME Fence PROVE Goal
  BY <1>0, <1>18, QuietFair DEF Fence, Idle, ActiveOps, UnfinishedOps
<1>19. ASSUME Restart PROVE Goal
  BY <1>0, <1>19, CrashFair DEF Restart, Rebuild
<1>20. ASSUME NEW o \in Op, NEW kept \in SUBSET Resource, AdjudicateCrash(o, kept) PROVE Goal
  BY <1>0, <1>20, CrashFair DEF AdjudicateCrash, Rebuild
<1>21. CASE Next
  <2>1. Goal
    BY <1>2, <1>3, <1>4, <1>5, <1>6, <1>7, <1>8, <1>9, <1>10, <1>11, <1>12, <1>13,
       <1>14,
       <1>15, <1>16, <1>17, <1>18, <1>19, <1>20, <1>21 DEF Next, Submit, Resume
  <2> QED
    BY <1>0, <2>1 DEF FairInv
<1> QED
  BY <1>1, <1>21

\* What a step may hand to an operation past the queue: nothing an earlier waiter
\* asks for.
Fair(r, o) ==
    locked[r] # o /\ locked'[r] = o =>
        \A i \in DOMAIN queue : r \in needs[queue[i]] => \E j \in 1 .. i : queue[j] = o

\* A rebuild names no holder the lost table did not name.
LEMMA RebuildAddsNone ==
  ASSUME IInv, NEW rows \in SUBSET leases, Rebuild(rows, UnfinishedOps),
         NEW r \in Resource, NEW o \in Op, locked'[r] = o
  PROVE  locked[r] = o
<1>1. CASE \E p \in UnfinishedOps : r \in needs[p]
  <2> DEFINE p == CHOOSE p \in UnfinishedOps : r \in needs[p]
  <2>1. p \in UnfinishedOps /\ r \in needs[p] /\ locked'[r] = p
    BY <1>1 DEF Rebuild
  <2>2. p \in Op /\ Unsettled(p)
    BY <2>1 DEF UnfinishedOps, Unsettled
  <2> QED
    BY <2>1, <2>2, InvImpliesIsolation DEF IsolationHeld
<1>2. CASE ~(\E p \in UnfinishedOps : r \in needs[p]) /\ \E l \in rows : l[1] = r
  <2> DEFINE k == CHOOSE k \in rows : k[1] = r
  <2>1. k \in rows /\ k[1] = r /\ locked'[r] = k[2]
    BY <1>2 DEF Rebuild
  <2> QED
    BY <2>1 DEF IInv, LeaseNamesHolder
<1>3. CASE ~(\E p \in UnfinishedOps : r \in needs[p]) /\ ~ \E l \in rows : l[1] = r
  <2>1. locked'[r] = NoOp
    BY <1>3 DEF Rebuild
  <2> QED
    BY <2>1, ArbiterAssumption
<1> QED
  BY <1>1, <1>2, <1>3

\* No step overtakes a waiter.
LEMMA FairStep ==
  ASSUME FairInv, [Next]_vars, NEW r \in Resource, NEW o \in Op
  PROVE  Fair(r, o)
<1> SUFFICES ASSUME locked[r] # o, locked'[r] = o,
                    NEW i \in DOMAIN queue, r \in needs[queue[i]]
             PROVE  \E j \in 1 .. i : queue[j] = o
  BY DEF Fair
<1>0. IInv /\ TableOK /\ QueueOK /\ LeaseNamesHolder
  BY DEF FairInv, IInv
<1>1. i \in Nat /\ i >= 1
  BY <1>0, LenProperties DEF QueueOK
<1>2. ASSUME NEW p \in Op, NEW res \in SUBSET Resource, SubmitGranted(p, res) PROVE FALSE
  <2>1. r \notin res
    BY <1>2 DEF SubmitGranted, QueuedResources
  <2> QED
    BY <1>0, <1>2, <2>1 DEF SubmitGranted, Grant
<1>3. ASSUME NEW p \in Op, Release(p) PROVE FALSE
  BY <1>3, ArbiterAssumption DEF Release
<1>4. ASSUME NEW rows \in SUBSET leases, Rebuild(rows, UnfinishedOps) PROVE FALSE
  BY <1>0, <1>4, RebuildAddsNone
<1>5. ASSUME Scan, ScanGrant PROVE \E j \in 1 .. i : queue[j] = o
  <2>1. Len(queue) \in Nat /\ DOMAIN queue = 1 .. Len(queue) /\ scanAt \in 1 .. Len(queue)
    BY <1>0, <1>5, LenProperties DEF QueueOK, Scan
  <2>2. o = queue[scanAt] /\ r \in needs[queue[scanAt]] /\ r \notin reserved
    BY <1>5 DEF ScanGrant, Grant
  <2>3. ~(i < scanAt)
    BY <2>1, <2>2 DEF FairInv, ScanInv
  <2>4. scanAt \in 1 .. i
    BY <1>1, <2>1, <2>3
  <2> QED
    BY <2>2, <2>4
<1>6. ASSUME NEW p \in Op, NEW kept \in SUBSET Resource, AdjudicateCrash(p, kept) PROVE FALSE
  <2> DEFINE rows == {l \in leases : l[2] = p => l[1] \in kept}
  <2>1. rows \in SUBSET leases /\ Rebuild(rows, UnfinishedOps)
    BY <1>6 DEF AdjudicateCrash
  <2> QED
    BY <2>1, <1>4
<1>7. ASSUME Restart PROVE FALSE
  BY <1>4, <1>7 DEF Restart
<1>8. locked' # locked
  OBVIOUS
<1>9. ASSUME NEW p \in Op, Submit(p) PROVE FALSE
  BY <1>2, <1>8, <1>9 DEF Submit, SubmitAborted, SubmitBlocked
<1>10. ASSUME NEW p \in Op, Resume(p) PROVE FALSE
  BY <1>3, <1>8, <1>10 DEF Resume, RegisterIntent, RegisterRefused, CancelBeforeIntent,
     CancelRefused, ResumeFenced, memory
<1>11. ASSUME NEW p \in Op, Settle(p) \/ Isolate(p) \/ Adjudicate(p) \/ Cancel(p) \/ WaitTimeout(p) PROVE FALSE
  BY <1>3, <1>8, <1>11 DEF Settle, Isolate, Adjudicate, Cancel, WaitTimeout, memory
<1>12. ASSUME Scan PROVE \E j \in 1 .. i : queue[j] = o
  BY <1>5, <1>8, <1>12 DEF Scan, ScanSkip
<1>13. ASSUME ScanEnd \/ Fence \/ UNCHANGED vars \/ \E u \in Run : CloseRun(u) PROVE FALSE
  BY <1>8, <1>13 DEF ScanEnd, Fence, CloseRun, vars, memory
<1> QED
  BY <1>6, <1>7, <1>9, <1>10, <1>11, <1>12, <1>13 DEF Next

\* Admission, for any operations, resources and cap: the cap is never exceeded, a
\* pass of processWaitQueue leaves no admissible waiter behind, and neither a new
\* request nor a later waiter is granted a resource past an earlier waiter for it.
THEOREM AdmissionFair == Spec => AdmissionIsFair
<1>1. FairInv => TypeOK /\ CapRespected /\ PassLeavesNoneAdmissible
  BY DEF FairInv, IInv, TableOK, QueueOK, TypeOK
<1>2. ASSUME FairInv, [Next]_vars
      PROVE  [\A r \in Resource, o \in Op :
                  locked[r] # o /\ locked'[r] = o =>
                      \A i \in DOMAIN queue : r \in needs[queue[i]] =>
                          \E j \in 1 .. i : queue[j] = o]_vars
  BY <1>2, FairStep DEF Fair
<1>3. Spec => []FairInv
  BY FairInit, FairNext, PTL DEF Spec
<1>4. Spec => []TypeOK /\ []CapRespected /\ []PassLeavesNoneAdmissible
  BY <1>1, <1>3, PTL
<1>5. Spec => NoOvertaking
  BY <1>2, <1>3, PTL DEF Spec, NoOvertaking
<1> QED
  BY <1>4, <1>5, PTL DEF AdmissionIsFair
=============================================================================
