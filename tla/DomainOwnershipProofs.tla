------------------------ MODULE DomainOwnershipProofs ------------------------
(***************************************************************************)
(* Proofs about DomainOwnership for any set of processes: the epoch fence  *)
(* lets at most one process commit, and a process that acquires the domain *)
(* knows every operation that holds the resource.                          *)
(***************************************************************************)
EXTENDS DomainOwnership, TLAPS

\* No store is ahead of the owners row, and only the process the row names has
\* its epoch.
EpochInv ==
    \A p \in Proc : /\ epoch[p] <= ownerEpoch
                    /\ Serving(p) /\ Current(p) => owner = p

\* A process that served and is not the owner any more is in superseded.
LossInv == \A p \in Proc : Serving(p) => owner = p \/ p \in superseded

\* The inductive invariant.
IInv == TypeOK /\ EpochInv /\ LossInv /\ FreshOwnerKnowsAll

\* The initial states satisfy the type invariant.
LEMMA TypeInit == Init => TypeOK
<1> SUFFICES ASSUME Init PROVE TypeOK
  OBVIOUS
<1>1. lock \in [by : Proc \cup {NoProc}, written : BOOLEAN]
  BY DEF Init, NoLock
<1>2. pc \in [Proc -> Pc] /\ seen \in [Proc -> Proc \cup {NoProc}]
  BY DEF Init, Pc
<1> QED
  BY <1>1, <1>2 DEF Init, TypeOK

\* So does a takeover of the owners row.
LEMMA TakeOverType ==
  ASSUME TypeOK, NEW p \in Proc, TakeOver(p)
  PROVE  /\ owner' \in Proc \cup {NoProc} /\ ownerEpoch' \in Nat /\ expired' \in BOOLEAN
         /\ epoch' \in [Proc -> Nat]
         /\ leases' \in SUBSET Proc /\ superseded' \in SUBSET Proc
<1>1. epoch' \in [Proc -> Nat]
  BY DEF TypeOK, TakeOver
<1>2. superseded' \in SUBSET Proc
  BY DEF TypeOK, TakeOver
<1> QED
  BY <1>1, <1>2 DEF TypeOK, TakeOver

\* Every step of acquire, heartbeat, write, close, time and failure preserves it.
LEMMA TypeNext == TypeOK /\ [Next]_vars => TypeOK'
<1> SUFFICES ASSUME TypeOK, [Next]_vars PROVE TypeOK'
  OBVIOUS
<1> USE DEF TypeOK, Goto, files, database
<1>1. CASE UNCHANGED vars
  BY <1>1 DEF vars
<1>2. CASE Expire
  BY <1>2 DEF Expire
<1>3. ASSUME NEW p \in Proc, Acquire(p) PROVE TypeOK'
  <2>1. CASE CreateLock(p)
    BY <2>1 DEF CreateLock, Pc
  <2>2. CASE LockExists(p)
    BY <2>2 DEF LockExists, Pc
  <2>3. CASE ReadLock(p)
    BY <2>3 DEF ReadLock, Pc
  <2>4. CASE JudgeLock(p)
    BY <2>4 DEF JudgeLock, Pc
  <2>5. CASE UnlinkStale(p)
    BY <2>5 DEF UnlinkStale, Pc, NoLock
  <2>6. CASE WriteLock(p)
    BY <2>6 DEF WriteLock, Pc
  <2>7. CASE Lease(p)
    BY <2>7, TakeOverType DEF Lease, Pc
  <2>8. CASE LeaseRefused(p)
    BY <2>8 DEF LeaseRefused, Pc, NoLock
  <2>9. CASE Rebuild(p)
    BY <2>9 DEF Rebuild, Pc
  <2> QED
    BY <1>3, <2>1, <2>2, <2>3, <2>4, <2>5, <2>6, <2>7, <2>8, <2>9 DEF Acquire
<1>4. ASSUME NEW p \in Proc, Heartbeat(p) PROVE TypeOK'
  <2>1. CASE Renew(p)
    BY <2>1 DEF Renew
  <2>2. CASE Revive(p)
    BY <2>2, TakeOverType DEF Revive
  <2>3. CASE HeartbeatFails(p)
    BY <2>3 DEF HeartbeatFails, Pc
  <2> QED
    BY <1>4, <2>1, <2>2, <2>3 DEF Heartbeat
<1>5. ASSUME NEW p \in Proc, Write(p) PROVE TypeOK'
  <2>1. CASE RegisterIntent(p)
    BY <2>1 DEF RegisterIntent
  <2>2. CASE CheckWrite(p)
    BY <2>2 DEF CheckWrite, Pc
  <2>3. CASE PlainWrite(p)
    BY <2>3 DEF PlainWrite, Pc
  <2>4. ASSUME NEW q \in Proc, RecordResult(p, q) PROVE TypeOK'
    BY <2>4 DEF RecordResult
  <2> QED
    BY <1>5, <2>1, <2>2, <2>3, <2>4 DEF Write
<1>6. ASSUME NEW p \in Proc, Close(p) PROVE TypeOK'
  <2>1. CASE CloseLease(p)
    BY <2>1 DEF CloseLease, Pc
  <2>2. CASE CloseRead(p)
    BY <2>2 DEF CloseRead, Pc
  <2>3. CASE CloseUnlink(p)
    BY <2>3 DEF CloseUnlink, Pc, NoLock
  <2> QED
    BY <1>6, <2>1, <2>2, <2>3 DEF Close
<1>7. ASSUME NEW p \in Proc, Die(p) PROVE TypeOK'
  BY <1>7 DEF Die, Pc
<1> QED
  BY <1>1, <1>2, <1>3, <1>4, <1>5, <1>6, <1>7 DEF Next

\* The state of every process is well formed in every reachable state.
THEOREM TypeCorrect == Spec => []TypeOK
  BY TypeInit, TypeNext, PTL DEF Spec

\* A takeover makes its process the only one with the epoch of the row and
\* remembers who lost it.
LEMMA TakeOverInv ==
  ASSUME IInv, NEW p \in Proc, TakeOver(p),
         \A q \in Proc \ {p} : pc'[q] = pc[q]
  PROVE  EpochInv' /\ LossInv'
<1> USE DEF IInv, TypeOK, EpochInv, LossInv, Serving, Current, TakeOver
<1>1. \A q \in Proc : epoch'[q] = IF q = p THEN ownerEpoch + 1 ELSE epoch[q]
  OBVIOUS
<1>2. EpochInv'
  BY <1>1
<1>3. LossInv'
  BY OwnershipAssumption
<1> QED
  BY <1>2, <1>3

\* A step that only moves one process, and not into serving, preserves the
\* invariant.
LEMMA MoveInv ==
  ASSUME IInv, NEW p \in Proc, NEW place \in Pc, Goto(p, place),
         place \in {"owner", "writing"} => pc[p] \in {"owner", "writing"},
         place # "rebuilding",
         UNCHANGED <<epoch, known, owner, ownerEpoch, leases, superseded>>
  PROVE  EpochInv' /\ LossInv' /\ FreshOwnerKnowsAll'
  BY DEF IInv, TypeOK, EpochInv, LossInv, FreshOwnerKnowsAll, Serving, Current, Goto

\* The invariant holds initially.
LEMMA InvInit == Init => IInv
<1> SUFFICES ASSUME Init PROVE IInv
  OBVIOUS
<1>1. TypeOK
  BY TypeInit
<1>2. EpochInv /\ LossInv /\ FreshOwnerKnowsAll
  BY DEF Init, EpochInv, LossInv, FreshOwnerKnowsAll, Serving
<1> QED
  BY <1>1, <1>2 DEF IInv

\* Every step preserves it.
LEMMA InvNext == IInv /\ [Next]_vars => IInv'
<1> SUFFICES ASSUME IInv, [Next]_vars PROVE IInv'
  OBVIOUS
<1> DEFINE Goal == EpochInv' /\ LossInv' /\ FreshOwnerKnowsAll'
<1>0. TypeOK'
  BY TypeNext DEF IInv
<1>1. CASE UNCHANGED vars
  BY <1>0, <1>1 DEF vars, files, database, IInv, EpochInv, LossInv, FreshOwnerKnowsAll,
              Serving, Current
<1>2. CASE Expire
  BY <1>0, <1>2 DEF Expire, files, IInv, EpochInv, LossInv, FreshOwnerKnowsAll, Serving, Current
<1>3. ASSUME NEW p \in Proc, Acquire(p) PROVE Goal
  <2>1. CASE CreateLock(p)
    BY <2>1, MoveInv DEF CreateLock, database, Pc
  <2>2. CASE LockExists(p)
    BY <2>2, MoveInv DEF LockExists, database, files, Pc
  <2>3. CASE ReadLock(p)
    BY <2>3, MoveInv DEF ReadLock, database, Pc
  <2>4. CASE JudgeLock(p)
    BY <2>4, MoveInv DEF JudgeLock, database, files, Pc
  <2>5. CASE UnlinkStale(p)
    BY <2>5, MoveInv DEF UnlinkStale, database, Pc
  <2>6. CASE WriteLock(p)
    BY <2>6, MoveInv DEF WriteLock, database, Pc
  <2>7. CASE Lease(p)
    <3>1. \A q \in Proc \ {p} : pc'[q] = pc[q]
      BY <2>7 DEF Lease, Goto, IInv, TypeOK
    <3>2. EpochInv' /\ LossInv'
      BY <2>7, <3>1, TakeOverInv DEF Lease
    <3>3. pc'[p] = "rebuilding"
      BY <2>7 DEF Lease, Goto, IInv, TypeOK
    <3>4. \A q \in Proc \ {p} : epoch'[q] = epoch[q] /\ epoch[q] < ownerEpoch'
      BY <2>7 DEF Lease, TakeOver, IInv, TypeOK, EpochInv
    <3>5. FreshOwnerKnowsAll'
      BY <3>3, <3>4, <1>0 DEF FreshOwnerKnowsAll, Current, TypeOK
    <3> QED
      BY <3>2, <3>5
  <2>8. CASE LeaseRefused(p)
    BY <2>8, MoveInv DEF LeaseRefused, database, Pc
  <2>9. CASE Rebuild(p)
    BY <2>9 DEF Rebuild, Goto, database, files, IInv, TypeOK, EpochInv, LossInv,
                FreshOwnerKnowsAll, Serving, Current
  <2> QED
    BY <1>3, <2>1, <2>2, <2>3, <2>4, <2>5, <2>6, <2>7, <2>8, <2>9 DEF Acquire
<1>4. ASSUME NEW p \in Proc, Heartbeat(p) PROVE Goal
  <2>1. CASE Renew(p)
    BY <2>1 DEF Renew, files, IInv, EpochInv, LossInv, FreshOwnerKnowsAll, Serving, Current
  <2>2. CASE Revive(p)
    <3>1. EpochInv' /\ LossInv'
      BY <2>2, TakeOverInv DEF Revive
    <3>2. p \in superseded'
      BY <2>2 DEF Revive, TakeOver, IInv, LossInv, Serving
    <3>3. \A q \in Proc \ {p} : epoch'[q] = epoch[q] /\ epoch[q] < ownerEpoch'
      BY <2>2 DEF Revive, TakeOver, IInv, TypeOK, EpochInv
    <3>4. FreshOwnerKnowsAll'
      BY <3>2, <3>3, <1>0 DEF FreshOwnerKnowsAll, Current, TypeOK
    <3> QED
      BY <3>1, <3>4
  <2>3. CASE HeartbeatFails(p)
    BY <2>3, MoveInv DEF HeartbeatFails, database, files, Pc
  <2> QED
    BY <1>4, <2>1, <2>2, <2>3 DEF Heartbeat
<1>5. ASSUME NEW p \in Proc, Write(p) PROVE Goal
  <2>1. CASE RegisterIntent(p)
    <3>1. EpochInv' /\ LossInv'
      BY <2>1 DEF RegisterIntent, files, IInv, EpochInv, LossInv, Serving, Current
    <3>2. owner = p
      BY <2>1 DEF RegisterIntent, IInv, EpochInv, Serving
    <3>3. ASSUME NEW q \in Proc, pc'[q] \in {"owner", "writing"}, Current(q)',
                 q \notin superseded'
          PROVE  leases' \subseteq known'[q]
      <4>1. Serving(q) /\ Current(q) /\ q \notin superseded
        BY <2>1, <3>3 DEF RegisterIntent, Serving, Current
      <4>2. q = p
        BY <3>2, <4>1 DEF IInv, EpochInv
      <4>3. leases \subseteq known[p]
        BY <2>1, <4>1, <4>2 DEF RegisterIntent, IInv, FreshOwnerKnowsAll
      <4> QED
        BY <2>1, <4>2, <4>3 DEF RegisterIntent, IInv, TypeOK
    <3>4. FreshOwnerKnowsAll'
      BY <3>3 DEF FreshOwnerKnowsAll
    <3> QED
      BY <3>1, <3>4
  <2>2. CASE CheckWrite(p)
    BY <2>2, MoveInv DEF CheckWrite, database, files, Pc
  <2>3. CASE PlainWrite(p)
    BY <2>3, MoveInv DEF PlainWrite, database, files, Pc
  <2>4. ASSUME NEW q \in Proc, RecordResult(p, q) PROVE Goal
    BY <2>4 DEF RecordResult, files, IInv, TypeOK, EpochInv, LossInv, FreshOwnerKnowsAll,
                Serving, Current
  <2> QED
    BY <1>5, <2>1, <2>2, <2>3, <2>4 DEF Write
<1>6. ASSUME NEW p \in Proc, Close(p) PROVE Goal
  <2>1. CASE CloseLease(p)
    BY <2>1, MoveInv DEF CloseLease, files, Pc
  <2>2. CASE CloseRead(p)
    BY <2>2, MoveInv DEF CloseRead, database, files, Pc
  <2>3. CASE CloseUnlink(p)
    BY <2>3, MoveInv DEF CloseUnlink, database, Pc
  <2> QED
    BY <1>6, <2>1, <2>2, <2>3 DEF Close
<1>7. ASSUME NEW p \in Proc, Die(p) PROVE Goal
  BY <1>7, MoveInv DEF Die, database, files, Pc
<1> QED
  BY <1>0, <1>1, <1>2, <1>3, <1>4, <1>5, <1>6, <1>7 DEF Next, IInv

\* No split brain, for every number of processes and takeovers: at most one
\* process passes the epoch check of a transaction (acquireOwnerLease,
\* verifyEpochFencing).
THEOREM NoSplitBrain == Spec => []OneCurrentOwner
<1>1. IInv => OneCurrentOwner
  BY DEF IInv, EpochInv, OneCurrentOwner
<1> QED
  BY <1>1, InvInit, InvNext, PTL DEF Spec

\* Recovery before execution, for every number of processes: an owner that has
\* never lost the domain has every lease of the store in its isolation table
\* (rebuildIsolationFromStore).
THEOREM RebuildIsComplete == Spec => []FreshOwnerKnowsAll
<1>1. IInv => FreshOwnerKnowsAll
  BY DEF IInv
<1> QED
  BY <1>1, InvInit, InvNext, PTL DEF Spec
=============================================================================
