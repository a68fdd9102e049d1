--------------------------- MODULE DomainOwnership ---------------------------
(***************************************************************************)
(* Which process owns an execution domain: the lock file of                *)
(* ExecutionDomain.acquire and close, the owners row with its epoch and    *)
(* its expiry (src/src/domain.ts, acquireOwnerLease and verifyEpochFencing *)
(* in src/src/store/sqlite.ts), the heartbeat that renews it, and the      *)
(* writes that the epoch fences.                                           *)
(*                                                                         *)
(* Processes share a file system and a database.  A step is one system     *)
(* call on the lock file or one SQLite transaction; a process may stall    *)
(* between any two of them for longer than its lease, and may die.  Every  *)
(* process is one incarnation with its own pid.  The domain has one        *)
(* exclusive resource, and an operation is named by who registered it.     *)
(***************************************************************************)
EXTENDS Naturals, FiniteSets

CONSTANTS
    Proc,      \* processes that may acquire the domain
    NoProc,    \* no process
    MaxEpoch   \* bound: takeovers

ASSUME OwnershipAssumption ==
    /\ NoProc \notin Proc
    /\ MaxEpoch \in Nat

VARIABLES
    pc,          \* where each process is in acquire, in its life as owner, in close
    seen,        \* lockMeta.ownerPid it read, NoProc for a corrupt file
    epoch,       \* currentEpoch of its store, 0 before the lease
    known,       \* operations its isolation table locks the resource for
    lock,        \* domain.lock: who created it, and whether the metadata is in it
    owner,       \* owners.owner_id
    ownerEpoch,  \* owners.epoch
    expired,     \* owners.expires_at has passed
    leases,      \* operations with a resource_leases row
    superseded   \* processes that were owner and lost the row to another one

files == <<lock, seen>>
database == <<owner, ownerEpoch, expired, leases, superseded>>
vars == <<pc, epoch, known, files, database>>

Pc == {"out", "exists", "judging", "unlinking", "reopening", "created", "leasing",
       "rebuilding", "owner", "writing", "fenced", "closing", "unlocking", "closed",
       "dead"}

NoLock == [by |-> NoProc, written |-> FALSE]

\* checkProcessAlive
Alive(p) == pc[p] # "dead"

\* The process has a store that the epoch can fence.
Serving(p) == pc[p] \in {"rebuilding", "owner", "writing"}

\* verifyEpochFencing does not throw.
Current(p) == epoch[p] = ownerEpoch

Goto(p, place) == pc' = [pc EXCEPT ![p] = place]

Init ==
    /\ pc = [p \in Proc |-> "out"]
    /\ seen = [p \in Proc |-> NoProc]
    /\ epoch = [p \in Proc |-> 0]
    /\ known = [p \in Proc |-> {}]
    /\ lock = NoLock
    /\ owner = NoProc /\ ownerEpoch = 0 /\ expired = FALSE
    /\ leases = {} /\ superseded = {}

-----------------------------------------------------------------------------
\* ExecutionDomain.acquire: the lock file.

\* openSync(lockFilePath, 'wx'), the first attempt and the one after the unlink.
CreateLock(p) ==
    /\ pc[p] \in {"out", "reopening"} /\ lock = NoLock
    /\ lock' = [by |-> p, written |-> FALSE]
    /\ Goto(p, "created")
    /\ UNCHANGED <<seen, epoch, known, database>>

\* EEXIST: inspect the file; the second time the call throws.
LockExists(p) ==
    /\ pc[p] \in {"out", "reopening"} /\ lock # NoLock
    /\ Goto(p, IF pc[p] = "out" THEN "exists" ELSE "out")
    /\ UNCHANGED <<epoch, known, files, database>>

\* The file is gone, empty or names its owner.
ReadLock(p) ==
    /\ pc[p] = "exists"
    /\ seen' = [seen EXCEPT ![p] = IF lock.written THEN lock.by ELSE NoProc]
    /\ Goto(p, "judging")
    /\ UNCHANGED <<lock, epoch, known, database>>

\* Mutant: a lock file without metadata counts as locked.
JudgeLockBlankLocked(p) ==
    /\ pc[p] = "judging"
    /\ Goto(p, IF (seen[p] = NoProc \/ Alive(seen[p])) /\ ~expired
               THEN "out" ELSE "unlinking")
    /\ UNCHANGED <<epoch, known, files, database>>

\* DomainLockedError for a live owner with an unexpired lease; a corrupt file, a
\* dead owner and an expired lease are stale.
JudgeLock(p) ==
    /\ pc[p] = "judging"
    /\ Goto(p, IF seen[p] # NoProc /\ Alive(seen[p]) /\ ~expired
               THEN "out" ELSE "unlinking")
    /\ UNCHANGED <<epoch, known, files, database>>

\* unlinkSync removes whatever file has the name by now.
UnlinkStale(p) ==
    /\ pc[p] = "unlinking"
    /\ lock' = NoLock
    /\ Goto(p, "reopening")
    /\ UNCHANGED <<seen, epoch, known, database>>

\* The metadata goes to the file this process created, if that still has a name.
WriteLock(p) ==
    /\ pc[p] = "created"
    /\ lock' = IF lock.by = p THEN [lock EXCEPT !.written = TRUE] ELSE lock
    /\ Goto(p, "leasing")
    /\ UNCHANGED <<seen, epoch, known, database>>

-----------------------------------------------------------------------------
\* acquireOwnerLease: one transaction.

\* No row, an expired one, or one of a dead process.
MayTakeOver == owner # NoProc => expired \/ ~Alive(owner)

\* Mutant: the epoch is not advanced when the lease has expired.
TakeOverSameEpoch(p) ==
    /\ MayTakeOver /\ ownerEpoch < MaxEpoch
    /\ owner' = p /\ ownerEpoch' = (IF expired THEN ownerEpoch ELSE ownerEpoch + 1)
    /\ expired' = FALSE
    /\ epoch' = [epoch EXCEPT ![p] = ownerEpoch']
    /\ superseded' = superseded \cup ({owner} \ {NoProc})
    /\ UNCHANGED leases

TakeOver(p) ==
    /\ MayTakeOver /\ ownerEpoch < MaxEpoch
    /\ owner' = p /\ ownerEpoch' = ownerEpoch + 1 /\ expired' = FALSE
    /\ epoch' = [epoch EXCEPT ![p] = ownerEpoch + 1]
    /\ superseded' = superseded \cup ({owner} \ {NoProc})
    /\ UNCHANGED leases

\* The constructor gets the lease ...
Lease(p) ==
    /\ pc[p] = "leasing"
    /\ TakeOver(p)
    /\ Goto(p, "rebuilding")
    /\ UNCHANGED <<known, files>>

\* ... or throws, and acquire removes the lock file, whoever's it is by now.
LeaseRefused(p) ==
    /\ pc[p] = "leasing" /\ ~MayTakeOver
    /\ lock' = NoLock
    /\ Goto(p, "out")
    /\ UNCHANGED <<seen, epoch, known, database>>

\* Mutant: only the operations of the new process are read.
RebuildNothing(p) ==
    /\ pc[p] = "rebuilding"
    /\ known' = [known EXCEPT ![p] = {}]
    /\ Goto(p, "owner")
    /\ UNCHANGED <<epoch, files, database>>

\* rebuildIsolationFromStore
Rebuild(p) ==
    /\ pc[p] = "rebuilding"
    /\ known' = [known EXCEPT ![p] = leases]
    /\ Goto(p, "owner")
    /\ UNCHANGED <<epoch, files, database>>

\* The heartbeat renews the row of its own process ...
Renew(p) ==
    /\ pc[p] = "owner" /\ owner = p
    /\ expired' = FALSE
    /\ UNCHANGED <<pc, epoch, known, files, owner, ownerEpoch, leases, superseded>>

\* ... takes an expired or abandoned row over like a new process would, and keeps
\* its isolation table as it is ...
Revive(p) ==
    /\ pc[p] = "owner" /\ owner # p
    /\ TakeOver(p)
    /\ UNCHANGED <<pc, known, files>>

\* ... or throws, which fences the domain and its store.
HeartbeatFails(p) ==
    /\ pc[p] = "owner" /\ owner # p /\ ~MayTakeOver
    /\ Goto(p, "fenced")
    /\ UNCHANGED <<epoch, known, files, database>>

-----------------------------------------------------------------------------
\* Writes.

\* registerOperationIntent: the isolation table admits it, the transaction checks
\* the epoch.
RegisterIntent(p) ==
    /\ pc[p] = "owner" /\ known[p] = {} /\ Current(p)
    /\ leases' = leases \cup {p}
    /\ known' = [known EXCEPT ![p] = {p}]
    /\ UNCHANGED <<pc, epoch, files, owner, ownerEpoch, expired, superseded>>

\* recordOperationResult of an operation it runs or recovers.
RecordResult(p, q) ==
    /\ pc[p] = "owner" /\ q \in known[p] /\ Current(p)
    /\ leases' = leases \ {q}
    /\ known' = [known EXCEPT ![p] = @ \ {q}]
    /\ UNCHANGED <<pc, epoch, files, owner, ownerEpoch, expired, superseded>>

\* A write outside a transaction (saveTask, saveRun, recordEventAndTransitionState,
\* recordCapability): the epoch is checked by one statement ...
CheckWrite(p) ==
    /\ pc[p] = "owner" /\ Current(p)
    /\ Goto(p, "writing")
    /\ UNCHANGED <<epoch, known, files, database>>

\* ... and the row is written by another.
PlainWrite(p) ==
    /\ pc[p] = "writing"
    /\ Goto(p, "owner")
    /\ UNCHANGED <<epoch, known, files, database>>

-----------------------------------------------------------------------------
\* close.

\* releaseOwnerLease, then the store and the descriptor are closed.
CloseLease(p) ==
    /\ pc[p] \in {"owner", "fenced"}
    /\ expired' = (expired \/ owner = p)
    /\ Goto(p, "closing")
    /\ UNCHANGED <<epoch, known, files, owner, ownerEpoch, leases, superseded>>

\* The lock file is read ...
CloseRead(p) ==
    /\ pc[p] = "closing"
    /\ Goto(p, IF lock = [by |-> p, written |-> TRUE] THEN "unlocking" ELSE "closed")
    /\ UNCHANGED <<epoch, known, files, database>>

\* ... and removed by name if it was its own.
CloseUnlink(p) ==
    /\ pc[p] = "unlocking"
    /\ lock' = NoLock
    /\ Goto(p, "closed")
    /\ UNCHANGED <<seen, epoch, known, database>>

-----------------------------------------------------------------------------
\* Time and failure (external).

\* The row is not renewed for its ttl.
Expire ==
    /\ owner # NoProc /\ ~expired
    /\ expired' = TRUE
    /\ UNCHANGED <<pc, epoch, known, files, owner, ownerEpoch, leases, superseded>>

Die(p) ==
    /\ Alive(p)
    /\ Goto(p, "dead")
    /\ UNCHANGED <<epoch, known, files, database>>

Acquire(p) == CreateLock(p) \/ LockExists(p) \/ ReadLock(p) \/ JudgeLock(p)
              \/ UnlinkStale(p) \/ WriteLock(p) \/ Lease(p) \/ LeaseRefused(p)
              \/ Rebuild(p)

Heartbeat(p) == Renew(p) \/ Revive(p) \/ HeartbeatFails(p)

Write(p) == \/ RegisterIntent(p) \/ CheckWrite(p) \/ PlainWrite(p)
            \/ \E q \in Proc : RecordResult(p, q)

Close(p) == CloseLease(p) \/ CloseRead(p) \/ CloseUnlink(p)

Next == \/ \E p \in Proc : Acquire(p) \/ Heartbeat(p) \/ Write(p) \/ Close(p) \/ Die(p)
        \/ Expire

Spec == Init /\ [][Next]_vars

\* A process that wants the domain calls acquire again when it is refused, a
\* timer fires and close runs to its end.  Nothing makes a lease expire.
Fairness == \A p \in Proc : WF_vars(Acquire(p)) /\ WF_vars(Heartbeat(p)) /\ WF_vars(Close(p))

LiveSpec == Spec /\ Fairness

-----------------------------------------------------------------------------
\* Types of the lock file, of the owners row and of each process (acquire).
TypeOK ==
    /\ pc \in [Proc -> Pc]
    /\ seen \in [Proc -> Proc \cup {NoProc}]
    /\ epoch \in [Proc -> Nat]
    /\ known \in [Proc -> SUBSET Proc]
    /\ lock \in [by : Proc \cup {NoProc}, written : BOOLEAN]
    /\ owner \in Proc \cup {NoProc}
    /\ ownerEpoch \in Nat
    /\ expired \in BOOLEAN
    /\ leases \in SUBSET Proc
    /\ superseded \in SUBSET Proc

\* No split brain: whatever happens to the lock file, at most one process can
\* commit a fenced transaction (acquireOwnerLease, verifyEpochFencing).
OneCurrentOwner ==
    \A p, q \in Proc : Serving(p) /\ Current(p) /\ Serving(q) /\ Current(q) => p = q

\* An owner that has never lost the domain knows every operation that holds the
\* resource, so it admits no second one: the rebuild comes after the fence that
\* stops the former owner's registrations (acquire, rebuildIsolationFromStore).
FreshOwnerKnowsAll ==
    \A p \in Proc : pc[p] \in {"owner", "writing"} /\ Current(p) /\ p \notin superseded
                    => leases \subseteq known[p]

\* Everybody but p is dead or has closed the domain.
Alone(p) == \A q \in Proc \ {p} : pc[q] \in {"dead", "closed"}

\* A crashed or closed owner never bars the domain: a process that is alone and
\* keeps calling acquire becomes its owner, without waiting for the lease to
\* expire and whatever lock file was left behind (acquire, close).
LoneAcquirerSucceeds ==
    \A p \in Proc : Alone(p) ~> (Serving(p) \/ pc[p] = "dead" \/ pc[p] = "closed"
                                \/ ownerEpoch = MaxEpoch)

\* A process that has lost the domain to another one registers nothing any more.
ResurrectedRejected ==
    [][\A p \in superseded : p \in leases' => p \in leases]_vars

\* The process that owns the domain has its lock file on the disk.
OwnerHoldsLockFile ==
    \A p \in Proc : pc[p] = "owner" /\ Current(p) => lock.by = p
=============================================================================
