----------------------- MODULE OperationLifecycleProofs -----------------------
(***************************************************************************)
(* Proofs about OperationLifecycle, with or without a gate and a cgroup    *)
(* and for any number of crashes: leases outlive the process, and a        *)
(* settled result is true.  Then about ReaperTree, the helper and the      *)
(* driver that the operation relies on: what they answer is true, and they *)
(* signal nobody else's process.  Last about OutputDrain, the output of    *)
(* the operation: its result shows and refers to what the process wrote.   *)
(***************************************************************************)
EXTENDS OperationLifecycle, ReaperTree, OutputDrain, WellFoundedInduction, TLAPS

\* Nothing of the operation runs that its driver can see.
Clean == root # "alive" /\ "group" \notin kids /\ (Contained => kids = {})

\* Before the first write there is nothing, before the process starts no stop
\* pipeline and no identity.
StartInv ==
    /\ row = "none" => root = "none" /\ results = 0
    /\ pc = "waiting" => row = "none"
    /\ pc \in {"waiting", "spawning"} => root = "none"
    /\ pc \in {"idle", "waiting", "spawning", "spawned"} => pipe = "none"
    /\ pc \in {"waiting", "spawning", "spawned"} => ~identity
    /\ pc = "waiting" => phase = "waiting_resources"
    /\ pc \in {"spawning", "spawned"} => phase = "spawning" /\ row # "none"
    /\ phase = "active" => pipe = "none"
    /\ row = "none" => ~identity
    /\ root \in {"none", "gated"} => kids = {}
    /\ Gated /\ ~identity => root # "alive" /\ kids = {}

\* The owner that can still start the process has an unfinished intent and its
\* leases; whoever recovers an operation has fenced or replaced that owner.
OwnerInv ==
    /\ pc \in {"spawning", "spawned"} /\ ~fenced => row = "intent_registered"
                                                    /\ results = 0 /\ lease
    /\ lost => fenced \/ pc = "idle"
    /\ ~Gated /\ pc = "spawning" => lease \/ verdict # "none"
    /\ ~Gated /\ pc = "spawning" => result # "settled"
    /\ results = 0 => result = "none"

\* What superviseActive knows when it gets to writing a result.
SuperviseInv ==
    /\ pipe = "confirmed" => Clean
    /\ pc \in {"draining", "reaping", "settling", "verifying", "await_stop"} =>
           root # "alive"
    /\ pc \in {"draining", "reaping", "settling"} /\ ~natural => pipe = "confirmed"
    /\ pc \in {"verifying", "await_stop"} =>
           /\ settlement \in {"stopped", "empty", "reaped", "unverified"}
           /\ settlement = "stopped" => StopPromise
           /\ settlement \in {"empty", "reaped"} => Clean

\* The inductive invariant.
IInv == TypeOK /\ StartInv /\ OwnerInv /\ SuperviseInv /\ NoPrematureRelease /\ SettledIsTrue

\* What keeps starts and results single and an unconfirmed stop durable: the
\* process exists once it was started, an abort has a fenced store, and a running
\* pipeline of an owner in charge finds no settled result.
OnceInv ==
    /\ root = "none" <=> spawns = 0
    /\ pc = "aborting" => fenced
    /\ pipe = "pending" /\ ~fenced /\ row = "done" => result = "indeterminate"
    /\ OnceOnly /\ UnconfirmedIsDurable

-----------------------------------------------------------------------------
\* Type correctness, one part of the state at a time.

StoreOK ==
    /\ row \in Row /\ identity \in BOOLEAN
    /\ result \in {"none", "settled", "indeterminate"} /\ claim \in Claim
    /\ results \in Nat /\ lease \in BOOLEAN
    /\ verdict \in {"none", "confirmed_stopped", "abandon_with_residuals"}
    /\ run \in {"running", "closed", "indeterminate"}

OsOK ==
    /\ root \in {"none", "gated", "alive", "dead"} /\ spawns \in Nat
    /\ kids \in SUBSET {"group", "escaped"}
    /\ stranger \in BOOLEAN /\ rebooted \in BOOLEAN /\ struck \in BOOLEAN

CallOK ==
    /\ pc \in Pc
    /\ phase \in {"waiting_resources", "spawning", "active", "stopping", "done"}
    /\ early \in Promise /\ pipe \in Promise /\ settlement \in Claim

FlagsOK ==
    /\ cancelled \in BOOLEAN /\ watched \in BOOLEAN /\ natural \in BOOLEAN
    /\ fenced \in BOOLEAN /\ lost \in BOOLEAN /\ crashes \in 0 .. MaxCrashes

\* The parts are the type invariant.
LEMMA TypeParts == TypeOK <=> StoreOK /\ OsOK /\ CallOK /\ FlagsOK
  BY DEF TypeOK, StoreOK, OsOK, CallOK, FlagsOK

\* The initial states are well typed.
LEMMA TypeInit == Init => TypeOK
<1> SUFFICES ASSUME Init PROVE StoreOK /\ OsOK /\ CallOK /\ FlagsOK
  BY TypeParts
<1>1. StoreOK
  BY DEF Init, StoreOK, Row, Claim
<1>2. OsOK
  BY DEF Init, OsOK
<1>3. CallOK
  BY DEF Init, CallOK, Pc, Promise, Claim
<1>4. crashes \in 0 .. MaxCrashes
  BY LifecycleAssumption DEF Init
<1>5. FlagsOK
  BY <1>4 DEF Init, FlagsOK
<1> QED
  BY <1>1, <1>2, <1>3, <1>5

\* Writes of results keep the types of the store.
LEMMA RecordType ==
  ASSUME StoreOK, NEW what \in Claim
  PROVE  /\ RecordSettled(what) => StoreOK'
         /\ RecordIndeterminate /\ run' \in {"running", "closed", "indeterminate"} => StoreOK'
         /\ UNCHANGED store => StoreOK'
<1>1. ASSUME RecordSettled(what) PROVE StoreOK'
  <2>1. results' \in Nat
    BY <1>1 DEF RecordSettled, StoreOK
  <2>2. lease' \in BOOLEAN
    BY <1>1 DEF RecordSettled
  <2> QED
    BY <1>1, <2>1, <2>2 DEF RecordSettled, StoreOK, Row
<1>2. RecordIndeterminate /\ run' \in {"running", "closed", "indeterminate"} => StoreOK'
  BY DEF RecordIndeterminate, StoreOK, Row
<1>3. UNCHANGED store => StoreOK'
  BY DEF store, StoreOK
<1> QED
  BY <1>1, <1>2, <1>3

\* So do finalizeOperation and a result written by recovery.
LEMMA FinalizeType ==
  ASSUME StoreOK, NEW what \in Claim
  PROVE  /\ Finalize(what) => StoreOK'
         /\ Isolate => StoreOK'
         /\ HoldLeases => StoreOK'
         /\ \A b \in BOOLEAN : RecoverAs(b, what) => StoreOK'
<1>1. Finalize(what) => StoreOK'
  BY RecordType DEF Finalize
<1>2. Isolate => StoreOK'
  BY RecordType DEF Isolate, StoreOK
<1>3. HoldLeases => StoreOK'
  BY <1>2, RecordType DEF HoldLeases
<1>4. ASSUME NEW b \in BOOLEAN, RecoverAs(b, what) PROVE StoreOK'
  BY <1>4, RecordType DEF RecoverAs, StoreOK
<1> QED
  BY <1>1, <1>2, <1>3, <1>4

\* A confirmed terminate and an unchanged operating system keep its types.
LEMMA OsType == ASSUME OsOK PROVE (Killed => OsOK') /\ (UNCHANGED os => OsOK')
<1>1. Killed => OsOK'
  BY DEF Killed, OsOK
<1>2. UNCHANGED os => OsOK'
  BY DEF os, OsOK
<1> QED
  BY <1>1, <1>2

\* A new owner has well typed flags.
LEMMA MemoryLostType == ASSUME FlagsOK, MemoryLost PROVE FlagsOK'
<1>1. crashes' \in 0 .. MaxCrashes
  BY LifecycleAssumption DEF FlagsOK, MemoryLost
<1> QED
  BY <1>1 DEF FlagsOK, MemoryLost

\* Every step keeps the types.
LEMMA TypeNext == TypeOK /\ [Next]_vars => TypeOK'
<1> SUFFICES ASSUME TypeOK, [Next]_vars PROVE TypeOK'
  OBVIOUS
<1> DEFINE Goal == StoreOK' /\ OsOK' /\ CallOK' /\ FlagsOK'
<1>0. StoreOK /\ OsOK /\ CallOK /\ FlagsOK
  BY TypeParts
<1>1. ASSUME Submit PROVE Goal
  <2>1. StoreOK'
    BY <1>0, <1>1 DEF Submit, store, StoreOK, Row
  <2>2. OsOK'
    BY <1>0, <1>1, OsType DEF Submit
  <2>3. CallOK'
    BY <1>0, <1>1 DEF Submit, CallOK, Pc, Promise, Claim
  <2>4. FlagsOK'
    BY <1>0, <1>1, LifecycleAssumption DEF Submit, Outside, FlagsOK
  <2> QED
    BY <2>1, <2>2, <2>3, <2>4
<1>2. ASSUME RegisterIntent PROVE Goal
  <2>1. StoreOK'
    BY <1>0, <1>2 DEF RegisterIntent, StoreOK, Row
  <2>2. OsOK'
    BY <1>0, <1>2, OsType DEF RegisterIntent
  <2>3. CallOK'
    BY <1>0, <1>2 DEF RegisterIntent, CallOK, Pc, Promise, Claim
  <2>4. FlagsOK'
    BY <1>0, <1>2, LifecycleAssumption DEF RegisterIntent, Outside, FlagsOK
  <2> QED
    BY <2>1, <2>2, <2>3, <2>4
<1>3. ASSUME RegisterFails PROVE Goal
  <2>1. StoreOK'
    BY <1>0, <1>3 DEF RegisterFails, store, StoreOK, Row
  <2>2. OsOK'
    BY <1>0, <1>3, OsType DEF RegisterFails
  <2>3. CallOK'
    BY <1>0, <1>3 DEF RegisterFails, Leave, AnswerEarly, CallOK, Pc, Promise, Claim
  <2>4. FlagsOK'
    BY <1>0, <1>3, LifecycleAssumption DEF RegisterFails, Leave, Outside, FlagsOK
  <2> QED
    BY <2>1, <2>2, <2>3, <2>4
<1>4. ASSUME CancelBeforeSpawn PROVE Goal
  <2>1. StoreOK'
    BY <1>0, <1>4, FinalizeType, RecordType DEF CancelBeforeSpawn, RecordSettled, Claim
  <2>2. OsOK'
    BY <1>0, <1>4, OsType DEF CancelBeforeSpawn
  <2>3. CallOK'
    BY <1>0, <1>4 DEF CancelBeforeSpawn, Leave, AnswerEarly, CallOK, Pc, Promise, Claim
  <2>4. FlagsOK'
    BY <1>0, <1>4, LifecycleAssumption DEF CancelBeforeSpawn, Leave, Outside, FlagsOK
  <2> QED
    BY <2>1, <2>2, <2>3, <2>4
<1>5. ASSUME SpawnChild PROVE Goal
  <2>1. StoreOK'
    BY <1>0, <1>5 DEF SpawnChild, store, StoreOK, Row
  <2>2. OsOK'
    BY <1>0, <1>5 DEF SpawnChild, OsOK
  <2>3. CallOK'
    BY <1>0, <1>5 DEF SpawnChild, CallOK, Pc, Promise, Claim
  <2>4. FlagsOK'
    BY <1>0, <1>5, LifecycleAssumption DEF SpawnChild, Outside, FlagsOK
  <2> QED
    BY <2>1, <2>2, <2>3, <2>4
<1>6. ASSUME SpawnFails PROVE Goal
  <2>1. StoreOK'
    BY <1>0, <1>6, FinalizeType, RecordType DEF SpawnFails, Claim
  <2>2. OsOK'
    BY <1>0, <1>6, OsType DEF SpawnFails
  <2>3. CallOK'
    BY <1>0, <1>6 DEF SpawnFails, Leave, AnswerEarly, CallOK, Pc, Promise, Claim
  <2>4. FlagsOK'
    BY <1>0, <1>6, LifecycleAssumption DEF SpawnFails, Leave, Outside, FlagsOK
  <2> QED
    BY <2>1, <2>2, <2>3, <2>4
<1>7. ASSUME Activate PROVE Goal
  <2>1. StoreOK'
    BY <1>0, <1>7 DEF Activate, StoreOK, Row
  <2>2. OsOK'
    BY <1>0, <1>7 DEF Activate, OsOK
  <2>3. CallOK'
    BY <1>0, <1>7 DEF Activate, CallOK, Pc, Promise, Claim
  <2>4. FlagsOK'
    BY <1>0, <1>7, LifecycleAssumption DEF Activate, FlagsOK
  <2> QED
    BY <2>1, <2>2, <2>3, <2>4
<1>8. ASSUME ActivateRefused PROVE Goal
  <2>1. StoreOK'
    BY <1>0, <1>8 DEF ActivateRefused, store, StoreOK, Row
  <2>2. OsOK'
    BY <1>0, <1>8, OsType DEF ActivateRefused
  <2>3. CallOK'
    BY <1>0, <1>8 DEF ActivateRefused, CallOK, Pc, Promise, Claim
  <2>4. FlagsOK'
    BY <1>0, <1>8, LifecycleAssumption DEF ActivateRefused, Outside, FlagsOK
  <2> QED
    BY <2>1, <2>2, <2>3, <2>4
<1>9. ASSUME ActivateUnrecordedUse PROVE Goal
  <2>1. StoreOK'
    BY <1>0, <1>9 DEF ActivateUnrecordedUse, StoreOK, Row
  <2>2. OsOK'
    BY <1>0, <1>9 DEF ActivateUnrecordedUse, OsOK
  <2>3. CallOK'
    BY <1>0, <1>9 DEF ActivateUnrecordedUse, CallOK, Pc, Promise, Claim
  <2>4. FlagsOK'
    BY <1>0, <1>9, LifecycleAssumption DEF ActivateUnrecordedUse, FlagsOK
  <2> QED
    BY <2>1, <2>2, <2>3, <2>4
<1>10. ASSUME AbortDone PROVE Goal
  <2>1. StoreOK'
    BY <1>0, <1>10, FinalizeType, RecordType DEF AbortDone, Claim
  <2>2. OsOK'
    BY <1>0, <1>10, OsType DEF AbortDone
  <2>3. CallOK'
    BY <1>0, <1>10 DEF AbortDone, AnswerEarly, CallOK, Pc, Promise, Claim
  <2>4. FlagsOK'
    BY <1>0, <1>10, LifecycleAssumption DEF AbortDone, Outside, FlagsOK
  <2> QED
    BY <2>1, <2>2, <2>3, <2>4
<1>11. ASSUME CancelEarly PROVE Goal
  <2>1. StoreOK'
    BY <1>0, <1>11 DEF CancelEarly, store, StoreOK, Row
  <2>2. OsOK'
    BY <1>0, <1>11, OsType DEF CancelEarly
  <2>3. CallOK'
    BY <1>0, <1>11 DEF CancelEarly, CallOK, Pc, Promise, Claim
  <2>4. FlagsOK'
    BY <1>0, <1>11, LifecycleAssumption DEF CancelEarly, Outside, FlagsOK
  <2> QED
    BY <2>1, <2>2, <2>3, <2>4
<1>12. ASSUME CancelActive PROVE Goal
  <2>1. StoreOK'
    BY <1>0, <1>12 DEF CancelActive, StopPromise, StartPipe, StoreOK, Row
  <2>2. OsOK'
    BY <1>0, <1>12, OsType DEF CancelActive
  <2>3. CallOK'
    BY <1>0, <1>12 DEF CancelActive, StartPipe, CallOK, Pc, Promise, Claim
  <2>4. FlagsOK'
    BY <1>0, <1>12, LifecycleAssumption DEF CancelActive, StartPipe, Outside, FlagsOK
  <2> QED
    BY <2>1, <2>2, <2>3, <2>4
<1>13. ASSUME PipeDone PROVE Goal
  <2>1. StoreOK'
    BY <1>0, <1>13, FinalizeType, RecordType DEF PipeDone, Claim
  <2>2. OsOK'
    BY <1>0, <1>13, OsType DEF PipeDone
  <2>3. CallOK'
    BY <1>0, <1>13 DEF PipeDone, AnswerEarly, CallOK, Pc, Promise, Claim
  <2>4. FlagsOK'
    BY <1>0, <1>13, LifecycleAssumption DEF PipeDone, Outside, FlagsOK
  <2> QED
    BY <2>1, <2>2, <2>3, <2>4
<1>14. ASSUME RaceExit PROVE Goal
  <2>1. StoreOK'
    BY <1>0, <1>14 DEF RaceExit, store, StoreOK, Row
  <2>2. OsOK'
    BY <1>0, <1>14, OsType DEF RaceExit
  <2>3. CallOK'
    BY <1>0, <1>14 DEF RaceExit, CallOK, Pc, Promise, Claim
  <2>4. FlagsOK'
    BY <1>0, <1>14, LifecycleAssumption DEF RaceExit, Outside, FlagsOK
  <2> QED
    BY <2>1, <2>2, <2>3, <2>4
<1>15. ASSUME RaceTimeout PROVE Goal
  <2>1. StoreOK'
    BY <1>0, <1>15 DEF RaceTimeout, store, StartPipe, StoreOK, Row
  <2>2. OsOK'
    BY <1>0, <1>15, OsType DEF RaceTimeout
  <2>3. CallOK'
    BY <1>0, <1>15 DEF RaceTimeout, StartPipe, CallOK, Pc, Promise, Claim
  <2>4. FlagsOK'
    BY <1>0, <1>15, LifecycleAssumption DEF RaceTimeout, StartPipe, Outside, FlagsOK
  <2> QED
    BY <2>1, <2>2, <2>3, <2>4
<1>16. ASSUME RaceStop PROVE Goal
  <2>1. StoreOK'
    BY <1>0, <1>16, FinalizeType, RecordType DEF RaceStop, Claim
  <2>2. OsOK'
    BY <1>0, <1>16, OsType DEF RaceStop
  <2>3. CallOK'
    BY <1>0, <1>16 DEF RaceStop, CallOK, Pc, Promise, Claim
  <2>4. FlagsOK'
    BY <1>0, <1>16, LifecycleAssumption DEF RaceStop, Outside, FlagsOK
  <2> QED
    BY <2>1, <2>2, <2>3, <2>4
<1>17. ASSUME RaceRejected PROVE Goal
  <2>1. StoreOK'
    BY <1>0, <1>17 DEF RaceRejected, store, StoreOK, Row
  <2>2. OsOK'
    BY <1>0, <1>17, OsType DEF RaceRejected
  <2>3. CallOK'
    BY <1>0, <1>17 DEF RaceRejected, CallOK, Pc, Promise, Claim
  <2>4. FlagsOK'
    BY <1>0, <1>17, LifecycleAssumption DEF RaceRejected, Outside, FlagsOK
  <2> QED
    BY <2>1, <2>2, <2>3, <2>4
<1>18. ASSUME TimeoutStopped PROVE Goal
  <2>1. StoreOK'
    BY <1>0, <1>18 DEF TimeoutStopped, store, StoreOK, Row
  <2>2. OsOK'
    BY <1>0, <1>18, OsType DEF TimeoutStopped
  <2>3. CallOK'
    BY <1>0, <1>18 DEF TimeoutStopped, CallOK, Pc, Promise, Claim
  <2>4. FlagsOK'
    BY <1>0, <1>18, LifecycleAssumption DEF TimeoutStopped, Outside, FlagsOK
  <2> QED
    BY <2>1, <2>2, <2>3, <2>4
<1>19. ASSUME TimeoutExit PROVE Goal
  <2>1. StoreOK'
    BY <1>0, <1>19, FinalizeType, RecordType DEF TimeoutExit, Claim
  <2>2. OsOK'
    BY <1>0, <1>19, OsType DEF TimeoutExit
  <2>3. CallOK'
    BY <1>0, <1>19 DEF TimeoutExit, CallOK, Pc, Promise, Claim
  <2>4. FlagsOK'
    BY <1>0, <1>19, LifecycleAssumption DEF TimeoutExit, Outside, FlagsOK
  <2> QED
    BY <2>1, <2>2, <2>3, <2>4
<1>20. ASSUME Drained PROVE Goal
  <2>1. StoreOK'
    BY <1>0, <1>20 DEF Drained, StopPromise, Verify, store, StoreOK, Row
  <2>2. OsOK'
    BY <1>0, <1>20, OsType DEF Drained
  <2>3. CallOK'
    BY <1>0, <1>20 DEF Drained, Verify, CallOK, Pc, Promise, Claim
  <2>4. FlagsOK'
    BY <1>0, <1>20, LifecycleAssumption DEF Drained, Verify, Outside, FlagsOK
  <2> QED
    BY <2>1, <2>2, <2>3, <2>4
<1>21. ASSUME DrainTimeout PROVE Goal
  <2>1. StoreOK'
    BY <1>0, <1>21, FinalizeType, RecordType DEF DrainTimeout, GiveUp, Claim
  <2>2. OsOK'
    BY <1>0, <1>21, OsType DEF DrainTimeout
  <2>3. CallOK'
    BY <1>0, <1>21 DEF DrainTimeout, GiveUp, CallOK, Pc, Promise, Claim
  <2>4. FlagsOK'
    BY <1>0, <1>21, LifecycleAssumption DEF DrainTimeout, GiveUp, Outside, FlagsOK
  <2> QED
    BY <2>1, <2>2, <2>3, <2>4
<1>22. ASSUME Reaped PROVE Goal
  <2>1. StoreOK'
    BY <1>0, <1>22, FinalizeType, RecordType DEF Reaped, Verify, GiveUp, Claim
  <2>2. OsOK'
    BY <1>0, <1>22, OsType DEF Reaped
  <2>3. CallOK'
    BY <1>0, <1>22 DEF Reaped, Verify, GiveUp, CallOK, Pc, Promise, Claim
  <2>4. FlagsOK'
    BY <1>0, <1>22, LifecycleAssumption DEF Reaped, Verify, GiveUp, Outside, FlagsOK
  <2> QED
    BY <2>1, <2>2, <2>3, <2>4
<1>23. ASSUME TreeSettled PROVE Goal
  <2>1. StoreOK'
    BY <1>0, <1>23, FinalizeType, RecordType DEF TreeSettled, Verify, GiveUp, Claim
  <2>2. OsOK'
    BY <1>0, <1>23, OsType DEF TreeSettled
  <2>3. CallOK'
    BY <1>0, <1>23 DEF TreeSettled, Verify, GiveUp, CallOK, Pc, Promise, Claim
  <2>4. FlagsOK'
    BY <1>0, <1>23, LifecycleAssumption DEF TreeSettled, Verify, GiveUp, Outside,
                                            FlagsOK
  <2> QED
    BY <2>1, <2>2, <2>3, <2>4
<1>24. ASSUME Verified PROVE Goal
  <2>1. StoreOK'
    BY <1>0, <1>24, FinalizeType, RecordType DEF Verified, CallOK
  <2>2. OsOK'
    BY <1>0, <1>24, OsType DEF Verified
  <2>3. CallOK'
    BY <1>0, <1>24 DEF Verified, CallOK, Pc, Promise, Claim
  <2>4. FlagsOK'
    BY <1>0, <1>24, LifecycleAssumption DEF Verified, Outside, FlagsOK
  <2> QED
    BY <2>1, <2>2, <2>3, <2>4
<1>25. ASSUME StopAwaited PROVE Goal
  <2>1. StoreOK'
    BY <1>0, <1>25, FinalizeType, RecordType DEF StopAwaited, CallOK
  <2>2. OsOK'
    BY <1>0, <1>25, OsType DEF StopAwaited
  <2>3. CallOK'
    BY <1>0, <1>25 DEF StopAwaited, CallOK, Pc, Promise, Claim
  <2>4. FlagsOK'
    BY <1>0, <1>25, LifecycleAssumption DEF StopAwaited, Outside, FlagsOK
  <2> QED
    BY <2>1, <2>2, <2>3, <2>4
<1>26. ASSUME Finally PROVE Goal
  <2>1. StoreOK'
    BY <1>0, <1>26 DEF Finally, store, StoreOK, Row
  <2>2. OsOK'
    BY <1>0, <1>26, OsType DEF Finally
  <2>3. CallOK'
    BY <1>0, <1>26 DEF Finally, Leave, AnswerEarly, CallOK, Pc, Promise, Claim
  <2>4. FlagsOK'
    BY <1>0, <1>26, LifecycleAssumption DEF Finally, Leave, Outside, FlagsOK
  <2> QED
    BY <2>1, <2>2, <2>3, <2>4
<1>27. ASSUME RootExits PROVE Goal
  <2>1. StoreOK'
    BY <1>0, <1>27 DEF RootExits, store, StoreOK, Row
  <2>2. OsOK'
    BY <1>0, <1>27 DEF RootExits, OsOK
  <2>3. CallOK'
    BY <1>0, <1>27 DEF RootExits, memory, CallOK, Pc, Promise, Claim
  <2>4. FlagsOK'
    BY <1>0, <1>27, LifecycleAssumption DEF RootExits, memory, Outside, FlagsOK
  <2> QED
    BY <2>1, <2>2, <2>3, <2>4
<1>28. ASSUME PgidReused PROVE Goal
  <2>1. StoreOK'
    BY <1>0, <1>28 DEF PgidReused, store, StoreOK, Row
  <2>2. OsOK'
    BY <1>0, <1>28 DEF PgidReused, OsOK
  <2>3. CallOK'
    BY <1>0, <1>28 DEF PgidReused, memory, CallOK, Pc, Promise, Claim
  <2>4. FlagsOK'
    BY <1>0, <1>28, LifecycleAssumption DEF PgidReused, memory, Outside, FlagsOK
  <2> QED
    BY <2>1, <2>2, <2>3, <2>4
<1>29. ASSUME CloseRun PROVE Goal
  <2>1. StoreOK'
    BY <1>0, <1>29 DEF CloseRun, StoreOK, Row
  <2>2. OsOK'
    BY <1>0, <1>29, OsType DEF CloseRun
  <2>3. CallOK'
    BY <1>0, <1>29 DEF CloseRun, memory, CallOK, Pc, Promise, Claim
  <2>4. FlagsOK'
    BY <1>0, <1>29, LifecycleAssumption DEF CloseRun, memory, Outside, FlagsOK
  <2> QED
    BY <2>1, <2>2, <2>3, <2>4
<1>30. ASSUME Fence PROVE Goal
  <2>1. StoreOK'
    BY <1>0, <1>30 DEF Fence, store, StoreOK, Row
  <2>2. OsOK'
    BY <1>0, <1>30, OsType DEF Fence
  <2>3. CallOK'
    BY <1>0, <1>30 DEF Fence, memory, CallOK, Pc, Promise, Claim
  <2>4. FlagsOK'
    BY <1>0, <1>30, LifecycleAssumption DEF Fence, memory, FlagsOK
  <2> QED
    BY <2>1, <2>2, <2>3, <2>4
<1>31. ASSUME Crash PROVE Goal
  <2>1. StoreOK'
    BY <1>0, <1>31 DEF Crash, MemoryLost, store, StoreOK, Row
  <2>2. OsOK'
    BY <1>0, <1>31, OsType DEF Crash
  <2>3. CallOK'
    BY <1>0, <1>31 DEF Crash, MemoryLost, CallOK, Pc, Promise, Claim
  <2>4. FlagsOK'
    BY <1>31, MemoryLostType, <1>0 DEF Crash
  <2> QED
    BY <2>1, <2>2, <2>3, <2>4
<1>32. ASSUME HostReboot PROVE Goal
  <2>1. StoreOK'
    BY <1>0, <1>32 DEF HostReboot, MemoryLost, store, StoreOK, Row
  <2>2. OsOK'
    BY <1>0, <1>32 DEF HostReboot, OsOK
  <2>3. CallOK'
    BY <1>0, <1>32 DEF HostReboot, MemoryLost, CallOK, Pc, Promise, Claim
  <2>4. FlagsOK'
    BY <1>32, MemoryLostType, <1>0 DEF HostReboot
  <2> QED
    BY <2>1, <2>2, <2>3, <2>4
<1>33. ASSUME CrashInFinalize PROVE Goal
  <2>1. StoreOK'
    BY <1>0, <1>33, RecordType DEF CrashInFinalize, StoreOK, Claim
  <2>2. OsOK'
    BY <1>0, <1>33, OsType DEF CrashInFinalize
  <2>3. CallOK'
    BY <1>0, <1>33 DEF CrashInFinalize, MemoryLost, CallOK, Pc, Promise, Claim
  <2>4. FlagsOK'
    BY <1>33, MemoryLostType, <1>0 DEF CrashInFinalize
  <2> QED
    BY <2>1, <2>2, <2>3, <2>4
<1>34. ASSUME RecoverWithoutIdentity PROVE Goal
  <2>1. StoreOK'
    BY <1>0, <1>34, FinalizeType, RecordType DEF RecoverWithoutIdentity, Claim
  <2>2. OsOK'
    BY <1>0, <1>34, OsType DEF RecoverWithoutIdentity
  <2>3. CallOK'
    BY <1>0, <1>34 DEF RecoverWithoutIdentity, RecoverAs, memory, CallOK, Pc, Promise,
                       Claim
  <2>4. FlagsOK'
    BY <1>0, <1>34, LifecycleAssumption DEF RecoverWithoutIdentity, RecoverAs, memory,
                                            Outside, FlagsOK
  <2> QED
    BY <2>1, <2>2, <2>3, <2>4
<1>35. ASSUME RecoverAlive PROVE Goal
  <2>1. StoreOK'
    BY <1>0, <1>35, FinalizeType, RecordType DEF RecoverAlive, Claim
  <2>2. OsOK'
    <3>1. Killed \/ UNCHANGED os
      BY <1>35 DEF RecoverAlive
    <3> QED
      BY <1>0, <3>1, OsType
  <2>3. CallOK'
    BY <1>0, <1>35 DEF RecoverAlive, RecoverAs, memory, CallOK, Pc, Promise, Claim
  <2>4. FlagsOK'
    BY <1>0, <1>35, LifecycleAssumption DEF RecoverAlive, RecoverAs, memory, Outside,
                                            FlagsOK
  <2> QED
    BY <2>1, <2>2, <2>3, <2>4
<1>36. ASSUME RecoverDeadContained PROVE Goal
  <2>1. StoreOK'
    BY <1>0, <1>36, FinalizeType, RecordType DEF RecoverDeadContained, Claim
  <2>2. OsOK'
    BY <1>0, <1>36, OsType DEF RecoverDeadContained
  <2>3. CallOK'
    BY <1>0, <1>36 DEF RecoverDeadContained, RecoverAs, memory, CallOK, Pc, Promise,
                       Claim
  <2>4. FlagsOK'
    BY <1>0, <1>36, LifecycleAssumption DEF RecoverDeadContained, RecoverAs, memory,
                                            Outside, FlagsOK
  <2> QED
    BY <2>1, <2>2, <2>3, <2>4
<1>37. ASSUME RecoverDeadGroupEmpty PROVE Goal
  <2>1. StoreOK'
    BY <1>0, <1>37, FinalizeType, RecordType DEF RecoverDeadGroupEmpty, Claim
  <2>2. OsOK'
    BY <1>0, <1>37, OsType DEF RecoverDeadGroupEmpty
  <2>3. CallOK'
    BY <1>0, <1>37 DEF RecoverDeadGroupEmpty, RecoverAs, memory, CallOK, Pc, Promise,
                       Claim
  <2>4. FlagsOK'
    BY <1>0, <1>37, LifecycleAssumption DEF RecoverDeadGroupEmpty, RecoverAs, memory,
                                            Outside, FlagsOK
  <2> QED
    BY <2>1, <2>2, <2>3, <2>4
<1>38. ASSUME RecoverDeadGroupAlive PROVE Goal
  <2>1. StoreOK'
    BY <1>0, <1>38, FinalizeType, RecordType DEF RecoverDeadGroupAlive, Claim
  <2>2. OsOK'
    BY <1>0, <1>38, OsType DEF RecoverDeadGroupAlive, OsOK
  <2>3. CallOK'
    BY <1>0, <1>38 DEF RecoverDeadGroupAlive, RecoverAs, memory, CallOK, Pc, Promise,
                       Claim
  <2>4. FlagsOK'
    BY <1>0, <1>38, LifecycleAssumption DEF RecoverDeadGroupAlive, RecoverAs, memory,
                                            Outside, FlagsOK
  <2> QED
    BY <2>1, <2>2, <2>3, <2>4
<1>39. ASSUME RecoverUndetermined PROVE Goal
  <2>1. StoreOK'
    BY <1>0, <1>39, FinalizeType, RecordType DEF RecoverUndetermined, Claim
  <2>2. OsOK'
    BY <1>0, <1>39, OsType DEF RecoverUndetermined
  <2>3. CallOK'
    BY <1>0, <1>39 DEF RecoverUndetermined, RecoverAs, memory, CallOK, Pc, Promise,
                       Claim
  <2>4. FlagsOK'
    BY <1>0, <1>39, LifecycleAssumption DEF RecoverUndetermined, RecoverAs, memory,
                                            Outside, FlagsOK
  <2> QED
    BY <2>1, <2>2, <2>3, <2>4
<1>40. ASSUME RecoverRun PROVE Goal
  <2>1. StoreOK'
    BY <1>0, <1>40 DEF RecoverRun, Unfinished, StoreOK, Row
  <2>2. OsOK'
    BY <1>0, <1>40, OsType DEF RecoverRun
  <2>3. CallOK'
    BY <1>0, <1>40 DEF RecoverRun, memory, CallOK, Pc, Promise, Claim
  <2>4. FlagsOK'
    BY <1>0, <1>40, LifecycleAssumption DEF RecoverRun, memory, FlagsOK
  <2> QED
    BY <2>1, <2>2, <2>3, <2>4
<1>41. ASSUME NEW v \in {"group", "escaped"}, Fork(v)
       PROVE  Goal
  <2>1. StoreOK'
    BY <1>0, <1>41 DEF Fork, store, StoreOK, Row
  <2>2. OsOK'
    BY <1>0, <1>41 DEF Fork, OsOK
  <2>3. CallOK'
    BY <1>0, <1>41 DEF Fork, memory, CallOK, Pc, Promise, Claim
  <2>4. FlagsOK'
    BY <1>0, <1>41, LifecycleAssumption DEF Fork, memory, Outside, FlagsOK
  <2> QED
    BY <2>1, <2>2, <2>3, <2>4
<1>42. ASSUME NEW v \in {"group", "escaped"}, KidExits(v)
       PROVE  Goal
  <2>1. StoreOK'
    BY <1>0, <1>42 DEF KidExits, store, StoreOK, Row
  <2>2. OsOK'
    BY <1>0, <1>42 DEF KidExits, OsOK
  <2>3. CallOK'
    BY <1>0, <1>42 DEF KidExits, memory, CallOK, Pc, Promise, Claim
  <2>4. FlagsOK'
    BY <1>0, <1>42, LifecycleAssumption DEF KidExits, memory, Outside, FlagsOK
  <2> QED
    BY <2>1, <2>2, <2>3, <2>4
<1>43. ASSUME NEW v \in {"confirmed_stopped", "abandon_with_residuals"}, Adjudicate(v)
       PROVE  Goal
  <2>1. StoreOK'
    BY <1>0, <1>43 DEF Adjudicate, StoreOK, Row
  <2>2. OsOK'
    BY <1>0, <1>43, OsType DEF Adjudicate
  <2>3. CallOK'
    BY <1>0, <1>43 DEF Adjudicate, memory, CallOK, Pc, Promise, Claim
  <2>4. FlagsOK'
    BY <1>0, <1>43, LifecycleAssumption DEF Adjudicate, memory, Outside, FlagsOK
  <2> QED
    BY <2>1, <2>2, <2>3, <2>4
<1>44. ASSUME UNCHANGED vars PROVE Goal
  BY <1>0, <1>44 DEF vars, store, os, memory, Outside, StoreOK, OsOK, CallOK, FlagsOK
<1>45. Goal
  BY <1>1, <1>2, <1>3, <1>4, <1>5, <1>6, <1>7, <1>8, <1>9, <1>10, <1>11, <1>12, <1>13,
     <1>14, <1>15, <1>16, <1>17, <1>18, <1>19, <1>20, <1>21, <1>22, <1>23, <1>24,
     <1>25, <1>26, <1>27, <1>28, <1>29, <1>30, <1>31, <1>32, <1>33, <1>34, <1>35,
     <1>36, <1>37, <1>38, <1>39, <1>40, <1>41, <1>42, <1>43, <1>44
     DEF Next, Start, Stop, Supervise, Environment, Recover
<1> QED
  BY <1>45 DEF TypeOK, StoreOK, OsOK, CallOK, FlagsOK

\* Every reachable state is well typed.
THEOREM TypeCorrect == Spec => []TypeOK
  BY TypeInit, TypeNext, PTL DEF Spec

-----------------------------------------------------------------------------
\* Leases and results.

\* The invariant holds initially.
LEMMA InvInit == Init => IInv
<1> SUFFICES ASSUME Init PROVE IInv
  OBVIOUS
<1>1. StartInv /\ OwnerInv /\ SuperviseInv /\ NoPrematureRelease /\ SettledIsTrue
  BY DEF Init, StartInv, OwnerInv, SuperviseInv, NoPrematureRelease, SettledIsTrue
<1> QED
  BY <1>1, TypeInit DEF IInv

\* A confirmed terminate leaves nothing that the driver can see.
LEMMA KilledClean ==
  ASSUME OsOK, Killed
  PROVE  /\ Clean'
         /\ root' \in {"none", "dead"} /\ (root' = "none" <=> root = "none")
         /\ kids = {} => kids' = {}
<1>1. kids = {} => kids' = {}
  BY DEF Killed
<1> QED
  BY <1>1 DEF OsOK, Killed, Clean

\* A recover() that throws at a recorded result leaves the store as it was; its
\* signals have only ended processes.
LEMMA ThrowKeeps ==
  ASSUME StartInv, OwnerInv, SuperviseInv, NoPrematureRelease, SettledIsTrue,
         UNCHANGED <<store, memory, Outside>>,
         root' \in {root, "dead"}, root' = "none" <=> root = "none", kids' \subseteq kids
  PROVE  StartInv' /\ OwnerInv' /\ SuperviseInv' /\ NoPrematureRelease' /\ SettledIsTrue'
<1> USE DEF store, memory, Outside
<1>1. StartInv'
  BY DEF StartInv
<1>2. OwnerInv'
  BY DEF OwnerInv
<1>3. Clean => Clean'
  BY DEF Clean
<1>4. SuperviseInv'
  BY <1>3 DEF SuperviseInv, StopPromise
<1>5. NoPrematureRelease' /\ SettledIsTrue'
  BY DEF NoPrematureRelease, SettledIsTrue
<1> QED
  BY <1>1, <1>2, <1>4, <1>5

\* Every step preserves it.
LEMMA InvNext == IInv /\ [Next]_vars => IInv'
<1> SUFFICES ASSUME IInv, [Next]_vars PROVE IInv'
  OBVIOUS
<1> DEFINE Goal == /\ StartInv' /\ OwnerInv' /\ SuperviseInv'
                   /\ NoPrematureRelease' /\ SettledIsTrue'
<1>0. TypeOK' /\ TypeOK
  BY TypeNext DEF IInv
<1>a. StoreOK /\ OsOK /\ CallOK /\ FlagsOK
  BY <1>0, TypeParts
<1> USE <1>a DEF IInv, StoreOK, OsOK, CallOK, FlagsOK, StartInv, OwnerInv, SuperviseInv,
                 NoPrematureRelease, SettledIsTrue, StopPromise, store, os, Outside
<1>1. ASSUME Submit PROVE Goal
  BY <1>1 DEF Submit, Clean
<1>2. ASSUME RegisterIntent PROVE Goal
  BY <1>2 DEF RegisterIntent, Clean
<1>3. ASSUME RegisterFails PROVE Goal
  BY <1>3 DEF RegisterFails, Leave, AnswerEarly, Clean
<1>4. ASSUME CancelBeforeSpawn PROVE Goal
  BY <1>4 DEF CancelBeforeSpawn, Leave, AnswerEarly, RecordSettled, Clean
<1>5. ASSUME SpawnChild PROVE Goal
  BY <1>5 DEF SpawnChild, Clean
<1>6. ASSUME SpawnFails PROVE Goal
  BY <1>6 DEF SpawnFails, Leave, AnswerEarly, Finalize, Recordable, RecordSettled,
              Clean
<1>7. ASSUME Activate PROVE Goal
  BY <1>7 DEF Activate, Clean
<1>8. ASSUME ActivateRefused PROVE Goal
  BY <1>8 DEF ActivateRefused, Clean
<1>9. ASSUME ActivateUnrecordedUse PROVE Goal
  BY <1>9 DEF ActivateUnrecordedUse, Clean
<1>10. ASSUME AbortDone PROVE Goal
  <2>1. StartInv'
    <3>1. /\ root' = root \/ (root' \in {"none", "dead"} /\ (root' = "none" <=> root = "none"))
          /\ kids = {} => kids' = {}
      BY <1>10, KilledClean DEF AbortDone
    <3>2. identity' = identity /\ ((row' = row /\ results' = results) \/ row' = "done")
      BY <1>10 DEF AbortDone, Finalize, Isolate, Recordable, RecordSettled, RecordIndeterminate
    <3>3. pc' \notin {"idle", "waiting", "spawning", "spawned"}
          /\ (phase' = "active" => pipe' = "none")
      BY <1>10 DEF AbortDone
    <3> QED
      BY <3>1, <3>2, <3>3
  <2>2. OwnerInv'
    BY <1>10, KilledClean DEF AbortDone, AnswerEarly, Finalize, Recordable,
                              RecordSettled, Isolate, RecordIndeterminate, Clean
  <2>3. SuperviseInv'
    BY <1>10, KilledClean DEF AbortDone, AnswerEarly, Finalize, Recordable,
                              RecordSettled, Isolate, RecordIndeterminate, Clean
  <2>4. NoPrematureRelease'
    BY <1>10, KilledClean DEF AbortDone, AnswerEarly, Finalize, Recordable,
                              RecordSettled, Isolate, RecordIndeterminate, Clean
  <2>5. SettledIsTrue'
    BY <1>10, KilledClean DEF AbortDone, AnswerEarly, Finalize, Recordable,
                              RecordSettled, Isolate, RecordIndeterminate, Clean
  <2> QED
    BY <2>1, <2>2, <2>3, <2>4, <2>5
<1>11. ASSUME CancelEarly PROVE Goal
  BY <1>11 DEF CancelEarly, InFlight, Clean
<1>12. ASSUME CancelActive PROVE Goal
  BY <1>12 DEF CancelActive, InFlight, StartPipe, Clean
<1>13. ASSUME PipeDone PROVE Goal
  <2>1. StartInv'
    <3>1. /\ root' = root \/ (root' \in {"none", "dead"} /\ (root' = "none" <=> root = "none"))
          /\ kids = {} => kids' = {}
      BY <1>13, KilledClean DEF PipeDone
    <3>2. identity' = identity /\ ((row' = row /\ results' = results) \/ row' = "done")
      BY <1>13 DEF PipeDone, Isolate, Recordable, RecordIndeterminate
    <3>3. pc' \notin {"idle", "waiting", "spawning", "spawned"}
          /\ (phase' = "active" => pipe' = "none")
      BY <1>13 DEF PipeDone
    <3> QED
      BY <3>1, <3>2, <3>3
  <2>2. OwnerInv'
    BY <1>13, KilledClean DEF PipeDone, AnswerEarly, Isolate, Recordable,
                              RecordIndeterminate, IsolateReturns, Clean
  <2>3. SuperviseInv'
    BY <1>13, KilledClean DEF PipeDone, AnswerEarly, Isolate, Recordable,
                              RecordIndeterminate, IsolateReturns, Clean
  <2>4. NoPrematureRelease'
    BY <1>13, KilledClean DEF PipeDone, AnswerEarly, Isolate, Recordable,
                              RecordIndeterminate, IsolateReturns, Clean
  <2>5. SettledIsTrue'
    BY <1>13, KilledClean DEF PipeDone, AnswerEarly, Isolate, Recordable,
                              RecordIndeterminate, IsolateReturns, Clean
  <2> QED
    BY <2>1, <2>2, <2>3, <2>4, <2>5
<1>14. ASSUME RaceExit PROVE Goal
  BY <1>14 DEF RaceExit, Clean
<1>15. ASSUME RaceTimeout PROVE Goal
  BY <1>15 DEF RaceTimeout, StartPipe, Clean
<1>16. ASSUME RaceStop PROVE Goal
  BY <1>16 DEF RaceStop, HoldLeases, Isolate, Recordable, RecordIndeterminate, Clean
<1>17. ASSUME RaceRejected PROVE Goal
  BY <1>17 DEF RaceRejected, Clean
<1>18. ASSUME TimeoutStopped PROVE Goal
  BY <1>18 DEF TimeoutStopped, Clean
<1>19. ASSUME TimeoutExit PROVE Goal
  BY <1>19 DEF TimeoutExit, Isolate, Recordable, RecordIndeterminate, Clean
<1>20. ASSUME Drained PROVE Goal
  BY <1>20 DEF Drained, Verify, Clean
<1>21. ASSUME DrainTimeout PROVE Goal
  BY <1>21 DEF DrainTimeout, GiveUp, Isolate, Recordable, RecordIndeterminate, Clean
<1>22. ASSUME Reaped PROVE Goal
  <2>1. StartInv'
    <3>1. /\ root' = root \/ (root' \in {"none", "dead"} /\ (root' = "none" <=> root = "none"))
          /\ kids = {} => kids' = {}
      BY <1>22, KilledClean DEF Reaped
    <3>2. identity' = identity /\ ((row' = row /\ results' = results) \/ row' = "done")
      BY <1>22 DEF Reaped, Verify, GiveUp, Isolate, Recordable, RecordIndeterminate
    <3>3. pc' \notin {"idle", "waiting", "spawning", "spawned"}
          /\ (phase' = "active" => pipe' = "none")
      BY <1>22 DEF Reaped, Verify, GiveUp
    <3> QED
      BY <3>1, <3>2, <3>3
  <2>2. OwnerInv'
    BY <1>22, KilledClean DEF Reaped, Verify, GiveUp, Isolate, Recordable,
                              RecordIndeterminate, Clean
  <2>3. SuperviseInv'
    BY <1>22, KilledClean DEF Reaped, Verify, GiveUp, Isolate, Recordable,
                              RecordIndeterminate, Clean
  <2>4. NoPrematureRelease'
    BY <1>22, KilledClean DEF Reaped, Verify, GiveUp, Isolate, Recordable,
                              RecordIndeterminate, Clean
  <2>5. SettledIsTrue'
    BY <1>22, KilledClean DEF Reaped, Verify, GiveUp, Isolate, Recordable,
                              RecordIndeterminate, Clean
  <2> QED
    BY <2>1, <2>2, <2>3, <2>4, <2>5
<1>23. ASSUME TreeSettled PROVE Goal
  <2>1. StartInv'
    <3>1. /\ root' = root \/ (root' \in {"none", "dead"} /\ (root' = "none" <=> root = "none"))
          /\ kids = {} => kids' = {}
      BY <1>23, KilledClean DEF TreeSettled
    <3>2. identity' = identity /\ ((row' = row /\ results' = results) \/ row' = "done")
      BY <1>23 DEF TreeSettled, Verify, GiveUp, Isolate, Recordable, RecordIndeterminate
    <3>3. pc' \notin {"idle", "waiting", "spawning", "spawned"}
          /\ (phase' = "active" => pipe' = "none")
      BY <1>23 DEF TreeSettled, Verify, GiveUp
    <3> QED
      BY <3>1, <3>2, <3>3
  <2>2. OwnerInv'
    BY <1>23, KilledClean DEF TreeSettled, Verify, GiveUp, Isolate, Recordable,
                              RecordIndeterminate, Clean
  <2>3. SuperviseInv'
    BY <1>23, KilledClean DEF TreeSettled, Verify, GiveUp, Isolate, Recordable,
                              RecordIndeterminate, Clean
  <2>4. NoPrematureRelease'
    BY <1>23, KilledClean DEF TreeSettled, Verify, GiveUp, Isolate, Recordable,
                              RecordIndeterminate, Clean
  <2>5. SettledIsTrue'
    BY <1>23, KilledClean DEF TreeSettled, Verify, GiveUp, Isolate, Recordable,
                              RecordIndeterminate, Clean
  <2> QED
    BY <2>1, <2>2, <2>3, <2>4, <2>5
<1>24. ASSUME Verified PROVE Goal
  BY <1>24 DEF Verified, Finalize, Recordable, RecordSettled, Clean
<1>25. ASSUME StopAwaited PROVE Goal
  BY <1>25 DEF StopAwaited, Finalize, Recordable, RecordSettled, HoldLeases, Isolate,
               RecordIndeterminate, Clean
<1>26. ASSUME Finally PROVE Goal
  BY <1>26 DEF Finally, Leave, AnswerEarly, Clean
<1>27. ASSUME RootExits PROVE Goal
  BY <1>27 DEF RootExits, memory, Clean
<1>28. ASSUME PgidReused PROVE Goal
  BY <1>28 DEF PgidReused, memory, Clean
<1>29. ASSUME CloseRun PROVE Goal
  BY <1>29 DEF CloseRun, memory, Clean
<1>30. ASSUME Fence PROVE Goal
  BY <1>30 DEF Fence, memory, Clean
<1>31. ASSUME Crash PROVE Goal
  BY <1>31 DEF Crash, MemoryLost, Clean
<1>32. ASSUME HostReboot PROVE Goal
  BY <1>32 DEF HostReboot, MemoryLost, Clean
<1>33. ASSUME CrashInFinalize PROVE Goal
  BY <1>33 DEF CrashInFinalize, Recordable, RecordIndeterminate, MemoryLost, Clean
<1>34. ASSUME RecoverWithoutIdentity PROVE Goal
  <2>1. CASE results # 0
    <3>1. UNCHANGED <<store, memory, Outside, os>>
      BY <1>34, <2>1 DEF RecoverWithoutIdentity, RecoverAs, RecordSettled, RecordIndeterminate
    <3> QED
      BY ONLY IInv, ThrowKeeps, <3>1 DEF IInv, os
  <2>2. CASE results = 0
    BY <1>34, <2>2 DEF RecoverWithoutIdentity, ToRecover, Unfinished, RecoverAs,
       RecordIndeterminate, RecordSettled, memory, Clean
  <2> QED
    BY <2>1, <2>2
<1>35. ASSUME RecoverAlive PROVE Goal
  <2>0. CASE results # 0
    <3>1. UNCHANGED <<store, memory, Outside>>
      BY <1>35, <2>0 DEF RecoverAlive, RecoverAs, RecordSettled, RecordIndeterminate
    <3>2. /\ root' \in {root, "dead"} /\ (root' = "none" <=> root = "none")
          /\ kids' \subseteq kids
      BY <1>35 DEF RecoverAlive, Killed, ToRecover
    <3> QED
      BY ONLY IInv, ThrowKeeps, <3>1, <3>2 DEF IInv
  <2> SUFFICES ASSUME results = 0 PROVE Goal
    BY <2>0
  <2>1. StartInv'
    BY <1>35, KilledClean DEF RecoverAlive, ToRecover, Unfinished, RecoverAs,
                              RecordIndeterminate, RecordSettled, memory, Clean
  <2>2. OwnerInv'
    <3>1. pc # "spawning" /\ (pc = "spawned" => fenced)
      BY <1>35 DEF RecoverAlive, ToRecover
    <3>2. results' = results + 1 /\ UNCHANGED <<pc, fenced, lost>>
      BY <1>35 DEF RecoverAlive, RecoverAs, RecordIndeterminate, RecordSettled,
                   memory, store, Outside
    <3> QED
      BY <3>1, <3>2
  <2>3. SuperviseInv'
    BY <1>35, KilledClean DEF RecoverAlive, ToRecover, Unfinished, RecoverAs,
                              RecordIndeterminate, RecordSettled, memory, Clean
  <2>4. NoPrematureRelease'
    <3>1. CASE Killed
      BY <3>1, KilledClean
    <3>2. CASE UNCHANGED os /\ RecoverAs(TRUE, "none")
      BY <3>2 DEF RecoverAs, RecordIndeterminate
    <3> QED
      BY <1>35, <3>1, <3>2 DEF RecoverAlive
  <2>5. SettledIsTrue'
    BY <1>35, KilledClean DEF RecoverAlive, ToRecover, Unfinished, RecoverAs,
                              RecordIndeterminate, RecordSettled, memory, Clean
  <2> QED
    BY <2>1, <2>2, <2>3, <2>4, <2>5
<1>36. ASSUME RecoverDeadContained PROVE Goal
  <2>0. CASE results # 0
    <3>1. UNCHANGED <<store, memory, Outside>>
      BY <1>36, <2>0 DEF RecoverDeadContained, RecoverAs, RecordSettled, RecordIndeterminate
    <3>2. /\ root' \in {root, "dead"} /\ (root' = "none" <=> root = "none")
          /\ kids' \subseteq kids
      BY <1>36 DEF RecoverDeadContained, Killed, ToRecover
    <3> QED
      BY ONLY IInv, ThrowKeeps, <3>1, <3>2 DEF IInv
  <2> SUFFICES ASSUME results = 0 PROVE Goal
    BY <2>0
  <2>1. StartInv'
    BY <1>36, KilledClean DEF RecoverDeadContained, ToRecover, Unfinished, RecoverAs,
                              RecordIndeterminate, RecordSettled, memory, Clean
  <2>2. OwnerInv'
    <3>1. pc # "spawning" /\ (pc = "spawned" => fenced)
      BY <1>36 DEF RecoverDeadContained, ToRecover
    <3>2. results' = results + 1 /\ UNCHANGED <<pc, fenced, lost>>
      BY <1>36 DEF RecoverDeadContained, RecoverAs, RecordIndeterminate, RecordSettled,
                   memory, store, Outside
    <3> QED
      BY <3>1, <3>2
  <2>3. SuperviseInv'
    <3>1. root' # "alive" /\ (Clean => Clean')
      BY <1>36, KilledClean DEF RecoverDeadContained, Clean
    <3>2. UNCHANGED memory
      BY <1>36 DEF RecoverDeadContained, RecoverAs
    <3> QED
      BY <3>1, <3>2 DEF memory
  <2>4. NoPrematureRelease'
    BY <1>36, KilledClean DEF RecoverDeadContained, ToRecover, Unfinished, RecoverAs,
                              RecordIndeterminate, RecordSettled, memory, Clean
  <2>5. SettledIsTrue'
    BY <1>36, KilledClean DEF RecoverDeadContained, ToRecover, Unfinished, RecoverAs,
                              RecordIndeterminate, RecordSettled, memory, Clean
  <2> QED
    BY <2>1, <2>2, <2>3, <2>4, <2>5
<1>37. ASSUME RecoverDeadGroupEmpty PROVE Goal
  <2>1. CASE results # 0
    <3>1. UNCHANGED <<store, memory, Outside, os>>
      BY <1>37, <2>1 DEF RecoverDeadGroupEmpty, RecoverAs, RecordSettled, RecordIndeterminate
    <3> QED
      BY ONLY IInv, ThrowKeeps, <3>1 DEF IInv, os
  <2>2. CASE results = 0
    BY <1>37, <2>2 DEF RecoverDeadGroupEmpty, ToRecover, Unfinished, RecoverAs,
       RecordIndeterminate, RecordSettled, memory, Clean
  <2> QED
    BY <2>1, <2>2
<1>38. ASSUME RecoverDeadGroupAlive PROVE Goal
  <2>0. CASE results # 0
    <3>1. UNCHANGED <<store, memory, Outside>>
      BY <1>38, <2>0 DEF RecoverDeadGroupAlive, RecoverAs, RecordSettled, RecordIndeterminate
    <3>2. /\ root' \in {root, "dead"} /\ (root' = "none" <=> root = "none")
          /\ kids' \subseteq kids
      BY <1>38 DEF RecoverDeadGroupAlive, ToRecover
    <3> QED
      BY ONLY IInv, ThrowKeeps, <3>1, <3>2 DEF IInv
  <2> SUFFICES ASSUME results = 0 PROVE Goal
    BY <2>0
  <2>1. StartInv'
    BY <1>38 DEF RecoverDeadGroupAlive, ToRecover, Unfinished, RecoverAs,
                 RecordIndeterminate, RecordSettled, memory, Clean
  <2>2. OwnerInv'
    <3>1. pc # "spawning" /\ (pc = "spawned" => fenced)
      BY <1>38 DEF RecoverDeadGroupAlive, ToRecover
    <3>2. results' = results + 1 /\ UNCHANGED <<pc, fenced, lost>>
      BY <1>38 DEF RecoverDeadGroupAlive, RecoverAs, RecordIndeterminate, RecordSettled,
                   memory, store, Outside
    <3> QED
      BY <3>1, <3>2
  <2>3. SuperviseInv'
    BY <1>38 DEF RecoverDeadGroupAlive, ToRecover, Unfinished, RecoverAs,
                 RecordIndeterminate, RecordSettled, memory, Clean
  <2>4. NoPrematureRelease'
    BY <1>38 DEF RecoverDeadGroupAlive, ToRecover, Unfinished, RecoverAs,
                 RecordIndeterminate, RecordSettled, memory, Clean
  <2>5. SettledIsTrue'
    BY <1>38 DEF RecoverDeadGroupAlive, ToRecover, Unfinished, RecoverAs,
                 RecordIndeterminate, RecordSettled, memory, Clean
  <2> QED
    BY <2>1, <2>2, <2>3, <2>4, <2>5
<1>39. ASSUME RecoverUndetermined PROVE Goal
  <2>1. CASE results # 0
    <3>1. UNCHANGED <<store, memory, Outside, os>>
      BY <1>39, <2>1 DEF RecoverUndetermined, RecoverAs, RecordSettled, RecordIndeterminate
    <3> QED
      BY ONLY IInv, ThrowKeeps, <3>1 DEF IInv, os
  <2>2. CASE results = 0
    BY <1>39, <2>2 DEF RecoverUndetermined, ToRecover, Unfinished, RecoverAs,
       RecordIndeterminate, RecordSettled, memory, Clean
  <2> QED
    BY <2>1, <2>2
<1>40. ASSUME RecoverRun PROVE Goal
  BY <1>40 DEF RecoverRun, Unfinished, memory, Clean
<1>41. ASSUME NEW v \in {"group", "escaped"}, Fork(v)
       PROVE  Goal
  <2>1. StartInv'
    BY <1>41 DEF Fork, memory, Clean
  <2>2. OwnerInv'
    BY <1>41 DEF Fork, memory, Clean
  <2>3. SuperviseInv'
    BY <1>41 DEF Fork, memory, Clean
  <2>4. NoPrematureRelease'
    BY <1>41 DEF Fork, memory, Clean
  <2>5. SettledIsTrue'
    BY <1>41 DEF Fork, memory, Clean
  <2> QED
    BY <2>1, <2>2, <2>3, <2>4, <2>5
<1>42. ASSUME NEW v \in {"group", "escaped"}, KidExits(v)
       PROVE  Goal
  BY <1>42 DEF KidExits, memory, Clean
<1>43. ASSUME NEW v \in {"confirmed_stopped", "abandon_with_residuals"}, Adjudicate(v)
       PROVE  Goal
  BY <1>43 DEF Adjudicate, memory, Clean
<1>44. ASSUME UNCHANGED vars PROVE Goal
  BY <1>44 DEF vars, memory, Clean
<1>45. Goal
  BY ONLY [Next]_vars, <1>1, <1>2, <1>3, <1>4, <1>5, <1>6, <1>7, <1>8, <1>9, <1>10,
     <1>11, <1>12, <1>13, <1>14, <1>15, <1>16, <1>17, <1>18, <1>19, <1>20, <1>21,
     <1>22, <1>23, <1>24, <1>25, <1>26, <1>27, <1>28, <1>29, <1>30, <1>31, <1>32,
     <1>33, <1>34, <1>35, <1>36, <1>37, <1>38, <1>39, <1>40, <1>41, <1>42, <1>43, <1>44
     DEF Next, Start, Stop, Supervise, Environment, Recover
<1> QED
  BY <1>0, <1>45

\* No premature release, for any number of crashes, with and without a gate and a
\* cgroup: while the process can have effects its leases are in the store, unless
\* a human verdict ended that.
THEOREM LeasesOutliveProcess == Spec => []NoPrematureRelease
<1>1. IInv => NoPrematureRelease
  BY DEF IInv
<1> QED
  BY <1>1, InvInit, InvNext, PTL DEF Spec

\* A settled result is true of the operating system, whoever wrote it.
THEOREM ResultsAreTrue == Spec => []SettledIsTrue
<1>1. IInv => SettledIsTrue
  BY DEF IInv
<1> QED
  BY <1>1, InvInit, InvNext, PTL DEF Spec

-----------------------------------------------------------------------------
\* Starts, results and unconfirmed stops.

\* Recovery writes the first result or none, beside an owner that is fenced or gone.
LEMMA RecoverOnce ==
  ASSUME IInv, OnceInv, ToRecover, spawns' = spawns, root' = "none" <=> root = "none",
         NEW b \in BOOLEAN, NEW what \in Claim, RecoverAs(b, what)
  PROVE  OnceInv'
<1>1. row # "done" /\ ((results = 0 /\ results' = 1) \/ UNCHANGED store)
  BY DEF ToRecover, Unfinished, RecoverAs, RecordSettled, RecordIndeterminate
<1>2. fenced \/ pipe = "none"
  BY DEF ToRecover, IInv, OwnerInv, StartInv
<1>3. UNCHANGED <<pc, pipe, fenced>>
  BY DEF RecoverAs, memory, Outside
<1> QED
  BY <1>1, <1>2, <1>3 DEF OnceInv, OnceOnly, UnconfirmedIsDurable, IInv, TypeOK, store

\* Every step preserves OnceInv.
LEMMA OnceNext == IInv /\ OnceInv /\ [Next]_vars => OnceInv'
<1> SUFFICES ASSUME IInv, OnceInv, [Next]_vars PROVE OnceInv'
  OBVIOUS
<1>0. StoreOK /\ OsOK /\ CallOK
  BY TypeParts DEF IInv
<1> USE <1>0 DEF IInv, OnceInv, OnceOnly, UnconfirmedIsDurable, StoreOK, OsOK, CallOK,
                 StartInv, OwnerInv, store, os, memory, Outside
<1>1. ASSUME Submit PROVE OnceInv'
  BY <1>1 DEF Submit
<1>2. ASSUME RegisterIntent PROVE OnceInv'
  BY <1>2 DEF RegisterIntent
<1>3. ASSUME RegisterFails PROVE OnceInv'
  BY <1>3 DEF RegisterFails, Leave
<1>4. ASSUME CancelBeforeSpawn PROVE OnceInv'
  BY <1>4 DEF CancelBeforeSpawn, Leave, RecordSettled
<1>5. ASSUME SpawnChild PROVE OnceInv'
  BY <1>5 DEF SpawnChild
<1>6. ASSUME SpawnFails PROVE OnceInv'
  BY <1>6 DEF SpawnFails, Leave, Finalize, Recordable, RecordSettled
<1>7. ASSUME Activate PROVE OnceInv'
  BY <1>7 DEF Activate
<1>8. ASSUME ActivateRefused PROVE OnceInv'
  BY <1>8 DEF ActivateRefused
<1>9. ASSUME ActivateUnrecordedUse PROVE OnceInv'
  BY <1>9 DEF ActivateUnrecordedUse
<1>10. ASSUME AbortDone PROVE OnceInv'
  BY <1>10 DEF AbortDone, Killed, Finalize, Isolate, Recordable, RecordSettled,
     RecordIndeterminate
<1>11. ASSUME CancelEarly PROVE OnceInv'
  BY <1>11 DEF CancelEarly
<1>12. ASSUME CancelActive PROVE OnceInv'
  BY <1>12 DEF CancelActive, StartPipe, StopPromise
<1>13. ASSUME PipeDone PROVE OnceInv'
  BY <1>13 DEF PipeDone, Killed, Isolate, IsolateReturns, Recordable,
     RecordIndeterminate
<1>14. ASSUME RaceExit PROVE OnceInv'
  BY <1>14 DEF RaceExit
<1>15. ASSUME RaceTimeout PROVE OnceInv'
  BY <1>15 DEF RaceTimeout, StartPipe
<1>16. ASSUME RaceStop PROVE OnceInv'
  BY <1>16 DEF RaceStop, HoldLeases, Isolate, Recordable, RecordIndeterminate
<1>17. ASSUME RaceRejected PROVE OnceInv'
  BY <1>17 DEF RaceRejected
<1>18. ASSUME TimeoutStopped PROVE OnceInv'
  BY <1>18 DEF TimeoutStopped
<1>19. ASSUME TimeoutExit PROVE OnceInv'
  BY <1>19 DEF TimeoutExit, Isolate, Recordable, RecordIndeterminate
<1>20. ASSUME Drained PROVE OnceInv'
  BY <1>20 DEF Drained, Verify
<1>21. ASSUME DrainTimeout PROVE OnceInv'
  BY <1>21 DEF DrainTimeout, GiveUp, Isolate, Recordable, RecordIndeterminate
<1>22. ASSUME Reaped PROVE OnceInv'
  BY <1>22 DEF Reaped, Killed, Verify, GiveUp, Isolate, Recordable,
     RecordIndeterminate
<1>23. ASSUME TreeSettled PROVE OnceInv'
  BY <1>23 DEF TreeSettled, Killed, Verify, GiveUp, Isolate, Recordable,
     RecordIndeterminate
<1>24. ASSUME Verified PROVE OnceInv'
  BY <1>24 DEF Verified, StopPromise, Finalize, Recordable, RecordSettled
<1>25. ASSUME StopAwaited PROVE OnceInv'
  BY <1>25 DEF StopAwaited, Finalize, HoldLeases, Isolate, Recordable,
     RecordSettled, RecordIndeterminate
<1>26. ASSUME Finally PROVE OnceInv'
  BY <1>26 DEF Finally, Leave
<1>27. ASSUME RootExits PROVE OnceInv'
  BY <1>27 DEF RootExits
<1>28. ASSUME PgidReused PROVE OnceInv'
  BY <1>28 DEF PgidReused
<1>29. ASSUME CloseRun PROVE OnceInv'
  BY <1>29 DEF CloseRun
<1>30. ASSUME Fence PROVE OnceInv'
  BY <1>30 DEF Fence
<1>31. ASSUME Crash PROVE OnceInv'
  BY <1>31 DEF Crash, MemoryLost
<1>32. ASSUME HostReboot PROVE OnceInv'
  BY <1>32 DEF HostReboot, MemoryLost
<1>33. ASSUME CrashInFinalize PROVE OnceInv'
  BY <1>33 DEF CrashInFinalize, MemoryLost, Recordable, RecordIndeterminate
<1>34. ASSUME RecoverWithoutIdentity PROVE OnceInv'
  BY <1>34 DEF RecoverWithoutIdentity, ToRecover, Unfinished, RecoverAs,
     RecordSettled, RecordIndeterminate
<1>35. ASSUME RecoverAlive PROVE OnceInv'
  <2>1. ToRecover /\ spawns' = spawns /\ (root' = "none" <=> root = "none")
    BY <1>35 DEF RecoverAlive, Killed
  <2>2. \E b \in BOOLEAN, what \in Claim : RecoverAs(b, what)
    BY <1>35 DEF RecoverAlive, Claim
  <2> QED
    BY <2>1, <2>2, RecoverOnce
<1>36. ASSUME RecoverDeadContained PROVE OnceInv'
  <2>1. ToRecover /\ spawns' = spawns /\ (root' = "none" <=> root = "none")
    BY <1>36 DEF RecoverDeadContained, Killed
  <2>2. \E b \in BOOLEAN, what \in Claim : RecoverAs(b, what)
    BY <1>36 DEF RecoverDeadContained, Claim
  <2> QED
    BY <2>1, <2>2, RecoverOnce
<1>37. ASSUME RecoverDeadGroupEmpty PROVE OnceInv'
  <2>1. ToRecover /\ UNCHANGED os /\ RecoverAs(FALSE, "dead")
    BY <1>37 DEF RecoverDeadGroupEmpty
  <2> QED
    BY <2>1, RecoverOnce DEF Claim
<1>38. ASSUME RecoverDeadGroupAlive PROVE OnceInv'
  <2>1. ToRecover /\ spawns' = spawns /\ (root' = "none" <=> root = "none")
    BY <1>38 DEF RecoverDeadGroupAlive
  <2>2. CASE RecoverAs(TRUE, "none")
    BY <2>1, <2>2, RecoverOnce DEF Claim
  <2>3. CASE RecoverAs(FALSE, "dead")
    BY <2>1, <2>3, RecoverOnce DEF Claim
  <2> QED
    BY <1>38, <2>2, <2>3 DEF RecoverDeadGroupAlive
<1>39. ASSUME RecoverUndetermined PROVE OnceInv'
  BY <1>39 DEF RecoverUndetermined, ToRecover, Unfinished, RecoverAs, RecordSettled,
     RecordIndeterminate
<1>40. ASSUME RecoverRun PROVE OnceInv'
  BY <1>40 DEF RecoverRun
<1>41. ASSUME NEW v \in {"group", "escaped"}, Fork(v)
       PROVE  OnceInv'
  BY <1>41 DEF Fork
<1>42. ASSUME NEW v \in {"group", "escaped"}, KidExits(v)
       PROVE  OnceInv'
  BY <1>42 DEF KidExits
<1>43. ASSUME NEW v \in {"confirmed_stopped", "abandon_with_residuals"}, Adjudicate(v)
       PROVE  OnceInv'
  BY <1>43 DEF Adjudicate
<1>44. ASSUME UNCHANGED vars PROVE OnceInv'
  BY <1>44 DEF vars
<1> QED
  BY ONLY [Next]_vars, <1>1, <1>2, <1>3, <1>4, <1>5, <1>6, <1>7, <1>8, <1>9, <1>10,
     <1>11, <1>12, <1>13, <1>14, <1>15, <1>16, <1>17, <1>18, <1>19, <1>20, <1>21,
     <1>22, <1>23, <1>24, <1>25, <1>26, <1>27, <1>28, <1>29, <1>30, <1>31, <1>32,
     <1>33, <1>34, <1>35, <1>36, <1>37, <1>38, <1>39, <1>40, <1>41, <1>42, <1>43,
     <1>44 DEF Next, Start, Stop, Supervise, Environment, Recover

\* A process is started at most once and has at most one result, and whoever hears
\* of an unconfirmed stop finds its isolation in the store, for any number of
\* crashes and submissions (runProcess, recordOperationResult, handleStopPipeline).
THEOREM ResultsAreFinal == Spec => []ResultIsFinal
<1>1. Init => OnceInv
  BY DEF Init, OnceInv, OnceOnly, UnconfirmedIsDurable
<1>2. IInv /\ OnceInv => ResultIsFinal
  BY DEF IInv, OnceInv, ResultIsFinal
<1> QED
  BY <1>1, <1>2, InvInit, InvNext, OnceNext, PTL DEF Spec

-----------------------------------------------------------------------------
(***************************************************************************)
(* The helper and its driver.  The scan of /proc is worth nothing as a     *)
(* proof, so nothing is assumed of it: TreeInv ties the answers to the     *)
(* parents that the kernel keeps, and signals to starting times.           *)
(***************************************************************************)

\* A line that is on its way.
Has(line, seq) == \E i \in 1..Len(seq) : seq[i] = line

Process ==
    [state : {"free", "live", "zombie"}, start : Nat, parent : {InitPid, HelperPid} \cup Pid,
     kin : BOOLEAN, doomed : BOOLEAN]
ProcType == proc \in [Pid -> Process]
Entry == [start : Nat, ppid : {InitPid, HelperPid} \cup Pid, zombie : BOOLEAN]
Helper ==
    [pc : {"loop", "poll", "read", "scan", "kill", "gone"},
     why : {"idle", "command", "signal", "eof"}, sig : 1..3, rounds : 0..KillRounds,
     last : BOOLEAN, cursor : 1..(MaxPid + 1), table : [Pid -> Entry],
     todo : SUBSET (Pid \X Nat), rootReaped : BOOLEAN, stopReq : BOOLEAN, crashed : BOOLEAN]
HelperType == h \in Helper
Session ==
    [pc : {"spawning", "reading", "held", "rejected", "gone"},
     rootExit : {"none", "facts", "unknown"}, treeEmpty : BOOLEAN, helperLost : BOOLEAN,
     closed : BOOLEAN, waiting : BOOLEAN, settling : BOOLEAN,
     gate : {"unsent", "go", "abort"}, held : {"none", "this", "other"},
     terminal : BOOLEAN, osStart : Nat,
     stopSaid : {"none", "confirmed", "undetermined", "os_facts"},
     settleSaid : {"none", "empty", "residual", "unknown", "os_facts"}]
SessionType == s \in Session
LineType ==
    /\ inbox \in Seq({"go", "abort", "stop", "signal"})
    /\ outbox \in Seq({"spawned", "exit", "empty", "stopped", "residual"})
    /\ gate \in {"shut", "open", "closed"} /\ executed \in BOOLEAN
UsedType ==
    used \in [forks : 0..MaxForks, strangers : 0..MaxStrangers, commands : Nat, faults : Nat]
WorldType == ProcType /\ HelperType /\ SessionType /\ LineType /\ UsedType

\* Starting times are given once, so that a pid and a starting time name one process.
BirthInv ==
    /\ \A p \in Pid : proc[p].start < NextStart /\ h.table[p].start < NextStart
    /\ \A e \in h.todo : e[2] < NextStart

\* What the kernel keeps of a family: a parent in the tree lives and is older than its
\* children, everybody else's parent is init, and while the helper runs nothing of the
\* tree gets out of it.
FamilyInv ==
    \A p \in Pid :
       /\ proc[p].state = "free" => ~ proc[p].doomed /\ proc[p].start = 0
       /\ proc[p].state # "free" =>
            /\ proc[p].parent \in Pid => /\ proc[proc[p].parent].state = "live"
                                         /\ proc[proc[p].parent].kin
                                         /\ proc[proc[p].parent].start < proc[p].start
            /\ proc[p].parent # InitPid => proc[p].kin
            /\ proc[p].kin /\ HelperUp => proc[p].parent # InitPid

\* Whoever says that the tree is empty, or is about to, is right.
GoneInv ==
    \/ Has("empty", outbox) \/ Has("stopped", outbox)
    \/ s.treeEmpty \/ s.terminal \/ s.stopSaid = "confirmed" \/ s.settleSaid = "empty"
    => LiveKin = {}

\* The pid of the root is its own until the helper has reaped it, and its exit is only
\* on the way when it is dead.
RootInv ==
    /\ HelperUp /\ ~ h.rootReaped =>
         /\ proc[Root].state # "free" /\ proc[Root].kin /\ proc[Root].start = 1
         /\ proc[Root].parent = HelperPid
    /\ Has("exit", outbox) \/ s.rootExit # "none" => ~ RootIsOriginal
    /\ s.pc = "held" /\ RootIsOriginal => s.osStart = 1

\* What a scan found and is to be signalled was of the tree, and so is whoever has that
\* pid and that starting time now.
ScanInv ==
    /\ NoRecycledPid
    /\ \A p \in Pid :
         h.table[p].start # 0 /\ h.table[p].ppid # InitPid /\ proc[p].state # "free"
           /\ proc[p].start = h.table[p].start => proc[p].kin
    /\ \A e \in h.todo :
         proc[e[1]].state # "free" /\ proc[e[1]].start = e[2] => proc[e[1]].kin

\* Nobody opens the gate without the host.
GateInv == executed \/ gate = "open" \/ Has("go", inbox) => s.gate = "go"

TreeInv == WorldType /\ BirthInv /\ FamilyInv /\ GoneInv /\ RootInv /\ ScanInv /\ GateInv

-----------------------------------------------------------------------------
(* Lines *)

LEMMA HasAppend ==
  ASSUME NEW S, NEW seq \in Seq(S), NEW x \in S, NEW line, line # x
  PROVE  Append(seq, x) \in Seq(S) /\ (Has(line, Append(seq, x)) => Has(line, seq))
<1>1. /\ Append(seq, x) \in Seq(S) /\ Len(Append(seq, x)) = Len(seq) + 1 /\ Len(seq) \in Nat
      /\ \A i \in 1..Len(seq) : Append(seq, x)[i] = seq[i]
      /\ Append(seq, x)[Len(seq) + 1] = x
  OBVIOUS
<1> DEFINE new == Append(seq, x)
<1> HIDE DEF new
<1>2. ASSUME NEW i \in 1..Len(new), new[i] = line PROVE Has(line, seq)
  <2>1. i \in 1..Len(seq) \/ i = Len(seq) + 1
    BY <1>1 DEF new
  <2> QED
    BY <1>1, <1>2, <2>1 DEF new, Has
<1>3. Has(line, new) => Has(line, seq)
  BY <1>2 DEF Has
<1> QED
  BY <1>1, <1>3 DEF new

LEMMA HasTail ==
  ASSUME NEW S, NEW seq \in Seq(S), seq # <<>>, NEW line
  PROVE  /\ Tail(seq) \in Seq(S) /\ Head(seq) \in S
         /\ Has(line, Tail(seq)) => Has(line, seq)
         /\ Head(seq) = line => Has(line, seq)
<1>1. /\ Len(seq) \in Nat /\ Len(seq) > 0 /\ seq[1] \in S /\ Head(seq) = seq[1]
      /\ Tail(seq) \in Seq(S) /\ Len(Tail(seq)) = Len(seq) - 1
      /\ \A i \in 1..(Len(seq) - 1) : Tail(seq)[i] = seq[i + 1]
  OBVIOUS
<1> DEFINE rest == Tail(seq)
<1> HIDE DEF rest
<1>2. ASSUME NEW i \in 1..Len(rest), rest[i] = line PROVE Has(line, seq)
  <2>1. i + 1 \in 1..Len(seq) /\ seq[i + 1] = line
    BY <1>1, <1>2 DEF rest
  <2> QED
    BY <2>1 DEF Has
<1>3. Has(line, rest) => Has(line, seq)
  BY <1>2 DEF Has
<1>4. Head(seq) = line => Has(line, seq)
  <2>1. 1 \in 1..Len(seq)
    BY <1>1
  <2> QED
    BY <1>1, <2>1 DEF Has
<1> QED
  BY <1>1, <1>3, <1>4 DEF rest

-----------------------------------------------------------------------------
(* What holds at the start *)

LEMMA TreeStart == TreeInit => TreeInv
<1> SUFFICES ASSUME TreeInit PROVE TreeInv
  OBVIOUS
<1> USE ReaperAssumption
<1>1. ProcType /\ Root \in Pid
  BY DEF TreeInit, ProcType, Process, Born, Free, Pid, HelperPid, InitPid
<1>2. HelperType
  BY DEF TreeInit, HelperType, Helper, Entry, NoTable, NoEntry, Pid, InitPid, HelperPid
<1>3. SessionType
  BY DEF TreeInit, SessionType, Session
<1>4. LineType /\ UsedType
  <2>1. inbox = <<>> /\ outbox = <<"spawned">>
    BY DEF TreeInit
  <2>2. LineType
    <3>1. <<"spawned">> \in Seq({"spawned", "exit", "empty", "stopped", "residual"})
      OBVIOUS
    <3>2. gate \in {"shut", "open", "closed"} /\ executed \in BOOLEAN
      BY DEF TreeInit
    <3> QED
      BY <2>1, <3>1, <3>2 DEF LineType
  <2>3. used = [forks |-> 0, strangers |-> 0, commands |-> 0, faults |-> 0]
    BY DEF TreeInit
  <2> QED
    BY <2>2, <2>3 DEF UsedType
<1>5. BirthInv
  BY DEF TreeInit, BirthInv, NextStart, Born, Free, NoTable, NoEntry
<1>6. FamilyInv
  BY DEF TreeInit, FamilyInv, Born, Free, HelperPid, InitPid, Pid
<1>7. ~ Has("empty", outbox) /\ ~ Has("stopped", outbox) /\ ~ Has("exit", outbox) /\ ~ Has("go", inbox)
  BY DEF TreeInit, Has
<1>8. GoneInv /\ RootInv /\ GateInv
  BY <1>1, <1>7 DEF TreeInit, GoneInv, RootInv, GateInv, Born, Free
<1>9. ScanInv
  BY DEF TreeInit, ScanInv, NoRecycledPid, Born, Free, NoTable, NoEntry
<1> QED
  BY <1>1, <1>2, <1>3, <1>4, <1>5, <1>6, <1>8, <1>9 DEF TreeInv, WorldType

-----------------------------------------------------------------------------
(* Processes *)

\* Nobody is born: who is there was there, and is who it was.
NoBirth ==
    /\ proc' \in [Pid -> Process]
    /\ \A p \in Pid :
         \/ proc'[p].state = "free" /\ proc'[p].start = 0 /\ ~ proc'[p].doomed
         \/ /\ proc[p].state # "free" /\ proc'[p].state # "free"
            /\ proc'[p].state = "live" => proc[p].state = "live"
            /\ proc'[p].start = proc[p].start /\ proc'[p].kin = proc[p].kin
            /\ proc'[p].doomed => proc[p].doomed \/ proc[p].kin

\* What follows for the rest of the invariant, if the helper keeps or forgets its scan.
LEMMA NoBirthKeeps ==
  ASSUME TreeInv, NoBirth, used'.forks = used.forks, used'.strangers = used.strangers,
         h'.table \in {h.table, NoTable}, h'.todo \subseteq h.todo
  PROVE  /\ ProcType' /\ BirthInv' /\ ScanInv'
         /\ LiveKin' \subseteq LiveKin
         /\ RootIsOriginal' => RootIsOriginal
<1> USE ReaperAssumption DEF TreeInv, WorldType
<1>0. ProcType' /\ Root \in Pid
  BY DEF NoBirth, ProcType, Pid
<1>1. NextStart' = NextStart /\ NextStart \in Nat /\ NextStart >= 2
  BY DEF NextStart, UsedType
<1>2. \A p \in Pid : h'.table[p] = h.table[p] \/ (h'.table[p].start = 0 /\ h'.table[p].ppid = InitPid)
  BY DEF NoTable, NoEntry
<1>3. \A e \in h'.todo : e \in h.todo /\ e[1] \in Pid
  BY DEF HelperType, Helper
<1>4. BirthInv'
  BY <1>1, <1>2, <1>3 DEF BirthInv, NoBirth
<1>5. ScanInv'
  BY <1>2, <1>3 DEF ScanInv, NoRecycledPid, NoBirth
<1>6. LiveKin' \subseteq LiveKin
  BY DEF LiveKin, NoBirth
<1>7. RootIsOriginal' => RootIsOriginal
  BY <1>0 DEF RootIsOriginal, NoBirth
<1> QED
  BY <1>0, <1>4, <1>5, <1>6, <1>7

\* Zombies that the helper waits for are gone; nobody is their child.
LEMMA ReapedFamily ==
  ASSUME TreeInv, HelperUp' = HelperUp,
         proc' = [p \in Pid |-> IF p \in MyZombies THEN Freed(proc, p) ELSE proc[p]]
  PROVE  NoBirth /\ FamilyInv'
<1> USE ReaperAssumption DEF TreeInv, WorldType
<1>1. \A p \in Pid : p \in MyZombies => /\ proc[p].state = "zombie"
                                        /\ proc'[p].state = "free" /\ proc'[p].start = 0 /\ ~ proc'[p].doomed
                                        /\ proc'[p].kin = proc[p].kin /\ proc'[p].parent = InitPid
                                        /\ proc'[p] \in Process
  BY DEF Freed, Free, MyZombies, ProcType, Process
<1>2. \A p \in Pid : p \notin MyZombies => proc'[p] = proc[p]
  OBVIOUS
<1>3. NoBirth
  <2>1. \A p \in Pid : proc'[p] \in Process
    BY <1>1, <1>2 DEF ProcType
  <2>2. proc' \in [Pid -> Process]
    BY <2>1
  <2> QED
    BY <1>1, <1>2, <2>2 DEF NoBirth, FamilyInv
<1>4. FamilyInv'
  BY <1>1, <1>2 DEF FamilyInv, ProcType
<1> QED
  BY <1>3, <1>4

\* The helper is gone: what it had is with init.
LEMMA OrphanedFamily ==
  ASSUME TreeInv, ~ HelperUp', proc' = Orphaned(proc)
  PROVE  NoBirth /\ FamilyInv'
<1> USE ReaperAssumption DEF TreeInv, WorldType
<1> DEFINE Held(p) == proc[p].parent = HelperPid
<1>1. \A p \in Pid : ~ Held(p) => proc'[p] = proc[p]
  BY DEF Orphaned
<1>2. \A p \in Pid : Held(p) /\ proc[p].state = "zombie" =>
         /\ proc'[p].state = "free" /\ proc'[p].start = 0 /\ ~ proc'[p].doomed /\ proc'[p].parent = InitPid
         /\ proc'[p] \in Process
  BY DEF Orphaned, Freed, Free, ProcType, Process
<1>3. \A p \in Pid : Held(p) /\ proc[p].state # "zombie" =>
         /\ proc'[p].state = proc[p].state /\ proc'[p].start = proc[p].start
         /\ proc'[p].kin = proc[p].kin /\ proc'[p].doomed = proc[p].doomed /\ proc'[p].parent = InitPid
         /\ proc'[p] \in Process
  BY DEF Orphaned, ProcType, Process
<1>4. proc' = [p \in Pid |-> proc'[p]]
  BY DEF Orphaned
<1>5. proc' \in [Pid -> Process]
  <2>1. \A p \in Pid : proc'[p] \in Process
    BY <1>1, <1>2, <1>3 DEF ProcType
  <2> QED
    BY <1>4, <2>1
<1> HIDE DEF Held
<1>6. NoBirth
  BY <1>1, <1>2, <1>3, <1>5 DEF NoBirth, FamilyInv
<1>7. FamilyInv'
  <2> SUFFICES ASSUME NEW p \in Pid, proc'[p].state # "free"
               PROVE  /\ proc'[p].parent \in Pid =>
                           /\ proc'[proc'[p].parent].state = "live" /\ proc'[proc'[p].parent].kin
                           /\ proc'[proc'[p].parent].start < proc'[p].start
                      /\ proc'[p].parent # InitPid => proc'[p].kin
    BY <1>1, <1>2, <1>3 DEF FamilyInv
  <2>1. InitPid \notin Pid /\ HelperPid \notin Pid
    BY DEF InitPid, HelperPid, Pid
  <2>2. CASE Held(p)
    BY <1>2, <1>3, <2>1, <2>2
  <2>3. CASE ~ Held(p)
    <3>1. proc'[p] = proc[p] /\ proc[p].state # "free"
      BY <1>1, <2>3
    <3>2. proc[p].parent \in Pid =>
             /\ proc[proc[p].parent].state = "live" /\ proc[proc[p].parent].kin
             /\ proc[proc[p].parent].start < proc[p].start
      BY <3>1 DEF FamilyInv
    <3>3. proc[p].parent # InitPid => proc[p].kin
      BY <3>1 DEF FamilyInv
    <3>4. proc[p].parent \in Pid =>
             /\ proc'[proc[p].parent].state = "live" /\ proc'[proc[p].parent].kin
             /\ proc'[proc[p].parent].start = proc[proc[p].parent].start
      BY <1>1, <1>3, <3>2
    <3> QED
      BY <3>1, <3>2, <3>3, <3>4
  <2> QED
    BY <2>2, <2>3
<1> QED
  BY <1>6, <1>7

-----------------------------------------------------------------------------
(* The helper reaps, leaves, or does neither *)

\* The first line was taken from the inbox, or none.
MayTake == inbox' = inbox \/ (inbox # <<>> /\ inbox' = Tail(inbox))

LEMMA TakenLine ==
  ASSUME LineType, MayTake
  PROVE  /\ inbox' \in Seq({"go", "abort", "stop", "signal"})
         /\ Has("go", inbox') => Has("go", inbox)
<1> DEFINE Lines == {"go", "abort", "stop", "signal"}
<1>1. inbox \in Seq(Lines)
  BY DEF LineType
<1> HIDE DEF Lines
<1>2. inbox # <<>> => Tail(inbox) \in Seq(Lines) /\ (Has("go", Tail(inbox)) => Has("go", inbox))
  BY <1>1, HasTail
<1> QED
  BY <1>1, <1>2 DEF Lines, MayTake

\* reap_children, with whatever the helper goes on to do.
LEMMA ReapStep ==
  ASSUME TreeInv, HelperUp, NEW hs \in Helper, hs.pc # "gone", hs.rootReaped = h.rootReaped,
         hs.table \in {h.table, NoTable}, hs.todo \subseteq h.todo,
         reap_children(hs), gate' \in {gate, "closed"}, MayTake, UNCHANGED <<executed, s, used>>
  PROVE  TreeInv'
<1> USE ReaperAssumption DEF TreeInv, WorldType
<1>0. Root \in Pid
  BY DEF Pid
<1>1. /\ proc' = [p \in Pid |-> IF p \in MyZombies THEN Freed(proc, p) ELSE proc[p]]
      /\ h' = [hs EXCEPT !.rootReaped = @ \/ RootAmong]
  BY DEF reap_children
<1>2. /\ HelperType' /\ HelperUp' /\ h'.table = hs.table /\ h'.todo = hs.todo
      /\ h'.rootReaped = (h.rootReaped \/ RootAmong)
  BY <1>1 DEF HelperType, Helper, HelperUp
<1>3. NoBirth /\ FamilyInv'
  BY <1>1, <1>2, ReapedFamily
<1>4. /\ ProcType' /\ BirthInv' /\ ScanInv' /\ LiveKin' \subseteq LiveKin
      /\ RootIsOriginal' => RootIsOriginal
  BY <1>2, <1>3, NoBirthKeeps
<1>5. /\ outbox' \in Seq({"spawned", "exit", "empty", "stopped", "residual"})
      /\ Has("empty", outbox') => Has("empty", outbox)
      /\ Has("stopped", outbox') => Has("stopped", outbox)
      /\ Has("exit", outbox') => Has("exit", outbox) \/ RootAmong
  <2> DEFINE Lines == {"spawned", "exit", "empty", "stopped", "residual"}
  <2>1. outbox' = outbox \/ (RootAmong /\ outbox' = Append(outbox, "exit"))
    BY DEF reap_children, Send
  <2>2. outbox \in Seq(Lines) /\ "exit" \in Lines
    BY DEF LineType
  <2> HIDE DEF Lines
  <2>3. /\ Append(outbox, "exit") \in Seq(Lines)
        /\ Has("empty", Append(outbox, "exit")) => Has("empty", outbox)
        /\ Has("stopped", Append(outbox, "exit")) => Has("stopped", outbox)
    <3>1. "empty" # "exit" /\ "stopped" # "exit"
      OBVIOUS
    <3> QED
      BY <2>2, <3>1, HasAppend
  <2> QED
    BY <2>1, <2>2, <2>3 DEF Lines
<1>6. LineType' /\ SessionType' /\ UsedType'
  BY <1>5, TakenLine DEF LineType, SessionType, UsedType
<1>7. GoneInv'
  BY <1>4, <1>5 DEF GoneInv
<1>8. RootInv'
  <2>1. RootAmong => ~ RootIsOriginal'
    BY <1>0, <1>1 DEF RootAmong, RootIsOriginal, Freed, Free
  <2>2. ~ RootAmong => proc'[Root] = proc[Root]
    BY <1>0, <1>1 DEF RootAmong
  <2> QED
    BY <1>2, <1>4, <1>5, <2>1, <2>2 DEF RootInv
<1>9. GateInv'
  BY TakenLine DEF GateInv
<1> QED
  BY <1>2, <1>3, <1>4, <1>6, <1>7, <1>8, <1>9

\* The helper is gone, after a line or none; if that line is an all-clear, it is true.
LEMMA LeaveStep ==
  ASSUME TreeInv, NEW hs \in Helper, hs.pc = "gone", h' = hs, hs.table = NoTable, hs.todo = {},
         proc' = Orphaned(proc), NEW line \in {"empty", "stopped", "residual"},
         outbox' \in {outbox, Append(outbox, line)},
         line = "residual" \/ LiveKin = {} \/ outbox' = outbox,
         gate' \in {gate, "closed"}, UNCHANGED <<executed, inbox, s>>,
         UsedType', used'.forks = used.forks, used'.strangers = used.strangers
  PROVE  TreeInv'
<1> USE ReaperAssumption DEF TreeInv, WorldType
<1>1. HelperType' /\ ~ HelperUp' /\ h'.table = NoTable /\ h'.todo = {}
  BY DEF HelperType, HelperUp
<1>2. NoBirth /\ FamilyInv'
  BY <1>1, OrphanedFamily
<1>3. /\ ProcType' /\ BirthInv' /\ ScanInv' /\ LiveKin' \subseteq LiveKin
      /\ RootIsOriginal' => RootIsOriginal
  BY <1>1, <1>2, NoBirthKeeps
<1>4. /\ outbox' \in Seq({"spawned", "exit", "empty", "stopped", "residual"})
      /\ Has("empty", outbox') => Has("empty", outbox) \/ LiveKin = {}
      /\ Has("stopped", outbox') => Has("stopped", outbox) \/ LiveKin = {}
      /\ Has("exit", outbox') => Has("exit", outbox)
  <2> DEFINE Lines == {"spawned", "exit", "empty", "stopped", "residual"}
  <2>1. outbox \in Seq(Lines) /\ line \in Lines
    BY DEF LineType
  <2> HIDE DEF Lines
  <2>2. \A x \in {"empty", "stopped", "exit"} :
           x # line => Append(outbox, line) \in Seq(Lines) /\ (Has(x, Append(outbox, line)) => Has(x, outbox))
    BY <2>1, HasAppend
  <2>3. "exit" # line /\ (line # "residual" => LiveKin = {} \/ outbox' = outbox)
    OBVIOUS
  <2>4. outbox' = outbox \/ outbox' = Append(outbox, line)
    OBVIOUS
  <2> QED
    BY <2>1, <2>2, <2>3, <2>4 DEF Lines
<1>5. LineType' /\ SessionType'
  BY <1>4 DEF LineType, SessionType
<1>6. GoneInv'
  BY <1>3, <1>4 DEF GoneInv
<1>7. RootInv'
  BY <1>1, <1>3, <1>4 DEF RootInv
<1>8. GateInv'
  BY DEF GateInv
<1> QED
  BY <1>1, <1>2, <1>3, <1>5, <1>6, <1>7, <1>8

\* Nothing happens to the processes, and the helper runs on.
LEMMA QuietStep ==
  ASSUME TreeInv, HelperUp, UNCHANGED <<proc, executed, s>>, h' \in Helper, h'.pc # "gone",
         h'.rootReaped = h.rootReaped, LineType', UsedType', GateInv',
         used'.forks = used.forks, used'.strangers = used.strangers,
         outbox' = outbox \/ outbox' = Append(outbox, "residual"),
         \A p \in Pid : h'.table[p] \in {h.table[p], NoEntry} \cup
                          {[start |-> proc[p].start, ppid |-> proc[p].parent, zombie |-> z] : z \in
                             (IF proc[p].state = "free" THEN {} ELSE BOOLEAN)},
         \A e \in h'.todo : /\ e \in h.todo \/ e[2] < NextStart
                            /\ proc[e[1]].state # "free" /\ proc[e[1]].start = e[2] => proc[e[1]].kin
  PROVE  TreeInv'
<1> USE ReaperAssumption DEF TreeInv, WorldType
<1>1. HelperType' /\ HelperUp' /\ ProcType' /\ SessionType'
  BY DEF HelperType, HelperUp, ProcType, SessionType
<1>2. NextStart' = NextStart /\ NextStart \in Nat /\ NextStart >= 2
  BY DEF NextStart, UsedType
<1>3. \A p \in Pid :
         \/ h'.table[p] = h.table[p]
         \/ h'.table[p].start = 0 /\ h'.table[p].ppid = InitPid
         \/ /\ proc[p].state # "free"
            /\ h'.table[p].start = proc[p].start /\ h'.table[p].ppid = proc[p].parent
  BY DEF NoEntry
<1>4. BirthInv'
  BY <1>2, <1>3 DEF BirthInv
<1>5. FamilyInv'
  BY <1>1 DEF FamilyInv
<1>6. ScanInv'
  BY <1>3 DEF ScanInv, NoRecycledPid, FamilyInv
<1>7. /\ Has("empty", outbox') => Has("empty", outbox)
      /\ Has("stopped", outbox') => Has("stopped", outbox)
      /\ Has("exit", outbox') => Has("exit", outbox)
  <2> DEFINE Lines == {"spawned", "exit", "empty", "stopped", "residual"}
  <2>1. outbox \in Seq(Lines) /\ "residual" \in Lines
    BY DEF LineType
  <2> HIDE DEF Lines
  <2>2. \A x \in {"empty", "stopped", "exit"} : x # "residual"
    OBVIOUS
  <2>3. \A x \in {"empty", "stopped", "exit"} : Has(x, Append(outbox, "residual")) => Has(x, outbox)
    BY <2>1, <2>2, HasAppend
  <2> QED
    BY <2>3
<1>8. GoneInv' /\ RootInv'
  BY <1>7 DEF GoneInv, RootInv, LiveKin, RootIsOriginal, HelperUp
<1> QED
  BY <1>1, <1>4, <1>5, <1>6, <1>8

-----------------------------------------------------------------------------
(* What the helper finds *)

\* Every set of natural numbers that is not empty has a least element.
LEMMA LeastNat ==
  ASSUME NEW T \in SUBSET Nat, T # {}
  PROVE  \E n \in T : \A m \in T : n <= m
<1>1. PICK n \in T : \A m \in T : <<m, n>> \notin OpToRel(<, Nat)
  BY NatLessThanWellFounded, WFMin
<1>2. \A m \in T : ~(m < n)
  BY <1>1 DEF OpToRel
<1> QED
  BY <1>2

\* waitid() is the proof: the oldest process of a tree that lives is a child of the
\* helper, however wrong the scan is.
LEMMA NoChildNoTree ==
  ASSUME TreeInv, HelperUp, \A p \in Pid : proc[p].state # "free" => proc[p].parent # HelperPid
  PROVE  LiveKin = {}
<1> USE DEF TreeInv, WorldType
<1> DEFINE Starts == {proc[p].start : p \in LiveKin}
<1> SUFFICES ASSUME LiveKin # {} PROVE FALSE
  OBVIOUS
<1>1. Starts \in SUBSET Nat /\ Starts # {}
  BY DEF LiveKin, ProcType, Process
<1>2. PICK n \in Starts : \A m \in Starts : n <= m
  BY <1>1, LeastNat
<1>3. PICK p \in LiveKin : proc[p].start = n
  BY <1>2
<1>4. p \in Pid /\ proc[p].state = "live" /\ proc[p].kin
  BY <1>3 DEF LiveKin
<1>5. proc[p].parent \in Pid
  BY <1>4 DEF FamilyInv, ProcType, Process
<1>6. proc[p].parent \in LiveKin /\ proc[proc[p].parent].start < proc[p].start
  BY <1>4, <1>5 DEF FamilyInv, LiveKin
<1>7. n <= proc[proc[p].parent].start
  BY <1>2, <1>6
<1> QED
  BY <1>1, <1>3, <1>4, <1>5, <1>6, <1>7 DEF ProcType, Process

\* What is collected was read, alive, as a child of somebody that is not init.
LEMMA Collected ==
  ASSUME TreeInv
  PROVE  /\ collect_tree \in SUBSET (Pid \X Nat)
         /\ \A e \in collect_tree : /\ e[1] \in Pid /\ e[2] = h.table[e[1]].start
                                    /\ h.table[e[1]].start # 0 /\ h.table[e[1]].ppid # InitPid
<1> USE DEF TreeInv, WorldType
<1> DEFINE Kids == {p \in Listed : h.table[p].ppid # InitPid}
<1>1. InitPid # HelperPid /\ InitPid \notin Pid
  BY ReaperAssumption DEF InitPid, HelperPid, Pid
<1>2. Kids \in SUBSET Listed /\ Kids \subseteq Pid
  BY DEF Listed
<1>3. Closed(Kids)
  BY <1>1, <1>2 DEF Closed
<1>4. InTree \subseteq Kids
  BY <1>2, <1>3 DEF InTree
<1>5. \A p \in Pid : h.table[p].start \in Nat
  BY DEF HelperType, Helper, Entry
<1> QED
  BY <1>2, <1>4, <1>5 DEF collect_tree, Listed

\* The helper forgets its scan.
RestIs(place) ==
    /\ Rest(place) \in Helper /\ Rest(place).pc = place /\ Rest(place).rootReaped = h.rootReaped
    /\ Rest(place).table = NoTable /\ Rest(place).todo = {}

LEMMA RestType ==
  ASSUME HelperType, NEW place \in {"loop", "poll", "read", "gone"}
  PROVE  RestIs(place)
<1>1. NoTable \in [Pid -> Entry] /\ 1 \in 1..(MaxPid + 1) /\ 0 \in 0..KillRounds /\ 1 \in 1..3
  BY ReaperAssumption DEF NoTable, NoEntry, Entry
<1> QED
  BY <1>1 DEF RestIs, Rest, HelperType, Helper

\* A new scan.
LEMMA ScanStep ==
  ASSUME TreeInv, HelperUp, NEW hs \in Helper, hs.rootReaped = h.rootReaped, BeginScan(hs),
         gate' \in {gate, "closed"}, MayTake, UNCHANGED <<executed, s, used>>
  PROVE  TreeInv'
<1> DEFINE new == [hs EXCEPT !.pc = "scan", !.cursor = 1, !.table = NoTable, !.todo = {}]
<1>1. NoTable \in [Pid -> Entry] /\ 1 \in 1..(MaxPid + 1)
  BY ReaperAssumption DEF NoTable, NoEntry, Entry
<1>2. new \in Helper /\ new.pc # "gone" /\ new.rootReaped = h.rootReaped /\ new.table = NoTable /\ new.todo = {}
  BY <1>1 DEF Helper
<1>3. reap_children(new)
  BY DEF BeginScan
<1> HIDE DEF new
<1> QED
  BY <1>2, <1>3, ReapStep

LEMMA LoopStopInv == TreeInv /\ LoopStop => TreeInv'
<1> SUFFICES ASSUME TreeInv, LoopStop PROVE TreeInv'
  OBVIOUS
<1> DEFINE hs == [h EXCEPT !.why = "signal", !.sig = 1, !.rounds = 0, !.last = FALSE]
<1>0. 0 \in 0..KillRounds /\ 1 \in 1..3 /\ FALSE \in BOOLEAN
  BY ReaperAssumption
<1>1. hs \in Helper /\ hs.rootReaped = h.rootReaped
  BY <1>0 DEF TreeInv, WorldType, HelperType, Helper
<1>2. BeginScan(hs) /\ gate' \in {gate, "closed"} /\ HelperUp
  BY DEF LoopStop, stop_tree, close_gate, HelperUp
<1> HIDE DEF hs
<1> QED
  BY <1>1, <1>2, ScanStep DEF LoopStop, MayTake

LEMMA LoopCheckInv == TreeInv /\ LoopCheck => TreeInv'
<1> SUFFICES ASSUME TreeInv, LoopCheck PROVE TreeInv'
  OBVIOUS
<1> DEFINE hs == [h EXCEPT !.why = "idle"]
<1>1. hs \in Helper /\ hs.rootReaped = h.rootReaped
  BY DEF TreeInv, WorldType, HelperType, Helper
<1>2. BeginScan(hs) /\ gate' \in {gate, "closed"} /\ HelperUp
  BY DEF LoopCheck, HelperUp
<1> HIDE DEF hs
<1> QED
  BY <1>1, <1>2, ScanStep DEF LoopCheck, MayTake

LEMMA PollInv == TreeInv /\ Poll => TreeInv'
<1> SUFFICES ASSUME TreeInv, Poll PROVE TreeInv'
  OBVIOUS
<1> DEFINE hs == [h EXCEPT !.pc = IF CtlReadable THEN "read" ELSE "loop"]
<1>1. /\ hs \in Helper /\ hs.rootReaped = h.rootReaped /\ hs.pc # "gone"
      /\ hs.table = h.table /\ hs.todo = h.todo
  BY DEF TreeInv, WorldType, HelperType, Helper
<1>2. reap_children(hs) /\ gate' \in {gate, "closed"} /\ HelperUp
  BY DEF Poll, HelperUp
<1> HIDE DEF hs
<1> QED
  BY <1>1, <1>2, ReapStep DEF Poll, MayTake

LEMMA HandleEofInv == TreeInv /\ HandleEof => TreeInv'
<1> SUFFICES ASSUME TreeInv, HandleEof PROVE TreeInv'
  OBVIOUS
<1> DEFINE hs == [h EXCEPT !.why = "eof", !.sig = 1, !.rounds = 0, !.last = FALSE]
<1>0. 0 \in 0..KillRounds /\ 1 \in 1..3 /\ FALSE \in BOOLEAN
  BY ReaperAssumption
<1>1. hs \in Helper /\ hs.rootReaped = h.rootReaped
  BY <1>0 DEF TreeInv, WorldType, HelperType, Helper
<1>2. BeginScan(hs) /\ gate' \in {gate, "closed"} /\ HelperUp
  BY DEF HandleEof, stop_tree, close_gate, HelperUp
<1> HIDE DEF hs
<1> QED
  BY <1>1, <1>2, ScanStep DEF HandleEof, MayTake

LEMMA DeadlineInv == TreeInv /\ Deadline => TreeInv'
<1> SUFFICES ASSUME TreeInv, Deadline PROVE TreeInv'
  OBVIOUS
<1> DEFINE hs == [h EXCEPT !.last = TRUE]
<1>1. hs \in Helper /\ hs.rootReaped = h.rootReaped
  BY DEF TreeInv, WorldType, HelperType, Helper
<1>2. BeginScan(hs) /\ gate' \in {gate, "closed"} /\ HelperUp
  BY DEF Deadline, HelperUp
<1> HIDE DEF hs
<1> QED
  BY <1>1, <1>2, ScanStep DEF Deadline, MayTake

LEMMA NextRoundInv == TreeInv /\ NextRound => TreeInv'
<1> SUFFICES ASSUME TreeInv, NextRound PROVE TreeInv'
  OBVIOUS
<1> DEFINE hs == [h EXCEPT !.rounds = IF h.sig = 3 THEN @ + 1 ELSE @]
<1>1. h.sig = 3 => h.rounds < KillRounds
  BY DEF NextRound
<1>2. hs \in Helper /\ hs.rootReaped = h.rootReaped
  BY <1>1, ReaperAssumption DEF TreeInv, WorldType, HelperType, Helper
<1>3. BeginScan(hs) /\ gate' \in {gate, "closed"} /\ HelperUp
  BY DEF NextRound, HelperUp
<1> HIDE DEF hs
<1> QED
  BY <1>2, <1>3, ScanStep DEF NextRound, MayTake

LEMMA HandleStopInv == TreeInv /\ HandleStop => TreeInv'
<1> SUFFICES ASSUME TreeInv, HandleStop PROVE TreeInv'
  OBVIOUS
<1> DEFINE hs == [h EXCEPT !.why = "command", !.sig = 1, !.rounds = 0, !.last = FALSE]
<1>0. 0 \in 0..KillRounds /\ 1 \in 1..3 /\ FALSE \in BOOLEAN
  BY ReaperAssumption
<1>1. hs \in Helper /\ hs.rootReaped = h.rootReaped
  BY <1>0 DEF TreeInv, WorldType, HelperType, Helper
<1>2. BeginScan(hs) /\ gate' \in {gate, "closed"} /\ HelperUp /\ MayTake
  BY DEF HandleStop, stop_tree, close_gate, HelperUp, MayTake
<1> HIDE DEF hs
<1> QED
  BY <1>1, <1>2, ScanStep DEF HandleStop

LEMMA FoundEmptyInv == TreeInv /\ FoundEmpty => TreeInv'
<1> SUFFICES ASSUME TreeInv, FoundEmpty PROVE TreeInv'
  OBVIOUS
<1>0. HelperUp
  BY DEF FoundEmpty, HelperUp
<1>1. LiveKin = {}
  BY <1>0, NoChildNoTree DEF FoundEmpty, tree_empty
<1>2. RestIs("gone")
  BY RestType DEF TreeInv, WorldType
<1>3. \E line \in {"empty", "stopped", "residual"} :
         outbox' \in {outbox, Append(outbox, line)} /\ h' = Rest("gone") /\ proc' = Orphaned(proc)
  BY DEF FoundEmpty, LeaveLoop, Send, TreeInv, WorldType, HelperType, Helper
<1> QED
  BY <1>1, <1>2, <1>3, LeaveStep DEF FoundEmpty, RestIs, TreeInv, WorldType, UsedType

LEMMA FoundSomeInv == TreeInv /\ FoundSome => TreeInv'
<1> SUFFICES ASSUME TreeInv, FoundSome PROVE TreeInv'
  OBVIOUS
<1> USE DEF TreeInv, WorldType
<1>0. HelperUp /\ UNCHANGED <<gate, executed, inbox, s, used>> /\ NextStart \in Nat
  BY DEF FoundSome, HelperUp, NextStart, UsedType
<1>1. CASE h' = Rest("poll") /\ UNCHANGED <<proc, outbox>>
  <2>1. RestIs("poll")
    BY RestType DEF TreeInv, WorldType
  <2>2. /\ h' \in Helper /\ h'.pc # "gone" /\ h'.rootReaped = h.rootReaped /\ h'.todo = {}
        /\ \A p \in Pid : h'.table[p] = NoEntry
    BY <1>1, <2>1 DEF RestIs, NoTable
  <2> QED
    BY <1>0, <1>1, <2>2, QuietStep DEF LineType, UsedType, GateInv
<1>2. CASE /\ h' = [h EXCEPT !.pc = "kill", !.todo = collect_tree, !.table = NoTable, !.cursor = 1]
           /\ UNCHANGED <<proc, outbox>>
  <2>1. NoTable \in [Pid -> Entry] /\ 1 \in 1..(MaxPid + 1)
    BY ReaperAssumption DEF NoTable, NoEntry, Entry
  <2>2. /\ h' \in Helper /\ h'.pc # "gone" /\ h'.rootReaped = h.rootReaped
        /\ h'.todo = collect_tree /\ h'.table = NoTable
    BY <1>2, <2>1, Collected DEF HelperType, Helper
  <2>3. \A e \in h'.todo : /\ e[2] < NextStart
                           /\ proc[e[1]].state # "free" /\ proc[e[1]].start = e[2] => proc[e[1]].kin
    BY <2>2, Collected DEF BirthInv, ScanInv
  <2>4. \A p \in Pid : h'.table[p] = NoEntry
    BY <2>2 DEF NoTable
  <2>5. h' \in Helper /\ h'.pc # "gone" /\ h'.rootReaped = h.rootReaped
    BY <2>2
  <2>6. UNCHANGED <<proc, outbox>> /\ LineType' /\ UsedType' /\ GateInv'
    BY <1>0, <1>2 DEF LineType, UsedType, GateInv
  <2> QED
    BY <1>0, <2>3, <2>4, <2>5, <2>6, QuietStep
<1>3. CASE h.sig < 3 /\ BeginScan([h EXCEPT !.sig = @ + 1, !.last = FALSE])
  <2> DEFINE hs == [h EXCEPT !.sig = @ + 1, !.last = FALSE]
  <2>0. h.sig + 1 \in 1..3
    BY <1>3 DEF HelperType, Helper
  <2>1. hs \in Helper /\ hs.rootReaped = h.rootReaped
    BY <2>0 DEF HelperType, Helper
  <2>2. BeginScan(hs)
    BY <1>3
  <2> HIDE DEF hs
  <2> QED
    BY <1>0, <2>1, <2>2, ScanStep DEF MayTake
<1> QED
  BY <1>1, <1>2, <1>3 DEF FoundSome

LEMMA LeaveResidualInv == TreeInv /\ LeaveResidual => TreeInv'
<1> SUFFICES ASSUME TreeInv, LeaveResidual PROVE TreeInv'
  OBVIOUS
<1> USE DEF TreeInv, WorldType
<1>0. HelperUp /\ UNCHANGED <<gate, executed, inbox, s, used>>
  BY DEF LeaveResidual, HelperUp
<1>1. ASSUME NEW place \in {"loop", "read"}, h' = Rest(place), Send("residual"), UNCHANGED proc PROVE TreeInv'
  <2>1. RestIs(place)
    BY RestType DEF TreeInv, WorldType
  <2>2. /\ h' \in Helper /\ h'.pc # "gone" /\ h'.rootReaped = h.rootReaped /\ h'.todo = {}
        /\ \A p \in Pid : h'.table[p] = NoEntry
    BY <1>1, <2>1 DEF RestIs, NoTable
  <2>3. outbox' = outbox \/ outbox' = Append(outbox, "residual")
    BY <1>1 DEF Send
  <2>4. LineType'
    BY <1>0, <2>3 DEF LineType
  <2> QED
    BY <1>0, <1>1, <2>2, <2>3, <2>4, QuietStep DEF UsedType, GateInv
<1>2. ASSUME NEW line \in {"residual", ""}, LeaveLoop(line) PROVE TreeInv'
  <2>1. RestIs("gone")
    BY RestType DEF TreeInv, WorldType
  <2>2. outbox' \in {outbox, Append(outbox, "residual")} /\ h' = Rest("gone") /\ proc' = Orphaned(proc)
    BY <1>2 DEF LeaveLoop, Send
  <2> QED
    BY <1>0, <2>1, <2>2, LeaveStep DEF RestIs, UsedType
<1> QED
  BY <1>1, <1>2 DEF LeaveResidual

LEMMA HelperCrashInv == TreeInv /\ HelperCrash => TreeInv'
<1> SUFFICES ASSUME TreeInv, HelperCrash PROVE TreeInv'
  OBVIOUS
<1> USE DEF TreeInv, WorldType
<1> DEFINE hs == [Rest("gone") EXCEPT !.crashed = TRUE]
<1>1. RestIs("gone")
  BY RestType DEF TreeInv, WorldType
<1>2. hs \in Helper /\ hs.pc = "gone" /\ hs.table = NoTable /\ hs.todo = {}
  BY <1>1 DEF RestIs, Helper
<1>3. /\ h' = hs /\ proc' = Orphaned(proc) /\ gate' \in {gate, "closed"}
      /\ UNCHANGED <<executed, inbox, outbox, s>>
  BY DEF HelperCrash, close_gate
<1>4. UsedType' /\ used'.forks = used.forks /\ used'.strangers = used.strangers
  BY DEF HelperCrash, Use, UsedType
<1> HIDE DEF hs
<1> QED
  BY <1>2, <1>3, <1>4, LeaveStep

LEMMA HelperSignalledInv == TreeInv /\ HelperSignalled => TreeInv'
<1> SUFFICES ASSUME TreeInv, HelperSignalled PROVE TreeInv'
  OBVIOUS
<1> USE DEF TreeInv, WorldType
<1>1. /\ h' \in Helper /\ h'.pc = h.pc /\ h'.rootReaped = h.rootReaped
      /\ h'.table = h.table /\ h'.todo = h.todo /\ HelperUp
  BY DEF HelperSignalled, HelperType, Helper
<1>2. UsedType' /\ used'.forks = used.forks /\ used'.strangers = used.strangers
  BY DEF HelperSignalled, Use, UsedType
<1>3. UNCHANGED <<proc, gate, executed, inbox, outbox, s>>
  BY DEF HelperSignalled
<1>4. \A e \in h.todo : proc[e[1]].state # "free" /\ proc[e[1]].start = e[2] => proc[e[1]].kin
  BY DEF ScanInv
<1> QED
  BY <1>1, <1>2, <1>3, <1>4, QuietStep DEF LineType, GateInv, HelperUp

LEMMA ReadStatInv == TreeInv /\ ReadStat => TreeInv'
<1> SUFFICES ASSUME TreeInv, ReadStat PROVE TreeInv'
  OBVIOUS
<1> USE DEF TreeInv, WorldType
<1> DEFINE c == h.cursor
           e == proc[c]
           new == IF e.state = "free" THEN NoEntry
                  ELSE [start |-> e.start, ppid |-> e.parent, zombie |-> e.state = "zombie"]
<1>1. h.pc = "scan" /\ c \in Pid /\ h' = [h EXCEPT !.cursor = @ + 1, !.table[c] = new]
  BY DEF ReadStat
<1>2. new \in Entry
  BY <1>1 DEF ProcType, Process, Entry, NoEntry
<1>3. c + 1 \in 1..(MaxPid + 1)
  BY <1>1, ReaperAssumption DEF Pid
<1>4. new \in {NoEntry} \cup {[start |-> proc[c].start, ppid |-> proc[c].parent, zombie |-> z] : z \in
                             (IF proc[c].state = "free" THEN {} ELSE BOOLEAN)}
  OBVIOUS
<1> HIDE DEF new, e
<1>5. /\ h' \in Helper /\ h'.pc = h.pc /\ h'.rootReaped = h.rootReaped /\ h'.todo = h.todo
      /\ h'.table = [h.table EXCEPT ![c] = new]
  BY <1>1, <1>2, <1>3 DEF HelperType, Helper
<1>6. \A p \in Pid : h'.table[p] = IF p = c THEN new ELSE h.table[p]
  BY <1>1, <1>5 DEF HelperType, Helper
<1>7. \A x \in h.todo : proc[x[1]].state # "free" /\ proc[x[1]].start = x[2] => proc[x[1]].kin
  BY DEF ScanInv
<1>8. HelperUp /\ UNCHANGED <<proc, gate, executed, inbox, outbox, s, used>>
  BY DEF ReadStat, HelperUp
<1> HIDE DEF c
<1> QED
  BY <1>1, <1>4, <1>5, <1>6, <1>7, <1>8, QuietStep DEF LineType, GateInv, UsedType

LEMMA HandleGateInv == TreeInv /\ HandleGate => TreeInv'
<1> SUFFICES ASSUME TreeInv, HandleGate PROVE TreeInv'
  OBVIOUS
<1> USE DEF TreeInv, WorldType
<1>1. PICK place \in {"loop", "read"} : h' = [h EXCEPT !.pc = place]
  BY DEF HandleGate, AfterLine
<1>2. /\ h' \in Helper /\ h'.pc = place /\ h'.rootReaped = h.rootReaped
      /\ h'.table = h.table /\ h'.todo = h.todo /\ HelperUp
  BY <1>1 DEF HandleGate, HelperType, Helper, HelperUp
<1>3. UNCHANGED <<proc, executed, outbox, s, used>> /\ MayTake
  BY DEF HandleGate, MayTake
<1>4. gate' \in {"shut", "open", "closed"} /\ (gate' = "open" => gate = "open" \/ Head(inbox) = "go")
  BY DEF HandleGate, close_gate, LineType
<1>5. Head(inbox) = "go" => Has("go", inbox)
  BY HasTail DEF HandleGate, LineType
<1>6. LineType' /\ GateInv' /\ UsedType'
  BY <1>3, <1>4, <1>5, TakenLine DEF LineType, GateInv, UsedType
<1>7. \A e \in h.todo : proc[e[1]].state # "free" /\ proc[e[1]].start = e[2] => proc[e[1]].kin
  BY DEF ScanInv
<1> QED
  BY <1>1, <1>2, <1>3, <1>6, <1>7, QuietStep

-----------------------------------------------------------------------------
(* The kernel and the programs *)

\* The root as long as the helper has not reaped it.
RootKept ==
    HelperUp /\ ~ h.rootReaped =>
         /\ proc[Root].state # "free" /\ proc[Root].kin /\ proc[Root].start = 1
         /\ proc[Root].parent = HelperPid

\* A step in which nobody is born and the host and the lines to it have no part.
LEMMA KernelStep ==
  ASSUME TreeInv, NoBirth, FamilyInv', RootKept', h' \in Helper, h'.table = h.table,
         h'.todo \subseteq h.todo, LineType', GateInv', UNCHANGED <<outbox, s, used>>
  PROVE  TreeInv'
<1> USE DEF TreeInv, WorldType
<1>1. /\ ProcType' /\ BirthInv' /\ ScanInv' /\ LiveKin' \subseteq LiveKin
      /\ RootIsOriginal' => RootIsOriginal
  BY NoBirthKeeps
<1>2. HelperType' /\ SessionType' /\ UsedType'
  BY DEF HelperType, SessionType, UsedType
<1>3. GoneInv' /\ RootInv'
  BY <1>1 DEF GoneInv, RootInv, RootKept
<1> QED
  BY <1>1, <1>2, <1>3

\* A process dies: its children go to the helper, or to init without one.
LEMMA BuriedFamily ==
  ASSUME TreeInv, NEW p \in Pid, proc[p].state = "live", proc' = Buried(proc, p), UNCHANGED h
  PROVE  NoBirth /\ FamilyInv' /\ RootKept'
<1> USE DEF TreeInv, WorldType
<1> DEFINE heir == IF proc[p].kin /\ HelperUp THEN HelperPid ELSE InitPid
           Child(q) == q # p /\ proc[q].state # "free" /\ proc[q].parent = p
           Ends(q) == /\ proc'[q].state = "free" /\ proc'[q].start = 0 /\ ~ proc'[q].doomed
                      /\ proc'[q] \in Process
           Stays(q) == /\ proc[q].state # "free" /\ proc'[q].state # "free"
                       /\ proc'[q].start = proc[q].start /\ proc'[q].kin = proc[q].kin
                       /\ proc'[q].doomed => proc[q].doomed
                       /\ proc'[q] \in Process
<1>0. Root \in Pid /\ InitPid \notin Pid /\ HelperPid \notin Pid /\ InitPid # HelperPid
  BY ReaperAssumption DEF Pid, InitPid, HelperPid
<1>1. \A q \in Pid : q # p /\ ~ Child(q) => proc'[q] = proc[q]
  BY DEF Buried
<1>9. \A q \in Pid : /\ Freed(proc, q) \in Process /\ Freed(proc, q).state = "free"
                     /\ Freed(proc, q).start = 0 /\ ~ Freed(proc, q).doomed
  BY DEF Freed, Free, ProcType, Process
<1>2. \/ Ends(p)
      \/ /\ Stays(p) /\ proc'[p].state = "zombie" /\ proc'[p].parent = proc[p].parent
         /\ proc[p].kin /\ proc[p].parent # InitPid
  <2>1. proc'[p] = IF proc[p].parent = InitPid \/ ~ proc[p].kin THEN Freed(proc, p)
                   ELSE [proc[p] EXCEPT !.state = "zombie", !.doomed = FALSE]
    BY DEF Buried
  <2>2. CASE proc[p].parent = InitPid \/ ~ proc[p].kin
    BY <1>9, <2>1, <2>2
  <2>3. CASE ~(proc[p].parent = InitPid \/ ~ proc[p].kin)
    <3>1. proc'[p] = [proc[p] EXCEPT !.state = "zombie", !.doomed = FALSE] /\ proc[p] \in Process
      BY <2>1, <2>3 DEF ProcType
    <3>2. /\ proc'[p].state = "zombie" /\ proc'[p].doomed = FALSE /\ proc'[p].start = proc[p].start
          /\ proc'[p].kin = proc[p].kin /\ proc'[p].parent = proc[p].parent /\ proc'[p] \in Process
      BY <3>1 DEF Process
    <3> QED
      BY <2>3, <3>2
  <2> QED
    BY <2>2, <2>3
<1>3. proc[p].kin /\ proc[p].parent # InitPid => Stays(p)
  <2>1. proc'[p] = IF proc[p].parent = InitPid \/ ~ proc[p].kin THEN Freed(proc, p)
                   ELSE [proc[p] EXCEPT !.state = "zombie", !.doomed = FALSE]
    BY DEF Buried
  <2> QED
    BY <2>1 DEF ProcType, Process
<1>4. \A q \in Pid : Child(q) =>
         \/ Ends(q)
         \/ Stays(q) /\ proc'[q].parent = heir /\ proc'[q].state = proc[q].state
  <2> SUFFICES ASSUME NEW q \in Pid, Child(q)
               PROVE  \/ Ends(q)
                      \/ Stays(q) /\ proc'[q].parent = heir /\ proc'[q].state = proc[q].state
    OBVIOUS
  <2>1. proc'[q] = IF heir = InitPid /\ proc[q].state = "zombie" THEN Freed(proc, q)
                   ELSE [proc[q] EXCEPT !.parent = heir]
    BY DEF Buried
  <2>2. heir \in {InitPid, HelperPid}
    OBVIOUS
  <2> HIDE DEF heir
  <2>3. CASE heir = InitPid /\ proc[q].state = "zombie"
    BY <1>9, <2>1, <2>3
  <2>4. CASE ~(heir = InitPid /\ proc[q].state = "zombie")
    <3>1. proc'[q] = [proc[q] EXCEPT !.parent = heir] /\ proc[q] \in Process
      BY <2>1, <2>4 DEF ProcType
    <3> QED
      BY <2>2, <3>1 DEF Process
  <2> QED
    BY <2>3, <2>4
<1>5. \A q \in Pid : Child(q) => proc[p].kin /\ proc[q].kin
  BY <1>0 DEF FamilyInv
<1>6. NoBirth
  <2>1. \A q \in Pid : Ends(q) \/ Stays(q) \/ (proc'[q] = proc[q] /\ q # p)
    BY <1>1, <1>2, <1>4
  <2>2. proc' = [q \in Pid |-> proc'[q]]
    BY DEF Buried
  <2>3. \A q \in Pid : proc'[q] \in Process
    BY <2>1 DEF ProcType
  <2>4. proc' \in [Pid -> Process]
    BY <2>2, <2>3
  <2>5. \A q \in Pid : proc'[q].state = "live" => proc[q].state = "live"
    BY <1>1, <1>2, <1>4
  <2> QED
    BY <2>1, <2>4, <2>5 DEF NoBirth, FamilyInv
<1>7. FamilyInv'
  <2> SUFFICES ASSUME NEW q \in Pid
               PROVE  /\ proc'[q].state = "free" => ~ proc'[q].doomed /\ proc'[q].start = 0
                      /\ proc'[q].state # "free" =>
                           /\ proc'[q].parent \in Pid => /\ proc'[proc'[q].parent].state = "live"
                                                         /\ proc'[proc'[q].parent].kin
                                                         /\ proc'[proc'[q].parent].start < proc'[q].start
                           /\ proc'[q].parent # InitPid => proc'[q].kin
                           /\ proc'[q].kin /\ HelperUp' => proc'[q].parent # InitPid
    BY DEF FamilyInv
  <2>0. HelperUp' = HelperUp
    BY DEF HelperUp
  <2>1. \A r \in Pid :
           r # p /\ proc[r].state = "live" /\ ~ Child(r) =>
             proc'[r].state = "live" /\ proc'[r].kin = proc[r].kin /\ proc'[r].start = proc[r].start
    BY <1>1
  <2>2. \A r \in Pid :
           Child(r) /\ proc[r].state = "live" =>
             proc'[r].state = "live" /\ proc'[r].kin = proc[r].kin /\ proc'[r].start = proc[r].start
    <3> SUFFICES ASSUME NEW r \in Pid, Child(r), proc[r].state = "live"
                 PROVE  proc'[r].state = "live" /\ proc'[r].kin = proc[r].kin /\ proc'[r].start = proc[r].start
      OBVIOUS
    <3>1. proc'[r] = [proc[r] EXCEPT !.parent = heir]
      BY DEF Buried
    <3> QED
      BY <3>1 DEF ProcType, Process
  <2>3. CASE Ends(q)
    BY <2>3
  <2>4. CASE q = p /\ ~ Ends(q)
    <3>1. /\ Stays(p) /\ proc'[p].parent = proc[p].parent /\ proc[p].kin
          /\ proc[p].parent # InitPid
      BY <1>2, <2>4
    <3>2. proc[p].parent \in Pid => /\ proc[proc[p].parent].state = "live"
                                    /\ proc[proc[p].parent].kin
                                    /\ proc[proc[p].parent].start < proc[p].start
      BY DEF FamilyInv
    <3>3. proc[p].parent # p
      BY <3>2 DEF ProcType, Process
    <3> QED
      BY <2>0, <2>1, <2>2, <2>4, <3>1, <3>2, <3>3
  <2>5. CASE Child(q) /\ ~ Ends(q)
    <3>1. Stays(q) /\ proc'[q].parent = heir
      BY <1>4, <2>5
    <3>2. proc[p].kin /\ proc[q].kin
      BY <1>5, <2>5
    <3> QED
      BY <1>0, <2>0, <3>1, <3>2
  <2>6. CASE q # p /\ ~ Child(q)
    <3>1. proc'[q] = proc[q]
      BY <1>1, <2>6
    <3>2. proc[q].state # "free" => proc[q].parent # p
      BY <2>6
    <3> HIDE DEF Child
    <3> QED
      BY <2>0, <2>1, <2>2, <3>1, <3>2 DEF FamilyInv
  <2> QED
    BY <2>3, <2>4, <2>5, <2>6
<1>8. RootKept'
  <2> SUFFICES ASSUME HelperUp, ~ h.rootReaped
               PROVE  /\ proc'[Root].state # "free" /\ proc'[Root].kin /\ proc'[Root].start = 1
                      /\ proc'[Root].parent = HelperPid
    BY DEF RootKept, HelperUp
  <2>1. /\ proc[Root].state # "free" /\ proc[Root].kin /\ proc[Root].start = 1
        /\ proc[Root].parent = HelperPid
    BY DEF RootInv
  <2>2. CASE Root = p
    <3>1. proc'[p] = [proc[p] EXCEPT !.state = "zombie", !.doomed = FALSE]
      BY <1>0, <2>1, <2>2 DEF Buried
    <3> QED
      BY <2>1, <2>2, <3>1 DEF ProcType, Process
  <2>3. CASE Root # p
    BY <1>0, <1>1, <2>1, <2>3
  <2> QED
    BY <2>2, <2>3
<1> QED
  BY <1>6, <1>7, <1>8

LEMMA DieInv == ASSUME TreeInv, NEW p \in Pid, Die(p) PROVE TreeInv'
<1>1. NoBirth /\ FamilyInv' /\ RootKept'
  BY BuriedFamily DEF Die
<1>2. h' \in Helper /\ LineType' /\ GateInv'
  BY DEF Die, TreeInv, WorldType, HelperType, LineType, GateInv
<1> QED
  BY <1>1, <1>2, KernelStep DEF Die

LEMMA ParentWaitsInv == ASSUME TreeInv, NEW p \in Pid, ParentWaits(p) PROVE TreeInv'
<1> USE DEF TreeInv, WorldType
<1>0. /\ Root \in Pid /\ HelperPid \notin Pid
      /\ proc[p].state = "zombie" /\ proc[p].parent \in Pid
      /\ proc' = [proc EXCEPT ![p] = Freed(proc, p)]
  BY ReaperAssumption DEF ParentWaits, Pid, HelperPid
<1>1. /\ proc'[p].state = "free" /\ proc'[p].start = 0 /\ ~ proc'[p].doomed /\ proc'[p] \in Process
      /\ \A q \in Pid : q # p => proc'[q] = proc[q]
  BY <1>0 DEF Freed, Free, ProcType, Process
<1>2. NoBirth
  <2>1. proc' \in [Pid -> Process]
    BY <1>0, <1>1 DEF ProcType
  <2> QED
    BY <1>1, <2>1 DEF NoBirth, FamilyInv
<1>3. FamilyInv' /\ RootKept'
  BY <1>0, <1>1 DEF FamilyInv, RootInv, RootKept, ParentWaits, HelperUp
<1>4. h' \in Helper /\ LineType' /\ GateInv'
  BY DEF ParentWaits, HelperType, LineType, GateInv
<1> QED
  BY <1>2, <1>3, <1>4, KernelStep DEF ParentWaits

\* A signal that may kill, to a process of the tree.
LEMMA DoomedFamily ==
  ASSUME TreeInv, NEW p \in Pid, proc[p].state = "live", proc[p].kin,
         proc' = [proc EXCEPT ![p].doomed = TRUE], h'.pc # "gone", HelperUp, h'.rootReaped = h.rootReaped
  PROVE  NoBirth /\ FamilyInv' /\ RootKept'
<1> USE DEF TreeInv, WorldType
<1>0. Root \in Pid
  BY ReaperAssumption DEF Pid
<1>1. /\ proc'[p].state = proc[p].state /\ proc'[p].start = proc[p].start /\ proc'[p].kin = proc[p].kin
      /\ proc'[p].parent = proc[p].parent /\ proc'[p] \in Process
      /\ \A q \in Pid : q # p => proc'[q] = proc[q]
  BY DEF ProcType, Process
<1>2. NoBirth
  <2>1. proc' \in [Pid -> Process]
    BY <1>1 DEF ProcType
  <2> QED
    BY <1>1, <2>1 DEF NoBirth, FamilyInv
<1>3. FamilyInv' /\ RootKept'
  BY <1>0, <1>1 DEF FamilyInv, RootInv, RootKept, HelperUp
<1> QED
  BY <1>2, <1>3

\* The pid of a root that was not reaped is the root's.
LEMMA HandleSignalInv == TreeInv /\ HandleSignal => TreeInv'
<1> SUFFICES ASSUME TreeInv, HandleSignal PROVE TreeInv'
  OBVIOUS
<1> USE DEF TreeInv, WorldType
<1>0. Root \in Pid /\ HelperUp /\ MayTake /\ UNCHANGED <<gate, executed, outbox, s, used>>
  BY ReaperAssumption DEF Pid, HandleSignal, HelperUp, MayTake
<1>1. PICK place \in {"loop", "read"} : h' = [h EXCEPT !.pc = place]
  BY DEF HandleSignal, AfterLine
<1>2. /\ h' \in Helper /\ h'.pc = place /\ h'.pc # "gone" /\ h'.rootReaped = h.rootReaped
      /\ h'.table = h.table /\ h'.todo = h.todo
  BY <1>1 DEF HelperType, Helper
<1>3. LineType' /\ GateInv' /\ UsedType'
  BY <1>0, TakenLine DEF LineType, GateInv, UsedType
<1>4. CASE UNCHANGED proc
  <2>1. \A e \in h.todo : proc[e[1]].state # "free" /\ proc[e[1]].start = e[2] => proc[e[1]].kin
    BY DEF ScanInv
  <2> QED
    BY <1>0, <1>2, <1>3, <1>4, <2>1, QuietStep
<1>5. CASE ~ h.rootReaped /\ proc[Root].state = "live" /\ proc' = [proc EXCEPT ![Root].doomed = TRUE]
  <2>1. proc[Root].kin
    BY <1>0, <1>5 DEF RootInv
  <2>2. NoBirth /\ FamilyInv' /\ RootKept'
    BY <1>0, <1>2, <1>5, <2>1, DoomedFamily
  <2> QED
    BY <1>0, <1>2, <1>3, <2>2, KernelStep
<1> QED
  BY <1>4, <1>5 DEF HandleSignal

\* The pid that a scan found may have another owner, but not with that starting time.
LEMMA SafeKillInv == TreeInv /\ safe_kill => TreeInv'
<1> SUFFICES ASSUME TreeInv, safe_kill PROVE TreeInv'
  OBVIOUS
<1> USE DEF TreeInv, WorldType
<1> DEFINE e == CHOOSE x \in h.todo : \A y \in h.todo : x[1] <= y[1]
<1>0. HelperUp /\ UNCHANGED <<gate, executed, inbox, outbox, s, used>>
  BY DEF safe_kill, HelperUp
<1>1. /\ h' = [h EXCEPT !.todo = @ \ {e}]
      /\ \/ UNCHANGED proc
         \/ SameProcess(e[1], e[2]) /\ proc' = [proc EXCEPT ![e[1]].doomed = TRUE]
  BY DEF safe_kill
<1>2. e \in h.todo
  <2> DEFINE Pids == {x[1] : x \in h.todo}
  <2>1. Pids \in SUBSET Nat /\ Pids # {}
    BY DEF safe_kill, HelperType, Helper, Pid
  <2>2. PICK n \in Pids : \A m \in Pids : n <= m
    BY <2>1, LeastNat
  <2>3. \E x \in h.todo : \A y \in h.todo : x[1] <= y[1]
    BY <2>2
  <2> QED
    BY <2>3
<1> HIDE DEF e
<1>3. /\ h' \in Helper /\ h'.pc = h.pc /\ h'.pc # "gone" /\ h'.rootReaped = h.rootReaped
      /\ h'.table = h.table /\ h'.todo \subseteq h.todo
  BY <1>0, <1>1 DEF HelperType, Helper, HelperUp
<1>4. LineType' /\ GateInv' /\ UsedType'
  BY <1>0 DEF LineType, GateInv, UsedType
<1>5. \A x \in h.todo : proc[x[1]].state # "free" /\ proc[x[1]].start = x[2] => proc[x[1]].kin
  BY DEF ScanInv
<1>6. CASE UNCHANGED proc
  BY <1>0, <1>3, <1>4, <1>5, <1>6, QuietStep
<1>7. CASE SameProcess(e[1], e[2]) /\ proc' = [proc EXCEPT ![e[1]].doomed = TRUE]
  <2>1. e[1] \in Pid /\ proc[e[1]].state = "live" /\ proc[e[1]].kin
    BY <1>2, <1>5, <1>7 DEF SameProcess, HelperType, Helper
  <2>2. NoBirth /\ FamilyInv' /\ RootKept'
    BY <1>0, <1>3, <1>7, <2>1, DoomedFamily
  <2> QED
    BY <1>0, <1>3, <1>4, <2>2, KernelStep
<1> QED
  BY <1>1, <1>6, <1>7

\* A child is younger than its parent.
LEMMA ForkChildInv == ASSUME TreeInv, NEW p \in Pid, ForkChild(p) PROVE TreeInv'
<1> USE DEF TreeInv, WorldType
<1>1. PICK q \in Pid : proc[q].state = "free" /\ proc' = [proc EXCEPT ![q] = Born(NextStart, p, TRUE)]
  BY DEF ForkChild
<1>2. /\ proc[p].state = "live" /\ proc[p].kin /\ used.forks < MaxForks
      /\ used' = [used EXCEPT !["forks"] = @ + 1]
      /\ UNCHANGED <<gate, executed, h, inbox, outbox, s>>
  BY DEF ForkChild, Use
<1>3. UsedType' /\ NextStart' = NextStart + 1 /\ NextStart \in Nat /\ NextStart >= 2
  BY <1>2, ReaperAssumption DEF UsedType, NextStart
<1>4. /\ proc'[q].state = "live" /\ proc'[q].start = NextStart /\ proc'[q].parent = p
      /\ proc'[q].kin /\ ~ proc'[q].doomed /\ proc'[q] \in Process
      /\ \A r \in Pid : r # q => proc'[r] = proc[r]
  BY <1>1, <1>3 DEF Born, ProcType, Process
<1>5. ProcType' /\ HelperType' /\ SessionType' /\ LineType'
  BY <1>1, <1>2, <1>4 DEF ProcType, HelperType, SessionType, LineType
<1>6. BirthInv'
  <2>1. \A r \in Pid : proc[r].start \in Nat /\ h.table[r].start \in Nat
    BY DEF ProcType, Process, HelperType, Helper, Entry
  <2>2. \A e \in h.todo : e[2] \in Nat
    BY DEF HelperType, Helper
  <2> QED
    BY <1>2, <1>3, <1>4, <2>1, <2>2 DEF BirthInv
<1>7. FamilyInv'
  <2>0. InitPid \notin Pid /\ HelperUp' = HelperUp /\ p # q
    BY <1>1, <1>2 DEF InitPid, Pid, HelperUp
  <2>1. proc[p].start < NextStart
    BY DEF BirthInv
  <2> SUFFICES ASSUME NEW r \in Pid
               PROVE  /\ proc'[r].state = "free" => ~ proc'[r].doomed /\ proc'[r].start = 0
                      /\ proc'[r].state # "free" =>
                           /\ proc'[r].parent \in Pid => /\ proc'[proc'[r].parent].state = "live"
                                                         /\ proc'[proc'[r].parent].kin
                                                         /\ proc'[proc'[r].parent].start < proc'[r].start
                           /\ proc'[r].parent # InitPid => proc'[r].kin
                           /\ proc'[r].kin /\ HelperUp' => proc'[r].parent # InitPid
    BY DEF FamilyInv
  <2>2. CASE r = q
    <3>1. proc'[p] = proc[p]
      BY <1>4, <2>0
    <3> QED
      BY <1>2, <1>4, <2>0, <2>1, <2>2, <3>1
  <2>3. CASE r # q
    <3>1. proc'[r] = proc[r]
      BY <1>4, <2>3
    <3>2. proc[r].state # "free" /\ proc[r].parent \in Pid => proc[r].parent # q
      BY <1>1 DEF FamilyInv
    <3>3. proc[r].state # "free" /\ proc[r].parent \in Pid => proc'[proc[r].parent] = proc[proc[r].parent]
      BY <1>4, <3>2
    <3> QED
      BY <2>0, <3>1, <3>3 DEF FamilyInv
  <2> QED
    BY <2>2, <2>3
<1>8. GoneInv'
  BY <1>2 DEF GoneInv, LiveKin
<1>9. RootInv'
  <2>1. Root \in Pid
    BY ReaperAssumption DEF Pid
  <2>2. RootIsOriginal' => RootIsOriginal
    BY <1>3, <1>4, <2>1 DEF RootIsOriginal
  <2>3. HelperUp /\ ~ h.rootReaped => Root # q
    BY <1>1 DEF RootInv
  <2> QED
    BY <1>2, <1>4, <2>1, <2>2, <2>3 DEF RootInv, HelperUp
<1>10. ScanInv'
  <2>1. \A e \in h.todo : e[1] \in Pid
    BY DEF HelperType, Helper
  <2> QED
    BY <1>2, <1>4, <2>1 DEF ScanInv, NoRecycledPid
<1>11. GateInv'
  BY <1>2 DEF GateInv
<1> QED
  BY <1>3, <1>5, <1>6, <1>7, <1>8, <1>9, <1>10, <1>11

\* Who takes a pid over has a starting time that no scan has seen.
LEMMA StrangerBornInv == ASSUME TreeInv, NEW q \in Pid, StrangerBorn(q) PROVE TreeInv'
<1> USE DEF TreeInv, WorldType
<1>1. /\ proc[q].state = "free" /\ proc' = [proc EXCEPT ![q] = Born(NextStart, InitPid, FALSE)]
      /\ used.strangers < MaxStrangers /\ used' = [used EXCEPT !["strangers"] = @ + 1]
      /\ UNCHANGED <<gate, executed, h, inbox, outbox>>
  BY DEF StrangerBorn, Use
<1>2. /\ SessionType' /\ s'.treeEmpty = s.treeEmpty /\ s'.terminal = s.terminal
      /\ s'.stopSaid = s.stopSaid /\ s'.settleSaid = s.settleSaid /\ s'.rootExit = s.rootExit
      /\ s'.pc = s.pc /\ s'.osStart = s.osStart /\ s'.gate = s.gate
  BY DEF StrangerBorn, SessionType, Session
<1>3. UsedType' /\ NextStart' = NextStart + 1 /\ NextStart \in Nat /\ NextStart >= 2
  BY <1>1, ReaperAssumption DEF UsedType, NextStart
<1>4. /\ proc'[q].state = "live" /\ proc'[q].start = NextStart /\ proc'[q].parent = InitPid
      /\ ~ proc'[q].kin /\ ~ proc'[q].doomed /\ proc'[q] \in Process
      /\ \A r \in Pid : r # q => proc'[r] = proc[r]
  BY <1>1, <1>3 DEF Born, ProcType, Process
<1>5. ProcType' /\ HelperType' /\ LineType'
  BY <1>1, <1>4 DEF ProcType, HelperType, LineType
<1>6. BirthInv'
  <2>1. \A r \in Pid : proc[r].start \in Nat /\ h.table[r].start \in Nat
    BY DEF ProcType, Process, HelperType, Helper, Entry
  <2>2. \A e \in h.todo : e[2] \in Nat
    BY DEF HelperType, Helper
  <2>3. UNCHANGED h
    BY <1>1
  <2> QED
    BY <1>3, <1>4, <2>1, <2>2, <2>3 DEF BirthInv
<1>7. FamilyInv'
  <2>0. InitPid \notin Pid /\ HelperUp' = HelperUp
    BY <1>1 DEF InitPid, Pid, HelperUp
  <2> SUFFICES ASSUME NEW r \in Pid
               PROVE  /\ proc'[r].state = "free" => ~ proc'[r].doomed /\ proc'[r].start = 0
                      /\ proc'[r].state # "free" =>
                           /\ proc'[r].parent \in Pid => /\ proc'[proc'[r].parent].state = "live"
                                                         /\ proc'[proc'[r].parent].kin
                                                         /\ proc'[proc'[r].parent].start < proc'[r].start
                           /\ proc'[r].parent # InitPid => proc'[r].kin
                           /\ proc'[r].kin /\ HelperUp' => proc'[r].parent # InitPid
    BY DEF FamilyInv
  <2>2. CASE r = q
    BY <1>4, <2>0, <2>2
  <2>3. CASE r # q
    <3>1. proc'[r] = proc[r]
      BY <1>4, <2>3
    <3>2. proc[r].state # "free" /\ proc[r].parent \in Pid => proc[r].parent # q
      BY <1>1 DEF FamilyInv
    <3>3. proc[r].state # "free" /\ proc[r].parent \in Pid => proc'[proc[r].parent] = proc[proc[r].parent]
      BY <1>4, <3>2
    <3> QED
      BY <2>0, <3>1, <3>3 DEF FamilyInv
  <2> QED
    BY <2>2, <2>3
<1>8. GoneInv'
  BY <1>1, <1>2, <1>4 DEF GoneInv, LiveKin
<1>9. RootInv'
  <2>1. Root \in Pid
    BY ReaperAssumption DEF Pid
  <2>2. RootIsOriginal' => RootIsOriginal
    BY <1>3, <1>4, <2>1 DEF RootIsOriginal
  <2>3. HelperUp /\ ~ h.rootReaped => Root # q
    BY <1>1 DEF RootInv
  <2> QED
    BY <1>1, <1>2, <1>4, <2>1, <2>2, <2>3 DEF RootInv, HelperUp
<1>10. ScanInv'
  <2>1. \A e \in h.todo : e[1] \in Pid /\ e[2] \in Nat /\ e[2] < NextStart
    BY DEF HelperType, Helper, BirthInv
  <2>2. \A r \in Pid : h.table[r].start \in Nat /\ h.table[r].start < NextStart
    BY DEF HelperType, Helper, Entry, BirthInv
  <2>3. UNCHANGED h
    BY <1>1
  <2>4. \A r \in Pid : proc'[r].start = h.table[r].start => r # q
    BY <1>3, <1>4, <2>2
  <2>5. \A e \in h.todo : proc'[e[1]].start = e[2] => e[1] # q
    BY <1>3, <1>4, <2>1
  <2> QED
    BY <1>4, <2>1, <2>3, <2>4, <2>5 DEF ScanInv, NoRecycledPid
<1>11. GateInv'
  BY <1>1, <1>2 DEF GateInv
<1> QED
  BY <1>2, <1>3, <1>5, <1>6, <1>7, <1>8, <1>9, <1>10, <1>11

LEMMA PassGateInv == TreeInv /\ PassGate => TreeInv'
<1> SUFFICES ASSUME TreeInv, PassGate PROVE TreeInv'
  OBVIOUS
<1> USE DEF TreeInv, WorldType
<1>1. executed' = TRUE /\ gate = "open" /\ UNCHANGED <<proc, gate, h, inbox, outbox, s, used>>
  BY DEF PassGate
<1>2. WorldType' /\ GateInv'
  BY <1>1 DEF ProcType, HelperType, SessionType, LineType, UsedType, GateInv
<1>3. BirthInv' /\ FamilyInv' /\ ScanInv'
  BY <1>1 DEF BirthInv, FamilyInv, ScanInv, NoRecycledPid, NextStart, HelperUp
<1>4. GoneInv' /\ RootInv'
  BY <1>1 DEF GoneInv, RootInv, LiveKin, RootIsOriginal, HelperUp
<1> QED
  BY <1>2, <1>3, <1>4

-----------------------------------------------------------------------------
(* The driver *)

\* Whatever the session says of the tree.
Claims(ss) == ss.treeEmpty \/ ss.terminal \/ ss.stopSaid = "confirmed" \/ ss.settleSaid = "empty"

\* A step of the host: it takes or sends a line, and learns what it says from the lines
\* and from what it has said before.
LEMMA HostOnlyStep ==
  ASSUME TreeInv, HostOnly, UsedType', used'.forks = used.forks, used'.strangers = used.strangers,
         s' \in Session, LineType', GateInv',
         \A x \in {"empty", "stopped", "exit"} : Has(x, outbox') => Has(x, outbox),
         Claims(s') => Claims(s) \/ Has("empty", outbox) \/ Has("stopped", outbox),
         s'.rootExit # "none" => s.rootExit # "none" \/ Has("exit", outbox) \/ ~ RootIsOriginal,
         s'.pc = "held" /\ RootIsOriginal => s'.osStart = 1
  PROVE  TreeInv'
<1> USE DEF TreeInv, WorldType
<1>1. UNCHANGED <<proc, gate, executed, h>> /\ NextStart' = NextStart /\ SessionType'
  BY DEF HostOnly, NextStart, SessionType
<1>2. ProcType' /\ HelperType'
  BY <1>1 DEF ProcType, HelperType
<1>3. BirthInv' /\ FamilyInv' /\ ScanInv'
  BY <1>1 DEF BirthInv, FamilyInv, ScanInv, NoRecycledPid, HelperUp
<1>4. GoneInv'
  BY <1>1 DEF GoneInv, Claims, LiveKin
<1>5. RootInv'
  BY <1>1 DEF RootInv, RootIsOriginal, HelperUp
<1> QED
  BY <1>1, <1>2, <1>3, <1>4, <1>5

LEMMA HeldRoot == ASSUME TreeInv PROVE s.pc = "held" /\ RootIsOriginal => s.osStart = 1
BY DEF TreeInv, RootInv

\* The first line of the outbox is read.
ReadLine ==
    /\ outbox' \in Seq({"spawned", "exit", "empty", "stopped", "residual"})
    /\ \A x \in {"empty", "stopped", "exit"} :
         (Has(x, outbox') => Has(x, outbox)) /\ (Head(outbox) = x => Has(x, outbox))

LEMMA ReadLineIs == ASSUME LineType, outbox # <<>>, outbox' = Tail(outbox) PROVE ReadLine
<1> DEFINE Lines == {"spawned", "exit", "empty", "stopped", "residual"}
<1>1. outbox \in Seq(Lines)
  BY DEF LineType
<1> HIDE DEF Lines
<1>2. /\ Tail(outbox) \in Seq(Lines)
      /\ \A x \in {"empty", "stopped", "exit"} :
           (Has(x, Tail(outbox)) => Has(x, outbox)) /\ (Head(outbox) = x => Has(x, outbox))
  BY <1>1, HasTail
<1> QED
  BY <1>2 DEF Lines, ReadLine

LEMMA SpawnedInv == TreeInv /\ Spawned => TreeInv'
<1> SUFFICES ASSUME TreeInv, Spawned PROVE TreeInv'
  OBVIOUS
<1> USE DEF TreeInv, WorldType
<1>1. /\ s' \in Session /\ s'.pc = "reading" /\ s'.treeEmpty = s.treeEmpty /\ s'.terminal = s.terminal
      /\ s'.stopSaid = s.stopSaid /\ s'.settleSaid = s.settleSaid /\ s'.rootExit = s.rootExit
      /\ s'.gate = s.gate
  BY DEF Spawned, SessionType, Session
<1>2. ReadLine
  BY ReadLineIs DEF Spawned
<1>3. HostOnly /\ UNCHANGED <<inbox, used>>
  BY DEF Spawned
<1>4. LineType' /\ GateInv' /\ UsedType'
  BY <1>1, <1>2, <1>3 DEF LineType, GateInv, UsedType, HostOnly, ReadLine
<1> QED
  BY <1>1, <1>2, <1>3, <1>4, HostOnlyStep DEF Claims, ReadLine

\* What an answer leaves alone in the session.
SameFacts(new, old) ==
    /\ new \in Session /\ new.pc = old.pc /\ new.rootExit = old.rootExit
    /\ new.gate = old.gate /\ new.osStart = old.osStart

\* An answer to settleTree claims nothing new.
LEMMA SettleAnswerIs ==
  ASSUME NEW ss \in Session
  PROVE  SameFacts(SettleAnswer(ss), ss) /\ (Claims(SettleAnswer(ss)) => Claims(ss))
<1>1. CASE ~ ss.settling
  BY <1>1 DEF SettleAnswer, SameFacts
<1>2. CASE ss.settling
  <2> DEFINE said == CASE ss.treeEmpty -> "empty" [] ~ ss.treeEmpty /\ ss.helperLost -> "os_facts"
                       [] OTHER -> "residual"
             held == IF ss.treeEmpty /\ ss.held = "this" THEN "none" ELSE ss.held
             ended == ss.terminal \/ ss.treeEmpty
             new == [ss EXCEPT !.settling = FALSE, !.settleSaid = said,
                               !.terminal = ended, !.held = held]
  <2>1. said \in {"empty", "residual", "os_facts"} /\ (said = "empty" => ss.treeEmpty)
    BY DEF Session
  <2>2. held \in {"none", "this", "other"} /\ ended \in BOOLEAN /\ FALSE \in BOOLEAN
    BY DEF Session
  <2>3. SettleAnswer(ss) = new
    BY <1>2 DEF SettleAnswer, Session
  <2> HIDE DEF said, held, ended
  <2>4. SameFacts(new, ss)
    <3>1. said \in {"none", "empty", "residual", "unknown", "os_facts"}
      BY <2>1
    <3>2. new \in Session
      BY <2>2, <3>1 DEF Session
    <3>3. new.pc = ss.pc /\ new.rootExit = ss.rootExit /\ new.gate = ss.gate /\ new.osStart = ss.osStart
      BY DEF Session
    <3> QED
      BY <3>2, <3>3 DEF SameFacts
  <2>5. /\ new.treeEmpty = ss.treeEmpty /\ new.terminal = ended
        /\ new.stopSaid = ss.stopSaid /\ new.settleSaid = said
    BY DEF Session
  <2> HIDE DEF new
  <2> QED
    BY <2>1, <2>3, <2>4, <2>5 DEF Claims, ended
<1> QED
  BY <1>1, <1>2

\* An answer to terminate claims nothing new but on "stopped".
LEMMA StopAnswerIs ==
  ASSUME NEW ss \in Session, NEW line
  PROVE  /\ SameFacts(StopAnswer(ss, line), ss)
         /\ Claims(StopAnswer(ss, line)) => Claims(ss) \/ line = "stopped"
<1>1. CASE ~ ss.waiting
  BY <1>1 DEF StopAnswer, SameFacts
<1>2. CASE ss.waiting /\ line = "stopped"
  <2> DEFINE new == [ss EXCEPT !.waiting = FALSE, !.stopSaid = "confirmed", !.treeEmpty = TRUE]
  <2>1. SameFacts(new, ss)
    BY DEF SameFacts, Session
  <2>2. StopAnswer(ss, line) = SettleAnswer(new)
    BY <1>2 DEF StopAnswer
  <2> HIDE DEF new
  <2>3. SameFacts(SettleAnswer(new), new)
    BY <2>1, SettleAnswerIs DEF SameFacts
  <2> QED
    BY <1>2, <2>1, <2>2, <2>3 DEF SameFacts
<1>3. CASE ss.waiting /\ line # "stopped"
  <2> DEFINE said == IF line = "null" /\ ss.treeEmpty THEN "confirmed" ELSE "undetermined"
             new == [ss EXCEPT !.waiting = FALSE, !.stopSaid = said]
  <2>1. said \in {"confirmed", "undetermined"} /\ (said = "confirmed" => ss.treeEmpty)
    OBVIOUS
  <2>2. StopAnswer(ss, line) = new
    BY <1>3 DEF StopAnswer
  <2> HIDE DEF said
  <2>3. /\ SameFacts(new, ss) /\ new.treeEmpty = ss.treeEmpty /\ new.terminal = ss.terminal
        /\ new.stopSaid = said /\ new.settleSaid = ss.settleSaid
    BY <2>1 DEF SameFacts, Session
  <2> QED
    BY <2>1, <2>2, <2>3 DEF Claims
<1> QED
  BY <1>1, <1>2, <1>3

\* A step of the host that hears and sends nothing and has no new facts.
LEMMA SilentStep ==
  ASSUME TreeInv, HostOnly, UNCHANGED outbox, UsedType', used'.forks = used.forks,
         used'.strangers = used.strangers, SameFacts(s', s), Claims(s') => Claims(s),
         inbox' \in Seq({"go", "abort", "stop", "signal"}), Has("go", inbox') => Has("go", inbox)
  PROVE  TreeInv'
<1> USE DEF TreeInv, WorldType
<1>1. LineType' /\ GateInv'
  BY DEF LineType, GateInv, HostOnly, SameFacts
<1>2. s' \in Session /\ (s'.pc = "held" /\ RootIsOriginal => s'.osStart = 1)
  BY HeldRoot DEF SameFacts
<1>3. s'.rootExit # "none" => s.rootExit # "none"
  BY DEF SameFacts
<1> QED
  BY <1>1, <1>2, <1>3, HostOnlyStep

\* A line that is sent, other than "go".
LEMMA SentLine ==
  ASSUME LineType, NEW line \in {"abort", "stop", "signal"}
  PROVE  /\ Append(inbox, line) \in Seq({"go", "abort", "stop", "signal"})
         /\ Has("go", Append(inbox, line)) => Has("go", inbox)
<1> DEFINE Lines == {"go", "abort", "stop", "signal"}
<1>1. inbox \in Seq(Lines) /\ line \in Lines
  BY DEF LineType
<1>2. "go" # line
  OBVIOUS
<1> HIDE DEF Lines
<1>3. Append(inbox, line) \in Seq(Lines) /\ (Has("go", Append(inbox, line)) => Has("go", inbox))
  BY <1>1, <1>2, HasAppend
<1> QED
  BY <1>3 DEF Lines

LEMMA SpawnRejectedInv == TreeInv /\ SpawnRejected => TreeInv'
<1> SUFFICES ASSUME TreeInv, SpawnRejected PROVE TreeInv'
  OBVIOUS
<1> USE DEF TreeInv, WorldType
<1>1. /\ s' \in Session /\ s'.pc = "rejected" /\ s'.treeEmpty = s.treeEmpty /\ s'.terminal = s.terminal
      /\ s'.stopSaid = s.stopSaid /\ s'.settleSaid = s.settleSaid /\ s'.rootExit = s.rootExit
      /\ s'.gate = s.gate
  BY DEF SpawnRejected, SessionType, Session
<1>2. HostOnly /\ UNCHANGED <<inbox, outbox, used>>
  BY DEF SpawnRejected
<1>3. LineType' /\ GateInv' /\ UsedType'
  BY <1>1, <1>2 DEF LineType, GateInv, UsedType, HostOnly
<1> QED
  BY <1>1, <1>2, <1>3, HostOnlyStep DEF Claims

LEMMA IdentityReadInv == TreeInv /\ IdentityRead => TreeInv'
<1> SUFFICES ASSUME TreeInv, IdentityRead PROVE TreeInv'
  OBVIOUS
<1> USE DEF TreeInv, WorldType
<1>0. proc[Root].start \in Nat
  BY ReaperAssumption DEF ProcType, Process, Pid
<1>1. /\ s' \in Session /\ s'.treeEmpty = s.treeEmpty /\ (s'.terminal => s.treeEmpty)
      /\ s'.stopSaid = s.stopSaid /\ s'.settleSaid = s.settleSaid /\ s'.rootExit = s.rootExit
      /\ s'.gate = s.gate /\ s'.osStart = proc[Root].start
  BY <1>0 DEF IdentityRead, SessionType, Session
<1>2. HostOnly /\ UNCHANGED <<inbox, outbox, used>>
  BY DEF IdentityRead
<1>3. LineType' /\ GateInv' /\ UsedType'
  BY <1>1, <1>2 DEF LineType, GateInv, UsedType, HostOnly
<1> QED
  BY <1>1, <1>2, <1>3, HostOnlyStep DEF Claims, RootIsOriginal

LEMMA SettleGateInv == ASSUME TreeInv, NEW line \in {"go", "abort"}, SettleGate(line) PROVE TreeInv'
<1> USE DEF TreeInv, WorldType
<1>1. /\ s' \in Session /\ s'.treeEmpty = s.treeEmpty /\ s'.terminal = s.terminal
      /\ s'.stopSaid = s.stopSaid /\ s'.settleSaid = s.settleSaid /\ s'.rootExit = s.rootExit
      /\ s'.gate = line /\ s'.osStart = s.osStart /\ s'.pc = s.pc
  BY DEF SettleGate, SessionType, Session
<1>2. HostOnly /\ UNCHANGED <<outbox, used>> /\ (inbox' = inbox \/ inbox' = Append(inbox, line))
  BY DEF SettleGate
<1>3. inbox' \in Seq({"go", "abort", "stop", "signal"})
  BY <1>2 DEF LineType
<1>4. line = "go" \/ (Has("go", inbox') => Has("go", inbox))
  BY <1>2, SentLine
<1>5. ~ executed /\ gate # "open" /\ ~ Has("go", inbox)
  BY DEF SettleGate, GateInv
<1>6. LineType' /\ GateInv' /\ UsedType'
  BY <1>1, <1>2, <1>3, <1>4, <1>5 DEF LineType, GateInv, UsedType, HostOnly
<1> QED
  BY <1>1, <1>2, <1>6, HeldRoot, HostOnlyStep DEF Claims

LEMMA ReceiveLineInv == TreeInv /\ ReceiveLine => TreeInv'
<1> SUFFICES ASSUME TreeInv, ReceiveLine PROVE TreeInv'
  OBVIOUS
<1> USE DEF TreeInv, WorldType
<1>0. HostOnly /\ UNCHANGED <<inbox, used>> /\ ReadLine /\ s \in Session
  BY ReadLineIs DEF ReceiveLine, SessionType
<1>1. /\ s' \in Session /\ s'.pc = s.pc /\ s'.osStart = s.osStart /\ s'.gate = s.gate
      /\ s'.rootExit = s.rootExit \/ Head(outbox) = "exit"
      /\ Claims(s') => Claims(s) \/ Head(outbox) \in {"empty", "stopped"}
  <2>1. CASE Head(outbox) = "exit"
    <3>1. s' = [s EXCEPT !.rootExit = "facts"]
      BY <2>1 DEF ReceiveLine
    <3> QED
      BY <1>0, <2>1, <3>1 DEF Session, Claims
  <2>2. CASE Head(outbox) = "empty"
    <3> DEFINE new == [s EXCEPT !.treeEmpty = TRUE]
    <3>1. s' = SettleAnswer(new)
      BY <2>2 DEF ReceiveLine
    <3>2. SameFacts(new, s)
      BY <1>0 DEF SameFacts, Session
    <3> HIDE DEF new
    <3>3. SameFacts(SettleAnswer(new), new)
      BY <3>2, SettleAnswerIs DEF SameFacts
    <3> QED
      BY <2>2, <3>1, <3>2, <3>3 DEF SameFacts
  <2>3. CASE Head(outbox) \notin {"exit", "empty"}
    <3>1. s' = StopAnswer(s, Head(outbox))
      BY <2>3 DEF ReceiveLine
    <3>2. /\ SameFacts(StopAnswer(s, Head(outbox)), s)
          /\ Claims(StopAnswer(s, Head(outbox))) => Claims(s) \/ Head(outbox) = "stopped"
      BY <1>0, StopAnswerIs
    <3> QED
      BY <3>1, <3>2 DEF SameFacts
  <2> QED
    BY <2>1, <2>2, <2>3
<1>2. LineType' /\ GateInv' /\ UsedType'
  BY <1>0, <1>1 DEF LineType, GateInv, UsedType, HostOnly, ReadLine
<1>3. \A x \in {"empty", "stopped", "exit"} :
         (Has(x, outbox') => Has(x, outbox)) /\ (Head(outbox) = x => Has(x, outbox))
  BY <1>0 DEF ReadLine
<1> QED
  BY <1>0, <1>1, <1>2, <1>3, HeldRoot, HostOnlyStep

LEMMA CtlCloseInv == TreeInv /\ CtlClose => TreeInv'
<1> SUFFICES ASSUME TreeInv, CtlClose PROVE TreeInv'
  OBVIOUS
<1> USE DEF TreeInv, WorldType
<1> DEFINE alone == [s EXCEPT !.closed = TRUE, !.helperLost = ~ s.treeEmpty]
           heard == StopAnswer(alone, "null")
           told == SettleAnswer(heard)
           let == [told EXCEPT !.held = IF @ = "this" THEN "none" ELSE @]
<1>0. HostOnly /\ UNCHANGED <<inbox, outbox, used>> /\ s \in Session
  BY DEF CtlClose, SessionType
<1>1. s' = Remember(let)
  BY DEF CtlClose
<1>2. SameFacts(alone, s) /\ (Claims(alone) => Claims(s))
  BY <1>0 DEF SameFacts, Session, Claims
<1> HIDE DEF alone
<1>3. SameFacts(heard, alone) /\ (Claims(heard) => Claims(alone))
  BY <1>2, StopAnswerIs DEF SameFacts
<1> HIDE DEF heard
<1>4. SameFacts(told, heard) /\ (Claims(told) => Claims(heard))
  BY <1>3, SettleAnswerIs DEF SameFacts
<1> HIDE DEF told
<1>5. SameFacts(let, told) /\ (Claims(let) => Claims(told)) /\ let \in Session
  BY <1>4 DEF SameFacts, Session, Claims
<1> HIDE DEF let
<1>6. SameFacts(Remember(let), let) /\ (Claims(Remember(let)) => Claims(let))
  BY <1>5 DEF Remember, SameFacts, Session, Claims
<1>7. SameFacts(s', s) /\ (Claims(s') => Claims(s))
  BY <1>1, <1>2, <1>3, <1>4, <1>5, <1>6 DEF SameFacts
<1> QED
  BY <1>0, <1>7, SilentStep DEF LineType, UsedType

\* A live process with another starting time is not the root, and a starting time that
\* was read when the root lived is its own.
LEMMA watchOrphanedRootInv == TreeInv /\ watchOrphanedRoot => TreeInv'
<1> SUFFICES ASSUME TreeInv, watchOrphanedRoot PROVE TreeInv'
  OBVIOUS
<1> USE DEF TreeInv, WorldType
<1>1. ~ RootIsOriginal
  BY HeldRoot DEF watchOrphanedRoot, verifyIdentity, RootIsOriginal
<1>2. /\ s' \in Session /\ s'.treeEmpty = s.treeEmpty /\ s'.terminal = s.terminal
      /\ s'.stopSaid = s.stopSaid /\ s'.settleSaid = s.settleSaid
      /\ s'.gate = s.gate /\ s'.osStart = s.osStart /\ s'.pc = s.pc
  BY DEF watchOrphanedRoot, SessionType, Session
<1>3. HostOnly /\ UNCHANGED <<inbox, outbox, used>>
  BY DEF watchOrphanedRoot
<1>4. LineType' /\ GateInv' /\ UsedType'
  BY <1>2, <1>3 DEF LineType, GateInv, UsedType, HostOnly
<1> QED
  BY <1>1, <1>2, <1>3, <1>4, HostOnlyStep DEF Claims

LEMMA KillInv == TreeInv /\ Kill => TreeInv'
<1> SUFFICES ASSUME TreeInv, Kill PROVE TreeInv'
  OBVIOUS
<1> USE DEF TreeInv, WorldType
<1>1. UsedType' /\ used'.forks = used.forks /\ used'.strangers = used.strangers
  BY DEF Kill, Use, UsedType
<1>2. inbox' \in Seq({"go", "abort", "stop", "signal"}) /\ (Has("go", inbox') => Has("go", inbox))
  BY SentLine DEF Kill, LineType
<1>3. HostOnly /\ UNCHANGED <<outbox, s>> /\ SameFacts(s', s)
  BY DEF Kill, SameFacts, SessionType
<1> QED
  BY <1>1, <1>2, <1>3, SilentStep DEF Claims

LEMMA terminateInv == TreeInv /\ terminate => TreeInv'
<1> SUFFICES ASSUME TreeInv, terminate PROVE TreeInv'
  OBVIOUS
<1> USE DEF TreeInv, WorldType
<1>1. UsedType' /\ used'.forks = used.forks /\ used'.strangers = used.strangers
  BY DEF terminate, Use, UsedType
<1>2. inbox' \in Seq({"go", "abort", "stop", "signal"}) /\ (Has("go", inbox') => Has("go", inbox))
  BY SentLine DEF terminate, LineType
<1>3. HostOnly /\ UNCHANGED outbox
  BY DEF terminate
<1>4. SameFacts(s', s) /\ (Claims(s') => Claims(s))
  <2>1. CASE /\ s.terminal \/ (s.held = "this" /\ s.treeEmpty)
             /\ s' = [s EXCEPT !.stopSaid = "confirmed"]
    BY <2>1 DEF SameFacts, Claims, SessionType, Session
  <2>2. CASE s' = [s EXCEPT !.stopSaid = IF s.held = "other" THEN "undetermined" ELSE "os_facts"]
    BY <2>2 DEF SameFacts, Claims, SessionType, Session
  <2>3. CASE s' = [s EXCEPT !.waiting = TRUE, !.stopSaid = "none"]
    BY <2>3 DEF SameFacts, Claims, SessionType, Session
  <2> QED
    BY <2>1, <2>2, <2>3 DEF terminate
<1> QED
  BY <1>1, <1>2, <1>3, <1>4, SilentStep

LEMMA StopTimeoutInv == TreeInv /\ StopTimeout => TreeInv'
<1> SUFFICES ASSUME TreeInv, StopTimeout PROVE TreeInv'
  OBVIOUS
<1> USE DEF TreeInv, WorldType
<1>1. UsedType' /\ used'.forks = used.forks /\ used'.strangers = used.strangers
  BY DEF StopTimeout, Use, UsedType
<1>2. HostOnly /\ UNCHANGED <<inbox, outbox>>
  BY DEF StopTimeout
<1>3. SameFacts(s', s) /\ (Claims(s') => Claims(s))
  BY DEF StopTimeout, SameFacts, Claims, SessionType, Session
<1> QED
  BY <1>1, <1>2, <1>3, SilentStep DEF LineType

LEMMA settleTreeInv == TreeInv /\ settleTree => TreeInv'
<1> SUFFICES ASSUME TreeInv, settleTree PROVE TreeInv'
  OBVIOUS
<1> USE DEF TreeInv, WorldType
<1>1. UsedType' /\ used'.forks = used.forks /\ used'.strangers = used.strangers
  BY DEF settleTree, Use, UsedType
<1>2. HostOnly /\ UNCHANGED <<inbox, outbox>>
  BY DEF settleTree
<1>3. SameFacts(s', s) /\ (Claims(s') => Claims(s))
  <2>1. CASE s.terminal /\ s' = [s EXCEPT !.settleSaid = "empty"]
    BY <2>1 DEF SameFacts, Claims, SessionType, Session
  <2>2. CASE s' = [s EXCEPT !.settleSaid = IF s.held = "other" THEN "unknown" ELSE "os_facts"]
    BY <2>2 DEF SameFacts, Claims, SessionType, Session
  <2>3. CASE s' = SettleAnswer([s EXCEPT !.settling = TRUE])
    <3> DEFINE new == [s EXCEPT !.settling = TRUE]
    <3>1. SameFacts(new, s) /\ (Claims(new) => Claims(s))
      BY DEF SameFacts, Claims, SessionType, Session
    <3> HIDE DEF new
    <3>2. SameFacts(SettleAnswer(new), new) /\ (Claims(SettleAnswer(new)) => Claims(new))
      BY <3>1, SettleAnswerIs DEF SameFacts
    <3>3. s' = SettleAnswer(new)
      BY <2>3 DEF new
    <3> QED
      BY <3>1, <3>2, <3>3 DEF SameFacts
  <2>4. CASE s' = [s EXCEPT !.settling = TRUE, !.settleSaid = "none"]
    BY <2>4 DEF SameFacts, Claims, SessionType, Session
  <2> QED
    BY <2>1, <2>2, <2>3, <2>4 DEF settleTree
<1> QED
  BY <1>1, <1>2, <1>3, SilentStep DEF LineType

LEMMA SettleTimeoutInv == TreeInv /\ SettleTimeout => TreeInv'
<1> SUFFICES ASSUME TreeInv, SettleTimeout PROVE TreeInv'
  OBVIOUS
<1> USE DEF TreeInv, WorldType
<1>1. HostOnly /\ UNCHANGED <<inbox, outbox, used>> /\ s' = SettleAnswer(s) /\ s \in Session
  BY DEF SettleTimeout, SessionType
<1>2. SameFacts(s', s) /\ (Claims(s') => Claims(s))
  BY <1>1, SettleAnswerIs
<1> QED
  BY <1>1, <1>2, SilentStep DEF LineType, UsedType

LEMMA HostCrashInv == TreeInv /\ HostCrash => TreeInv'
<1> SUFFICES ASSUME TreeInv, HostCrash PROVE TreeInv'
  OBVIOUS
<1> USE DEF TreeInv, WorldType
<1>1. /\ s' \in Session /\ s'.pc = "gone" /\ s'.treeEmpty = s.treeEmpty /\ s'.terminal = s.terminal
      /\ s'.stopSaid = s.stopSaid /\ s'.settleSaid = s.settleSaid /\ s'.rootExit = s.rootExit
      /\ s'.gate = s.gate
  BY DEF HostCrash, SessionType, Session
<1>2. UsedType' /\ used'.forks = used.forks /\ used'.strangers = used.strangers
  BY DEF HostCrash, Use, UsedType
<1>3. HostOnly /\ UNCHANGED <<inbox, outbox>>
  BY DEF HostCrash
<1>4. LineType' /\ GateInv'
  BY <1>1, <1>3 DEF LineType, GateInv, HostOnly
<1> QED
  BY <1>1, <1>2, <1>3, <1>4, HostOnlyStep DEF Claims

-----------------------------------------------------------------------------
(* The theorems *)

LEMMA TreeStill == TreeInv /\ UNCHANGED treeVars => TreeInv'
<1> SUFFICES ASSUME TreeInv, UNCHANGED treeVars PROVE TreeInv'
  OBVIOUS
<1> USE DEF TreeInv, treeVars
<1>1. WorldType' /\ GateInv'
  BY DEF WorldType, ProcType, HelperType, SessionType, LineType, UsedType, GateInv
<1>2. BirthInv' /\ FamilyInv' /\ ScanInv'
  BY DEF BirthInv, FamilyInv, ScanInv, NoRecycledPid, NextStart, HelperUp
<1>3. GoneInv' /\ RootInv'
  BY DEF GoneInv, RootInv, LiveKin, RootIsOriginal, HelperUp
<1> QED
  BY <1>1, <1>2, <1>3

LEMMA TreeKept == TreeInv /\ [TreeNext]_treeVars => TreeInv'
<1> SUFFICES ASSUME TreeInv, [TreeNext]_treeVars PROVE TreeInv'
  OBVIOUS
<1>1. CASE HelperStep
  BY <1>1, LoopStopInv, LoopCheckInv, PollInv, HandleGateInv, HandleStopInv, HandleSignalInv,
     HandleEofInv, ReadStatInv, FoundEmptyInv, FoundSomeInv, LeaveResidualInv, SafeKillInv,
     NextRoundInv DEF HelperStep
<1>2. CASE HostStep
  BY <1>2, SpawnedInv, SpawnRejectedInv, IdentityReadInv, ReceiveLineInv, CtlCloseInv,
     watchOrphanedRootInv DEF HostStep
<1>3. CASE CallerStep
  BY <1>3, SettleGateInv, KillInv, terminateInv, StopTimeoutInv, settleTreeInv,
     SettleTimeoutInv DEF CallerStep
<1>4. CASE ProgramStep
  BY <1>4, ForkChildInv, DieInv, ParentWaitsInv, StrangerBornInv, PassGateInv DEF ProgramStep
<1>5. CASE Deadline \/ HelperSignalled \/ HelperCrash \/ HostCrash
  BY <1>5, DeadlineInv, HelperSignalledInv, HelperCrashInv, HostCrashInv
<1>6. CASE Over \/ UNCHANGED treeVars
  BY <1>6, TreeStill DEF Over
<1> QED
  BY <1>1, <1>2, <1>3, <1>4, <1>5, <1>6 DEF TreeNext

LEMMA TreeHolds == TreeSpec => []TreeInv
<1>1. TreeInit => TreeInv
  BY TreeStart
<1>2. TreeInv /\ [TreeNext]_treeVars => TreeInv'
  BY TreeKept
<1> QED
  BY <1>1, <1>2, PTL DEF TreeSpec

\* What the driver answers of the tree and of its root is true, whatever /proc did under
\* the scan, for any number of pids, forks, strangers, commands and faults (tree_empty,
\* requestStop, settleTree, onLine, watchOrphanedRoot).
THEOREM AnswersHold == TreeSpec => []AnswersAreTrue
<1>1. TreeInv => AnswersAreTrue
  <2> SUFFICES ASSUME TreeInv PROVE AnswersAreTrue
    OBVIOUS
  <2> USE DEF TreeInv, WorldType
  <2>1. EmptyIsTrue /\ RootExitIsTrue
    BY DEF EmptyIsTrue, RootExitIsTrue, GoneInv, RootInv
  <2>2. proc \in [Pid -> [state : {"free", "live", "zombie"}, start : 0..(1 + MaxForks + MaxStrangers),
                         parent : {InitPid, HelperPid} \cup Pid, kin : BOOLEAN, doomed : BOOLEAN]]
    <3>1. NextStart \in Nat /\ NextStart <= 2 + MaxForks + MaxStrangers
      BY ReaperAssumption DEF NextStart, UsedType
    <3>2. \A p \in Pid : proc[p].start \in 0..(1 + MaxForks + MaxStrangers)
      BY <3>1, ReaperAssumption DEF BirthInv, ProcType, Process
    <3> QED
      BY <3>2 DEF ProcType, Process
  <2>3. TreeTypes
    BY <2>2 DEF TreeTypes, HelperType, Helper, SessionType, Session, LineType
  <2> QED
    BY <2>1, <2>3 DEF AnswersAreTrue
<1> QED
  BY <1>1, TreeHolds, PTL

\* Only processes of the tree are signalled, however old the scan and whoever has the
\* pid now, and the target runs only if the host released it (safe_kill, handle_command,
\* close_gate, run_child).
THEOREM OnlyOurTreeHolds == TreeSpec => []OnlyOurTree
<1>1. TreeInv => OnlyOurTree
  BY DEF TreeInv, ScanInv, GateInv, OnlyOurTree, UnreleasedNeverRuns
<1> QED
  BY <1>1, TreeHolds, PTL

-----------------------------------------------------------------------------
(***************************************************************************)
(* The output.  DrainInv says of every step of the drainer what was seen,  *)
(* kept, queued, written and hashed: the head and the ring are the two     *)
(* ends of the stream, file and queue together are all of it, and while    *)
(* the owner is in charge the file it has open is there and has a row.     *)
(***************************************************************************)

\* The numbers of a sequence and what they come to.
SumIs(seq, total) ==
    \E sum \in [0..Len(seq) -> Int] :
       /\ sum[0] = 0 /\ sum[Len(seq)] = total
       /\ \A i \in 1..Len(seq) : sum[i] = sum[i - 1] + seq[i]

DrainTypes ==
    /\ {pipeOpen, paused, isTruncated, spillError, forced, hostAlive, storeFenced} \subseteq BOOLEAN
    /\ bytesSeen \in Nat /\ written \in Nat /\ hashed \in Nat
    /\ queue \in Seq(Nat \ {0}) /\ pendingWriteBytes \in Int
    /\ fin \in {"no", "writing", "synced", "done"} /\ spillFd \in {"none", "open", "closed"}
    /\ file \in {"none", "ours", "others"} /\ record \in {"none", "present", "deleted"}
    /\ opStatus \in {"none", "running", "done", "indeterminate"}

\* The head is the beginning of the output, and isTruncated says whether it is all.
HeadInv ==
    /\ headBytes = Smaller(HeadMax, bytesSeen)
    /\ isTruncated <=> bytesSeen > HeadMax

\* The ring holds the end of the output: what is before tailHead was written last, what
\* is behind it one round earlier.
RingInv ==
    /\ tailCount \in 0..TailMax /\ tailHead \in Nat /\ (TailMax > 0 => tailHead < TailMax)
    /\ tailCount < TailMax => tailCount = tailHead /\ tailHead = bytesSeen
    /\ \A i \in 0..TailMax - 1 :
         /\ i < tailHead => tailRing[i] = bytesSeen - tailHead + i + 1
         /\ i >= tailHead /\ tailCount = TailMax => tailRing[i] = bytesSeen - tailHead - TailMax + i + 1

\* The writer: what is in the file, what was hashed and what waits make up what was seen.
WriterInv ==
    /\ SumIs(queue, pendingWriteBytes)
    /\ spillFd = "open" /\ ~ spillError => written = hashed /\ hashed + pendingWriteBytes = bytesSeen
    /\ fin \in {"synced", "done"} => queue = <<>>
    /\ hostAlive /\ spillFd = "none" => spillError
    /\ spillFd = "closed" <=> fin = "done" /\ spillFd # "none"
    /\ opStatus = "none" => /\ ~ hostAlive /\ fin = "no" /\ bytesSeen = 0 /\ queue = <<>> /\ written = 0
                            /\ hashed = 0 /\ spillFd = "none" /\ ~ spillError /\ file = "none"
                            /\ record = "none"

\* A stream is paused only while a job is queued; it is not when little waits.
PauseInv ==
    /\ paused => queue # <<>> /\ fin = "no"
    /\ fin = "no" /\ ~ paused => pendingWriteBytes <= MAX_PENDING_WRITE_BYTES
    /\ \A n \in {0} \cup ChunkSizes :
         (\A m \in ChunkSizes : m <= n) => pendingWriteBytes <= MAX_PENDING_WRITE_BYTES + n

\* The file and its row, as long as the drainer of an owner in charge has them open.
FileInv ==
    /\ record = "deleted" => file # "ours"
    /\ file = "ours" /\ hostAlive => record = "present"
    /\ opStatus = "done" => fin = "done" \/ ~ hostAlive \/ storeFenced
    /\ hostAlive /\ ~ storeFenced /\ spillFd = "open" => file # "none" /\ record = "present"

\* The drainer is done and has found no error.
DoneInv ==
    fin = "done" /\ ~ spillError =>
        /\ outputHash = hashed /\ hashed = bytesSeen /\ written = bytesSeen /\ recordHash = outputHash
        /\ isTruncated /\ (opStatus # "done" \/ opResult[1].ref) => file # "none" /\ record = "present"

\* What ShownIsTrue says of a result.
Shown(r) ==
    /\ r.isTruncated <=> r.head # r.bytes
    /\ r.bytes > MaxBytes =>
         /\ r.tail = [i \in 1..Len(r.tail) |-> r.bytes - Len(r.tail) + i]
         /\ r.head + Len(r.tail) + r.marker = r.bytes /\ r.marker > 0
         /\ Width(r.head + 1) > 0
         /\ r.tail # <<>> => Width(r.tail[1]) > 0

\* A result with a hash is of a drainer that is done and found no error.
ResultInv ==
    /\ opStatus = "done" <=> opResult # <<>>
    /\ opResult # <<>> =>
         /\ Shown(opResult[1])
         /\ opResult[1].hash # NoSum => /\ fin = "done" /\ ~ spillError
                                        /\ opResult[1].hash = bytesSeen /\ opResult[1].bytes = bytesSeen
         /\ opResult[1].ref => opResult[1].hash # NoSum /\ isTruncated

DrainInv ==
    /\ DrainTypes /\ HeadInv /\ RingInv /\ WriterInv /\ PauseInv /\ FileInv /\ DoneInv /\ ResultInv

-----------------------------------------------------------------------------
(* Numbers *)

\* One subtraction is enough.
LEMMA ModIs ==
  ASSUME NEW m \in Nat, m > 0, NEW a \in Nat, a < 2 * m
  PROVE  a % m = IF a < m THEN a ELSE a - m
OBVIOUS

\* Head and tail share maxBytes.
LEMMA Shares ==
  /\ HeadMax \in Nat /\ TailMax \in Nat /\ HeadMax + TailMax <= MaxBytes
<1>1. MaxBytes \in Nat
  BY DrainAssumption
<1>2. Overhead \in Nat /\ Overhead <= MaxBytes
  BY <1>1 DEF Overhead, Smaller
<1>3. CASE Overhead > 0
  <2> DEFINE e == MaxBytes - Overhead
  <2>1. e \in Nat /\ ((e * 3) \div 4) \in Nat /\ (e * 3) \div 4 <= e
    BY <1>1, <1>2
  <2> QED
    BY <1>1, <1>2, <1>3, <2>1 DEF HeadMax, TailMax
<1>4. CASE ~(Overhead > 0)
  BY <1>1, <1>4 DEF HeadMax, TailMax
<1> QED
  BY <1>3, <1>4

\* The text repeats every ten bytes.
LEMMA WidthIs ==
  ASSUME NEW k \in Nat, NEW c \in 0..9
  PROVE  Width(10 * k + c + 1) = <<1, 2, 0, 3, 0, 0, 4, 0, 0, 0>>[c + 1]
<1>1. (10 * k + c + 1) - 1 = 10 * k + c /\ (10 * k + c) % 10 = c
  OBVIOUS
<1> QED
  BY <1>1 DEF Width

\* The widths one by one.
LEMMA Widths ==
  ASSUME NEW k \in Nat
  PROVE  /\ Width(10 * k + 1) = 1 /\ Width(10 * k + 2) = 2 /\ Width(10 * k + 3) = 0
         /\ Width(10 * k + 4) = 3 /\ Width(10 * k + 5) = 0 /\ Width(10 * k + 6) = 0
         /\ Width(10 * k + 7) = 4 /\ Width(10 * k + 8) = 0 /\ Width(10 * k + 9) = 0
         /\ Width(10 * k + 10) = 0
<1> DEFINE w == <<1, 2, 0, 3, 0, 0, 4, 0, 0, 0>>
<1>1. /\ w[1] = 1 /\ w[2] = 2 /\ w[3] = 0 /\ w[4] = 3 /\ w[5] = 0
      /\ w[6] = 0 /\ w[7] = 4 /\ w[8] = 0 /\ w[9] = 0 /\ w[10] = 0
  OBVIOUS
<1>2. \A c \in 0..9 : Width(10 * k + c + 1) = w[c + 1]
  BY WidthIs
<1> HIDE DEF w
<1> QED
  BY <1>1, <1>2

\* trimToValidUtf8 takes off the beginning of a character that is not all there.
LEMMA TrimIs ==
  ASSUME NEW n \in Nat
  PROVE  /\ trimToValidUtf8(n) \in Nat /\ trimToValidUtf8(n) <= n
         /\ Width(trimToValidUtf8(n) + 1) > 0
<1> DEFINE leads == {i \in 1..Smaller(3, n) : Width(n - i + 1) > 0}
           i == CHOOSE x \in leads : \A y \in leads : x <= y
           k == n \div 10
           c == n % 10
<1>1. k \in Nat /\ c \in 0..9 /\ n = 10 * k + c
  OBVIOUS
<1>2. trimToValidUtf8(n) = IF leads # {} /\ i < Width(n - i + 1) THEN n - i ELSE n
  BY DEF trimToValidUtf8
<1> HIDE DEF k, c
<1>0. Smaller(3, n) = IF n < 3 THEN n ELSE 3
  BY DEF Smaller
<1>3. ASSUME NEW a \in 1..3, a <= n, Width(n - a + 1) > 0, \A b \in 1..3 : b < a => Width(n - b + 1) = 0
      PROVE  leads # {} /\ i = a
  <2>1. a \in leads /\ \A y \in leads : a <= y
    BY <1>0, <1>3
  <2>2. i \in leads /\ i <= a
    BY <2>1
  <2> QED
    BY <2>1, <2>2
<1> HIDE DEF i
<1>4. CASE c = 0
  <2>1. n = 0 \/ k - 1 \in Nat
    BY <1>1, <1>4
  <2>2. n # 0 => Width(n - 1 + 1) = 0 /\ Width(n - 2 + 1) = 0 /\ Width(n - 3 + 1) = 0
    <3> SUFFICES ASSUME n # 0 PROVE Width(n - 1 + 1) = 0 /\ Width(n - 2 + 1) = 0 /\ Width(n - 3 + 1) = 0
      OBVIOUS
    <3>1. /\ 10 * (k - 1) + 10 = n - 1 + 1 /\ 10 * (k - 1) + 9 = n - 2 + 1 /\ 10 * (k - 1) + 8 = n - 3 + 1
      BY <1>1, <1>4, <2>1
    <3>2. Width(10 * (k - 1) + 10) = 0 /\ Width(10 * (k - 1) + 9) = 0 /\ Width(10 * (k - 1) + 8) = 0
      BY <2>1, Widths
    <3> QED
      BY <3>1, <3>2
  <2>3. leads = {}
    BY <1>0, <2>2
  <2> HIDE DEF leads
  <2> QED
    BY <1>1, <1>2, <1>4, <2>3, Widths
<1>5. CASE c = 1
  <2>1. n - 1 + 1 = 10 * k + 1 /\ n + 1 = 10 * k + 2 /\ 1 <= n
    BY <1>1, <1>5
  <2>2. Width(n - 1 + 1) = 1 /\ Width(n + 1) = 2
    BY <1>1, <2>1, Widths
  <2>3. i = 1
    BY <1>3, <2>1, <2>2
  <2> QED
    BY <1>2, <2>2, <2>3
<1>6. CASE c = 2
  <2>1. n - 1 + 1 = 10 * k + 2 /\ 1 <= n
    BY <1>1, <1>6
  <2>2. Width(n - 1 + 1) = 2
    BY <1>1, <2>1, Widths
  <2>3. leads # {} /\ i = 1
    BY <1>3, <2>1, <2>2
  <2> HIDE DEF leads
  <2> QED
    BY <1>2, <2>1, <2>2, <2>3
<1>7. CASE c = 3
  <2>1. n - 1 + 1 = 10 * k + 3 /\ n - 2 + 1 = 10 * k + 2 /\ n + 1 = 10 * k + 4 /\ 2 <= n
    BY <1>1, <1>7
  <2>2. Width(n - 1 + 1) = 0 /\ Width(n - 2 + 1) = 2 /\ Width(n + 1) = 3
    BY <1>1, <2>1, Widths
  <2>3. i = 2
    BY <1>3, <2>1, <2>2
  <2> HIDE DEF leads
  <2> QED
    BY <1>2, <2>2, <2>3
<1>8. CASE c = 4
  <2>1. n - 1 + 1 = 10 * k + 4 /\ 1 <= n
    BY <1>1, <1>8
  <2>2. Width(n - 1 + 1) = 3
    BY <1>1, <2>1, Widths
  <2>3. leads # {} /\ i = 1
    BY <1>3, <2>1, <2>2
  <2> HIDE DEF leads
  <2> QED
    BY <1>2, <2>1, <2>2, <2>3
<1>9. CASE c = 5
  <2>1. n - 1 + 1 = 10 * k + 5 /\ n - 2 + 1 = 10 * k + 4 /\ 2 <= n
    BY <1>1, <1>9
  <2>2. Width(n - 1 + 1) = 0 /\ Width(n - 2 + 1) = 3
    BY <1>1, <2>1, Widths
  <2>3. leads # {} /\ i = 2
    BY <1>3, <2>1, <2>2
  <2> HIDE DEF leads
  <2>4. n - 2 + 1 = (n - i) + 1 /\ n - i \in Nat
    BY <2>1, <2>3
  <2> QED
    BY <1>2, <2>2, <2>3, <2>4
<1>10. CASE c = 6
  <2>1. /\ n - 1 + 1 = 10 * k + 6 /\ n - 2 + 1 = 10 * k + 5 /\ n - 3 + 1 = 10 * k + 4
        /\ n + 1 = 10 * k + 7 /\ 3 <= n
    BY <1>1, <1>10
  <2>2. Width(n - 1 + 1) = 0 /\ Width(n - 2 + 1) = 0 /\ Width(n - 3 + 1) = 3 /\ Width(n + 1) = 4
    BY <1>1, <2>1, Widths
  <2>3. i = 3
    BY <1>3, <2>1, <2>2
  <2> HIDE DEF leads
  <2> QED
    BY <1>2, <2>2, <2>3
<1>11. CASE c = 7
  <2>1. n - 1 + 1 = 10 * k + 7 /\ 1 <= n
    BY <1>1, <1>11
  <2>2. Width(n - 1 + 1) = 4
    BY <1>1, <2>1, Widths
  <2>3. leads # {} /\ i = 1
    BY <1>3, <2>1, <2>2
  <2> HIDE DEF leads
  <2> QED
    BY <1>2, <2>1, <2>2, <2>3
<1>12. CASE c = 8
  <2>1. n - 1 + 1 = 10 * k + 8 /\ n - 2 + 1 = 10 * k + 7 /\ 2 <= n
    BY <1>1, <1>12
  <2>2. Width(n - 1 + 1) = 0 /\ Width(n - 2 + 1) = 4
    BY <1>1, <2>1, Widths
  <2>3. leads # {} /\ i = 2
    BY <1>3, <2>1, <2>2
  <2> HIDE DEF leads
  <2>4. n - 2 + 1 = (n - i) + 1 /\ n - i \in Nat
    BY <2>1, <2>3
  <2> QED
    BY <1>2, <2>2, <2>3, <2>4
<1>13. CASE c = 9
  <2>1. n - 1 + 1 = 10 * k + 9 /\ n - 2 + 1 = 10 * k + 8 /\ n - 3 + 1 = 10 * k + 7 /\ 3 <= n
    BY <1>1, <1>13
  <2>2. Width(n - 1 + 1) = 0 /\ Width(n - 2 + 1) = 0 /\ Width(n - 3 + 1) = 4
    BY <1>1, <2>1, Widths
  <2>3. leads # {} /\ i = 3
    BY <1>3, <2>1, <2>2
  <2> HIDE DEF leads
  <2>4. n - 3 + 1 = (n - i) + 1 /\ n - i \in Nat
    BY <2>1, <2>3
  <2> QED
    BY <1>2, <2>2, <2>3, <2>4
<1> QED
  BY <1>1, <1>4, <1>5, <1>6, <1>7, <1>8, <1>9, <1>10, <1>11, <1>12, <1>13

\* trimStartToValidUtf8 takes off the end of a character that does not begin here.
LEMMA TrimStartIs ==
  ASSUME NEW n \in Nat, NEW b \in Int
  PROVE  \A t : t = trimStartToValidUtf8([j \in 1..n |-> b + j]) =>
             /\ Len(t) \in 0..n
             /\ t = [j \in 1..Len(t) |-> b + n - Len(t) + j]
             /\ t # <<>> => Width(t[1]) > 0
<1> DEFINE raw == [j \in 1..n |-> b + j]
           leads == {j \in 1..Len(raw) : Width(raw[j]) > 0}
           k == CHOOSE x \in leads : \A y \in leads : x <= y
           t == trimStartToValidUtf8(raw)
<1>1. raw \in Seq(Int) /\ Len(raw) = n /\ \A j \in 1..n : raw[j] = b + j
  OBVIOUS
<1>2. t = IF leads = {} THEN <<>> ELSE SubSeq(raw, k, Len(raw))
  BY DEF trimStartToValidUtf8
<1> HIDE DEF raw
<1>3. CASE leads = {}
  <2>1. t = <<>>
    BY <1>2, <1>3
  <2> HIDE DEF t
  <2> QED
    BY <2>1 DEF raw, t
<1>4. CASE leads # {}
  <2>1. leads \in SUBSET Nat
    BY <1>1
  <2>2. PICK x \in leads : \A y \in leads : x <= y
    BY <1>4, <2>1, LeastNat
  <2>3. k \in leads
    BY <2>2
  <2>4. k \in 1..n /\ Width(raw[k]) > 0
    BY <1>1, <2>3
  <2> HIDE DEF leads, k
  <2>5. t = SubSeq(raw, k, n)
    BY <1>1, <1>2, <1>4
  <2> HIDE DEF t
  <2>6. /\ Len(SubSeq(raw, k, n)) = n - k + 1
        /\ SubSeq(raw, k, n) = [j \in 1..(n - k + 1) |-> raw[k + j - 1]]
    BY <1>1, <2>4
  <2>7. Len(t) = n - k + 1 /\ t = [j \in 1..(n - k + 1) |-> raw[k + j - 1]]
    BY <2>5, <2>6
  <2>8. \A j \in 1..(n - k + 1) : raw[k + j - 1] = b + n - Len(t) + j
    BY <1>1, <2>4, <2>7
  <2>9. t = [j \in 1..Len(t) |-> b + n - Len(t) + j]
    BY <2>7, <2>8
  <2>10. t[1] = raw[k]
    BY <2>4, <2>7
  <2> QED
    BY <2>4, <2>7, <2>9, <2>10 DEF raw, t
<1> QED
  BY <1>3, <1>4

-----------------------------------------------------------------------------
(* What is kept *)

\* The sum of what waits, when nothing does, a chunk is queued, a job is done.
LEMMA SumEmpty == SumIs(<<>>, 0) /\ \A total : SumIs(<<>>, total) => total = 0
<1>1. Len(<<>>) = 0
  OBVIOUS
<1>2. SumIs(<<>>, 0)
  <2> DEFINE none == [i \in 0..0 |-> 0]
  <2>1. none \in [0..0 -> Int] /\ none[0] = 0 /\ \A i \in 1..0 : none[i] = none[i - 1] + (<<>>)[i]
    OBVIOUS
  <2> HIDE DEF none
  <2> QED
    BY <1>1, <2>1 DEF SumIs
<1>3. ASSUME NEW total, SumIs(<<>>, total) PROVE total = 0
  <2>1. PICK sum \in [0..Len(<<>>) -> Int] : sum[0] = 0 /\ sum[Len(<<>>)] = total
    BY <1>3 DEF SumIs
  <2> QED
    BY <1>1, <2>1
<1> QED
  BY <1>2, <1>3

LEMMA SumAppend ==
  ASSUME NEW seq \in Seq(Nat \ {0}), NEW total \in Int, SumIs(seq, total), NEW n \in Nat \ {0}
  PROVE  SumIs(Append(seq, n), total + n)
<1>1. PICK sum \in [0..Len(seq) -> Int] :
         /\ sum[0] = 0 /\ sum[Len(seq)] = total
         /\ \A i \in 1..Len(seq) : sum[i] = sum[i - 1] + seq[i]
  BY DEF SumIs
<1> DEFINE L == Len(seq)
           new == [i \in 0..L + 1 |-> IF i = L + 1 THEN total + n ELSE sum[i]]
<1>2. /\ L \in Nat /\ Len(Append(seq, n)) = L + 1 /\ Append(seq, n)[L + 1] = n
      /\ \A i \in 1..L : Append(seq, n)[i] = seq[i]
  OBVIOUS
<1> DEFINE longer == Append(seq, n)
<1> HIDE DEF longer, L
<1>3. new \in [0..L + 1 -> Int] /\ new[0] = 0 /\ new[L + 1] = total + n
  BY <1>1, <1>2 DEF L
<1>4. \A i \in 1..(L + 1) : new[i] = new[i - 1] + longer[i]
  <2> SUFFICES ASSUME NEW i \in 1..(L + 1) PROVE new[i] = new[i - 1] + longer[i]
    OBVIOUS
  <2>1. CASE i = L + 1
    BY <1>1, <1>2, <2>1 DEF L, longer
  <2>2. CASE i \in 1..L
    <3>1. i - 1 \in 0..L /\ i # L + 1 /\ i - 1 # L + 1 /\ i \in 0..(L + 1) /\ i - 1 \in 0..(L + 1)
      BY <1>2, <2>2
    <3>2. new[i] = sum[i] /\ new[i - 1] = sum[i - 1]
      BY <3>1
    <3> QED
      BY <1>1, <1>2, <2>2, <3>2 DEF L, longer
  <2> QED
    BY <1>2, <2>1, <2>2
<1> HIDE DEF new
<1>5. Len(longer) = L + 1
  BY <1>2 DEF longer
<1> QED
  BY <1>3, <1>4, <1>5 DEF SumIs, longer

LEMMA SumTail ==
  ASSUME NEW seq \in Seq(Nat \ {0}), NEW total \in Int, SumIs(seq, total), seq # <<>>
  PROVE  SumIs(Tail(seq), total - Head(seq)) /\ Head(seq) \in Nat \ {0} /\ Tail(seq) \in Seq(Nat \ {0})
<1>1. PICK sum \in [0..Len(seq) -> Int] :
         /\ sum[0] = 0 /\ sum[Len(seq)] = total
         /\ \A i \in 1..Len(seq) : sum[i] = sum[i - 1] + seq[i]
  BY DEF SumIs
<1> DEFINE L == Len(seq)
           rest == Tail(seq)
           new == [i \in 0..L - 1 |-> sum[i + 1] - Head(seq)]
<1>2. /\ L \in Nat /\ L > 0 /\ Len(rest) = L - 1 /\ Head(seq) = seq[1] /\ seq[1] \in Nat \ {0}
      /\ \A i \in 1..(L - 1) : rest[i] = seq[i + 1]
      /\ rest \in Seq(Nat \ {0})
  OBVIOUS
<1> HIDE DEF L, rest
<1>3. \A i \in 0..(L - 1) : new[i] = sum[i + 1] - seq[1] /\ i + 1 \in 1..L /\ sum[i + 1] \in Int
  <2> SUFFICES ASSUME NEW i \in 0..(L - 1)
               PROVE  new[i] = sum[i + 1] - seq[1] /\ i + 1 \in 1..L /\ sum[i + 1] \in Int
    OBVIOUS
  <2>1. i + 1 \in 1..L /\ i + 1 \in 0..L
    BY <1>2
  <2>2. sum[i + 1] \in Int
    BY <1>1, <2>1 DEF L
  <2>3. new[i] = sum[i + 1] - Head(seq)
    OBVIOUS
  <2> QED
    BY <1>2, <2>1, <2>2, <2>3
<1>4. new \in [0..(L - 1) -> Int]
  BY <1>2, <1>3
<1>5. new[0] = 0 /\ new[L - 1] = total - Head(seq)
  BY <1>1, <1>2, <1>3 DEF L
<1>6. \A i \in 1..(L - 1) : new[i] = new[i - 1] + rest[i]
  <2> SUFFICES ASSUME NEW i \in 1..(L - 1) PROVE new[i] = new[i - 1] + rest[i]
    OBVIOUS
  <2>1. i - 1 \in 0..(L - 1) /\ i \in 0..(L - 1) /\ i + 1 \in 1..L /\ (i + 1) - 1 = i /\ (i - 1) + 1 = i
    BY <1>2
  <2>2. new[i] = sum[i + 1] - seq[1] /\ new[i - 1] = sum[i] - seq[1] /\ sum[i] \in Int
    BY <1>1, <1>2, <1>3, <2>1 DEF L
  <2>3. sum[i + 1] = sum[i] + seq[i + 1] /\ rest[i] = seq[i + 1] /\ seq[i + 1] \in Nat
    BY <1>1, <1>2, <2>1 DEF L
  <2> HIDE DEF new
  <2>4. \A x, y, z \in Int : (x + y) - z = (x - z) + y
    OBVIOUS
  <2>5. sum[i] \in Int /\ seq[i + 1] \in Int /\ seq[1] \in Int
    BY <1>2, <2>2, <2>3
  <2>6. (sum[i] + seq[i + 1]) - seq[1] = (sum[i] - seq[1]) + seq[i + 1]
    BY <2>5
  <2> QED
    BY <2>2, <2>3, <2>6, Zenon
<1> HIDE DEF new
<1> QED
  BY <1>2, <1>4, <1>5, <1>6 DEF SumIs, rest

\* A chunk goes into the ring.
LEMMA RingStep ==
  ASSUME RingInv, bytesSeen \in Nat, NEW n \in Nat \ {0}, KeepTail(bytesSeen + 1, n),
         bytesSeen' = bytesSeen + n
  PROVE  RingInv'
<1> DEFINE M == TailMax
<1>0. M \in Nat
  BY Shares
<1>1. CASE n >= M
  <2>1. /\ tailRing' = [i \in 0..M - 1 |-> bytesSeen + 1 + n - M + i] /\ tailHead' = 0 /\ tailCount' = M
    BY <1>1 DEF KeepTail
  <2> HIDE DEF M
  <2>2. \A i \in 0..M - 1 : tailRing'[i] = bytesSeen' - tailHead' - M + i + 1
    BY <1>0, <2>1
  <2> QED
    BY <1>0, <2>1, <2>2 DEF RingInv, M
<1>2. CASE ~(n >= M)
  <2> DEFINE at(i) == (i - tailHead + M) % M
  <2>1. /\ tailRing' = [i \in 0..M - 1 |-> IF at(i) < n THEN bytesSeen + 1 + at(i) ELSE tailRing[i]]
        /\ tailHead' = (tailHead + n) % M /\ tailCount' = Smaller(M, tailCount + n)
    BY <1>2 DEF KeepTail
  <2>2. M > 0 /\ tailHead \in Nat /\ tailHead < M /\ tailCount \in 0..M /\ n < M
    BY <1>0, <1>2 DEF RingInv
  <2>3. \A i \in 0..M - 1 : at(i) = IF i < tailHead THEN i - tailHead + M ELSE i - tailHead
    <3> SUFFICES ASSUME NEW i \in 0..M - 1
                 PROVE  at(i) = IF i < tailHead THEN i - tailHead + M ELSE i - tailHead
      OBVIOUS
    <3>1. i - tailHead + M \in Nat /\ i - tailHead + M < 2 * M
      BY <1>0, <2>2
    <3>2. at(i) = IF i - tailHead + M < M THEN i - tailHead + M ELSE i - tailHead + M - M
      BY <1>0, <2>2, <3>1, ModIs
    <3> QED
      BY <1>0, <2>2, <3>2
  <2>4. tailHead' = IF tailHead + n < M THEN tailHead + n ELSE (tailHead + n) - M
    <3>1. tailHead + n \in Nat /\ tailHead + n < 2 * M
      BY <1>0, <2>2
    <3>2. \A x \in Nat : x < 2 * M => x % M = IF x < M THEN x ELSE x - M
      BY <1>0, <2>2, ModIs
    <3>3. tailHead' = (tailHead + n) % M
      BY <2>1
    <3> HIDE DEF M
    <3>4. (tailHead + n) % M = IF tailHead + n < M THEN tailHead + n ELSE (tailHead + n) - M
      BY <3>1, <3>2, Zenon
    <3> QED
      BY <3>3, <3>4
  <2>5. \A i \in 0..M - 1 : tailRing'[i] = IF at(i) < n THEN bytesSeen + 1 + at(i) ELSE tailRing[i]
    BY <2>1
  <2> HIDE DEF at
  <2>6. tailCount' = IF M < tailCount + n THEN M ELSE tailCount + n
    BY <2>1 DEF Smaller
  <2>7. /\ tailCount < M => tailCount = tailHead /\ tailHead = bytesSeen
        /\ \A i \in 0..M - 1 :
             /\ i < tailHead => tailRing[i] = bytesSeen - tailHead + i + 1
             /\ i >= tailHead /\ tailCount = M => tailRing[i] = bytesSeen - tailHead - M + i + 1
    BY DEF RingInv
  <2> HIDE DEF M
  <2>8. tailCount' \in 0..M /\ tailHead' \in Nat /\ (M > 0 => tailHead' < M)
    BY <1>0, <2>2, <2>4, <2>6
  <2>9. tailCount' < M => tailCount' = tailHead' /\ tailHead' = bytesSeen'
    BY <1>0, <2>2, <2>4, <2>6, <2>7
  <2>10. ASSUME NEW i \in 0..M - 1
         PROVE  /\ i < tailHead' => tailRing'[i] = bytesSeen' - tailHead' + i + 1
                /\ i >= tailHead' /\ tailCount' = M => tailRing'[i] = bytesSeen' - tailHead' - M + i + 1
    <3>1. tailRing'[i] = IF at(i) < n THEN bytesSeen + 1 + at(i) ELSE tailRing[i]
      BY <2>5
    <3>2. at(i) = IF i < tailHead THEN i - tailHead + M ELSE i - tailHead
      BY <2>3
    <3>3. /\ i < tailHead => tailRing[i] = bytesSeen - tailHead + i + 1
          /\ i >= tailHead /\ tailCount = M => tailRing[i] = bytesSeen - tailHead - M + i + 1
      BY <2>7
    <3> QED
      BY <1>0, <2>2, <2>4, <2>6, <2>7, <3>1, <3>2, <3>3
  <2> QED
    BY <2>8, <2>9, <2>10 DEF RingInv, M
<1> QED
  BY <1>1, <1>2

\* The ring, read in the order of the stream, is the end of the output.
LEMMA RawTailIs ==
  ASSUME RingInv, bytesSeen \in Nat
  PROVE  /\ tailCount \in Nat /\ tailCount <= TailMax
         /\ rawTail = [i \in 1..tailCount |-> bytesSeen - tailCount + i]
<1>0. TailMax \in Nat /\ tailCount \in 0..TailMax
  BY Shares DEF RingInv
<1>1. ASSUME NEW i \in 1..tailCount
      PROVE  (IF tailCount < TailMax THEN tailRing[i - 1] ELSE tailRing[(tailHead + i - 1) % TailMax])
               = bytesSeen - tailCount + i
  <2>1. TailMax > 0 /\ tailHead \in Nat /\ tailHead < TailMax
    BY <1>0 DEF RingInv
  <2>2. CASE tailCount < TailMax
    <3>1. i - 1 \in 0..TailMax - 1 /\ i - 1 < tailHead /\ tailCount = tailHead /\ tailHead = bytesSeen
      BY <1>0, <2>2 DEF RingInv
    <3>2. tailRing[i - 1] = bytesSeen - tailHead + (i - 1) + 1
      BY <3>1 DEF RingInv
    <3> QED
      BY <1>0, <2>2, <3>1, <3>2
  <2>3. CASE ~(tailCount < TailMax)
    <3> DEFINE a == tailHead + i - 1
               x == a % TailMax
    <3>1. a \in Nat /\ a < 2 * TailMax /\ tailCount = TailMax
      BY <1>0, <2>1, <2>3
    <3>2. x = IF a < TailMax THEN a ELSE a - TailMax
      BY <1>0, <2>1, <3>1, ModIs
    <3>3. x \in 0..TailMax - 1 /\ (a < TailMax => x >= tailHead) /\ (~(a < TailMax) => x < tailHead)
      BY <1>0, <2>1, <3>1, <3>2
    <3> HIDE DEF x
    <3>4. /\ x < tailHead => tailRing[x] = bytesSeen - tailHead + x + 1
          /\ x >= tailHead => tailRing[x] = bytesSeen - tailHead - TailMax + x + 1
      BY <3>1, <3>3 DEF RingInv
    <3>5. tailRing[x] = bytesSeen - tailCount + i
      BY <1>0, <2>1, <3>1, <3>2, <3>3, <3>4
    <3> QED
      BY <2>3, <3>5 DEF x
  <2> QED
    BY <2>2, <2>3
<1>2. rawTail = [i \in 1..tailCount |-> bytesSeen - tailCount + i]
  BY <1>1 DEF rawTail
<1> QED
  BY <1>0, <1>2

\* A chunk goes into the head.
LEMMA HeadStep ==
  ASSUME HeadInv, bytesSeen \in Nat, NEW n \in Nat \ {0}, KeepHead(n), bytesSeen' = bytesSeen + n
  PROVE  HeadInv'
<1>1. HeadMax \in Nat /\ MaxBytes \in Nat /\ HeadMax <= MaxBytes
  BY Shares, DrainAssumption
<1>2. headBytes = IF HeadMax < bytesSeen THEN HeadMax ELSE bytesSeen
  BY DEF HeadInv, Smaller
<1>3. /\ headBytes' = IF HeadMax < headBytes + n THEN HeadMax ELSE headBytes + n
      /\ isTruncated' = (isTruncated \/ headBytes + n > HeadMax \/ bytesSeen + n > MaxBytes)
  BY DEF KeepHead, Smaller
<1>4. headBytes' = IF HeadMax < bytesSeen' THEN HeadMax ELSE bytesSeen'
  BY <1>1, <1>2, <1>3
<1>5. (bytesSeen > HeadMax \/ headBytes + n > HeadMax \/ bytesSeen + n > MaxBytes) <=> bytesSeen + n > HeadMax
  BY <1>1, <1>2
<1>6. isTruncated <=> bytesSeen > HeadMax
  BY DEF HeadInv
<1>7. isTruncated' <=> bytesSeen' > HeadMax
  BY <1>3, <1>5, <1>6, Zenon
<1> QED
  BY <1>4, <1>7 DEF HeadInv, Smaller

\* What getResult shows is the beginning and the end of the output.
LEMMA ShownNow ==
  ASSUME HeadInv, RingInv, bytesSeen \in Nat
  PROVE  Shown(getResult)
<1> DEFINE r == getResult
<1>0. /\ HeadMax \in Nat /\ TailMax \in Nat /\ MaxBytes \in Nat /\ HeadMax + TailMax <= MaxBytes
      /\ headBytes = IF HeadMax < bytesSeen THEN HeadMax ELSE bytesSeen
      /\ isTruncated <=> bytesSeen > HeadMax
  BY Shares, DrainAssumption DEF HeadInv, Smaller
<1>1. CASE bytesSeen <= MaxBytes
  <2>1. r.head = headBytes /\ r.bytes = bytesSeen /\ r.isTruncated = isTruncated
    BY <1>1 DEF getResult
  <2>2. ~(r.bytes > MaxBytes)
    BY <1>0, <1>1, <2>1
  <2>3. bytesSeen > HeadMax <=> headBytes # bytesSeen
    BY <1>0
  <2>4. r.isTruncated <=> r.head # r.bytes
    BY <1>0, <2>1, <2>3, Zenon
  <2> HIDE DEF r
  <2> QED
    BY <2>2, <2>4, Zenon DEF Shown, r
<1>2. CASE ~(bytesSeen <= MaxBytes)
  <2> DEFINE head == trimToValidUtf8(headBytes)
             tail == trimStartToValidUtf8(rawTail)
  <2>1. /\ r.head = head /\ r.tail = tail /\ r.bytes = bytesSeen /\ r.isTruncated = isTruncated
        /\ r.marker = bytesSeen - head - Len(tail)
    BY <1>2 DEF getResult
  <2>2. head \in Nat /\ head <= headBytes /\ Width(head + 1) > 0
    BY <1>0, TrimIs
  <2>3. /\ Len(tail) \in 0..tailCount /\ tailCount \in Nat /\ tailCount <= TailMax
        /\ tail = [j \in 1..Len(tail) |-> bytesSeen - Len(tail) + j]
        /\ tail # <<>> => Width(tail[1]) > 0
    <3>1. /\ tailCount \in Nat /\ tailCount <= TailMax
          /\ rawTail = [i \in 1..tailCount |-> bytesSeen - tailCount + i]
      BY RawTailIs
    <3> DEFINE b == bytesSeen - tailCount
    <3>2. b \in Int /\ b + tailCount = bytesSeen
      BY <3>1
    <3> HIDE DEF b
    <3>3. rawTail = [i \in 1..tailCount |-> b + i]
      BY <3>1 DEF b
    <3>4. /\ Len(tail) \in 0..tailCount
          /\ tail = [j \in 1..Len(tail) |-> b + tailCount - Len(tail) + j]
          /\ tail # <<>> => Width(tail[1]) > 0
      BY <3>1, <3>2, <3>3, TrimStartIs, Zenon
    <3> HIDE DEF tail
    <3>5. Len(tail) \in Int
      BY <3>1, <3>4
    <3>6. [j \in 1..Len(tail) |-> b + tailCount - Len(tail) + j]
            = [j \in 1..Len(tail) |-> bytesSeen - Len(tail) + j]
      BY <3>1, <3>2, <3>5
    <3> QED
      BY <3>1, <3>4, <3>6, Zenon
  <2> HIDE DEF head, tail, r
  <2>4. r.isTruncated <=> r.head # r.bytes
    BY <1>0, <1>2, <2>1, <2>2
  <2>5. /\ head + Len(tail) + (bytesSeen - head - Len(tail)) = bytesSeen
        /\ bytesSeen - head - Len(tail) > 0
    <3> DEFINE l == Len(tail)
    <3>1. l \in Nat /\ l <= TailMax
      BY <1>0, <2>3
    <3> HIDE DEF l
    <3>2. head + l + (bytesSeen - head - l) = bytesSeen /\ bytesSeen - head - l > 0
      BY <1>0, <1>2, <2>2, <3>1
    <3> QED
      BY <3>2 DEF l
  <2> QED
    BY <2>1, <2>2, <2>3, <2>4, <2>5, Zenon DEF Shown, r
<1> QED
  BY <1>1, <1>2

-----------------------------------------------------------------------------
(* Every step keeps the invariant *)

\* A step that leaves what is kept.
LEMMA KeptFrame ==
  ASSUME HeadInv, RingInv, UNCHANGED keptVars
  PROVE  HeadInv' /\ RingInv'
BY DEF HeadInv, RingInv, keptVars

\* openOutputCapture: nothing was seen or waits yet.
LEMMA OpenCaptureKeeps ==
  ASSUME DrainInv, OpenCapture
  PROVE  DrainInv'
<1> USE DEF DrainInv
<1>1. DrainTypes'
  BY DEF DrainTypes, OpenCapture, keptVars, finVars, Fault, NoFault
<1>2. HeadInv' /\ RingInv'
  <2>1. UNCHANGED keptVars
    BY DEF OpenCapture
  <2> QED
    BY <2>1, KeptFrame
<1>3. WriterInv'
  <2>1. /\ opStatus = "none" /\ opStatus' = "running" /\ queue = <<>> /\ pendingWriteBytes = 0
        /\ bytesSeen = 0 /\ written = 0 /\ hashed = 0 /\ fin = "no" /\ spillFd = "none"
        /\ UNCHANGED <<queue, pendingWriteBytes, bytesSeen, written, hashed, fin>>
    BY SumEmpty DEF WriterInv, OpenCapture, keptVars, finVars
  <2> QED
    BY <2>1 DEF DrainTypes, WriterInv, OpenCapture
<1>4. PauseInv'
  BY DEF DrainTypes, WriterInv, PauseInv, OpenCapture, keptVars, finVars, Fault, NoFault
<1>5. FileInv'
  BY DEF DrainTypes, WriterInv, FileInv, OpenCapture, keptVars, finVars, Fault, NoFault
<1>6. DoneInv'
  BY DEF DrainTypes, WriterInv, FileInv, DoneInv, ResultInv, OpenCapture, keptVars, finVars, Fault,
     NoFault
<1>7. ResultInv'
  BY DEF DrainTypes, ResultInv, OpenCapture, keptVars, finVars, Fault, NoFault
<1> QED
  BY <1>1, <1>2, <1>3, <1>4, <1>5, <1>6, <1>7

\* The end of the stream and a forced one: a paused stream is resumed.
LEMMA StreamEndsKeeps ==
  ASSUME DrainInv, StreamEnds
  PROVE  DrainInv'
<1> USE DEF DrainInv
<1>1. DrainTypes'
  BY DEF DrainTypes, StreamEnds, keptVars, writerVars, fileVars, opVars, doFinalize
<1>2. HeadInv' /\ RingInv'
  <2>1. UNCHANGED keptVars
    BY DEF StreamEnds
  <2> QED
    BY <2>1, KeptFrame
<1>3. WriterInv'
  BY DEF DrainTypes, WriterInv, StreamEnds, keptVars, writerVars, fileVars, opVars, doFinalize
<1>4. PauseInv'
  BY DEF DrainTypes, WriterInv, PauseInv, StreamEnds, keptVars, writerVars, fileVars, opVars,
     doFinalize
<1>5. FileInv'
  BY DEF DrainTypes, WriterInv, FileInv, StreamEnds, keptVars, writerVars, fileVars, opVars,
     doFinalize
<1>6. DoneInv'
  BY DEF DrainTypes, WriterInv, FileInv, DoneInv, ResultInv, StreamEnds, keptVars, writerVars,
     fileVars, opVars, doFinalize
<1>7. ResultInv'
  BY DEF DrainTypes, ResultInv, StreamEnds, keptVars, writerVars, fileVars, opVars, doFinalize
<1> QED
  BY <1>1, <1>2, <1>3, <1>4, <1>5, <1>6, <1>7

LEMMA forceFinalizeKeeps ==
  ASSUME DrainInv, forceFinalize
  PROVE  DrainInv'
<1> USE DEF DrainInv
<1>1. DrainTypes'
  BY DEF DrainTypes, forceFinalize, keptVars, writerVars, fileVars, opVars, doFinalize
<1>2. HeadInv' /\ RingInv'
  <2>1. UNCHANGED keptVars
    BY DEF forceFinalize
  <2> QED
    BY <2>1, KeptFrame
<1>3. WriterInv'
  BY DEF DrainTypes, WriterInv, forceFinalize, keptVars, writerVars, fileVars, opVars, doFinalize
<1>4. PauseInv'
  BY DEF DrainTypes, WriterInv, PauseInv, forceFinalize, keptVars, writerVars, fileVars, opVars,
     doFinalize
<1>5. FileInv'
  BY DEF DrainTypes, WriterInv, FileInv, forceFinalize, keptVars, writerVars, fileVars, opVars,
     doFinalize
<1>6. DoneInv'
  BY DEF DrainTypes, WriterInv, FileInv, DoneInv, ResultInv, forceFinalize, keptVars, writerVars,
     fileVars, opVars, doFinalize
<1>7. ResultInv'
  BY DEF DrainTypes, ResultInv, forceFinalize, keptVars, writerVars, fileVars, opVars, doFinalize
<1> QED
  BY <1>1, <1>2, <1>3, <1>4, <1>5, <1>6, <1>7

LEMMA SyncFileKeeps ==
  ASSUME DrainInv, SyncFile
  PROVE  DrainInv'
<1> USE DEF DrainInv
<1>1. DrainTypes'
  BY DEF DrainTypes, SyncFile, streamVars, keptVars, fileVars, opVars, Fault, NoFault
<1>2. HeadInv' /\ RingInv'
  <2>1. UNCHANGED keptVars
    BY DEF SyncFile
  <2> QED
    BY <2>1, KeptFrame
<1>3. WriterInv'
  BY DEF DrainTypes, WriterInv, SyncFile, streamVars, keptVars, fileVars, opVars, Fault, NoFault
<1>4. PauseInv'
  BY DEF DrainTypes, WriterInv, PauseInv, SyncFile, streamVars, keptVars, fileVars, opVars, Fault,
     NoFault
<1>5. FileInv'
  BY DEF DrainTypes, WriterInv, FileInv, SyncFile, streamVars, keptVars, fileVars, opVars, Fault,
     NoFault
<1>6. DoneInv'
  BY DEF DrainTypes, WriterInv, FileInv, DoneInv, ResultInv, SyncFile, streamVars, keptVars,
     fileVars, opVars, Fault, NoFault
<1>7. ResultInv'
  BY DEF DrainTypes, ResultInv, SyncFile, streamVars, keptVars, fileVars, opVars, Fault, NoFault
<1> QED
  BY <1>1, <1>2, <1>3, <1>4, <1>5, <1>6, <1>7

\* No error: the drainer of an owner in charge had its file open, and all of it is hashed.
LEMMA CloseFileKeeps ==
  ASSUME DrainInv, CloseFile
  PROVE  DrainInv'
<1> USE DEF DrainInv
<1>1. DrainTypes'
  BY DEF DrainTypes, CloseFile, streamVars, keptVars, opVars, Fault, NoFault, removeOwnedArtifact
<1>2. HeadInv' /\ RingInv'
  <2>1. UNCHANGED keptVars
    BY DEF CloseFile
  <2> QED
    BY <2>1, KeptFrame
<1>3. WriterInv'
  BY DEF DrainTypes, WriterInv, CloseFile, streamVars, keptVars, opVars, Fault, NoFault,
     removeOwnedArtifact
<1>4. PauseInv'
  BY DEF DrainTypes, WriterInv, PauseInv, CloseFile, streamVars, keptVars, opVars, Fault, NoFault,
     removeOwnedArtifact
<1>5. FileInv'
  BY DEF DrainTypes, WriterInv, FileInv, CloseFile, streamVars, keptVars, opVars, Fault, NoFault,
     removeOwnedArtifact
<1>6. DoneInv'
  <2> SUFFICES ASSUME ~ spillError' PROVE DoneInv'
    BY DEF DoneInv
  <2>1. /\ spillFd = "open" /\ ~ spillError /\ ~ storeFenced /\ fin = "synced" /\ hostAlive
        /\ outputHash' = hashed /\ recordHash' = hashed /\ (isTruncated => file' = file /\ record' = record)
    BY DEF DrainTypes, WriterInv, CloseFile, removeOwnedArtifact
  <2>2. pendingWriteBytes = 0 /\ hashed = bytesSeen /\ written = bytesSeen
    BY <2>1, SumEmpty DEF DrainTypes, WriterInv
  <2>3. file # "none" /\ record = "present"
    BY <2>1 DEF FileInv
  <2>4. UNCHANGED <<bytesSeen, hashed, written, isTruncated>>
    BY DEF CloseFile, keptVars
  <2> QED
    BY <2>1, <2>2, <2>3, <2>4 DEF DoneInv
<1>7. ResultInv'
  BY DEF DrainTypes, ResultInv, CloseFile, streamVars, keptVars, opVars, Fault, NoFault,
     removeOwnedArtifact
<1> QED
  BY <1>1, <1>2, <1>3, <1>4, <1>5, <1>6, <1>7

\* The result is what is kept, and refers to the file only if the drainer found no error.
LEMMA CommitResultKeeps ==
  ASSUME DrainInv, CommitResult
  PROVE  DrainInv'
<1> USE DEF DrainInv
<1>1. DrainTypes'
  BY DEF DrainTypes, CommitResult, streamVars, keptVars, writerVars, finVars, fileVars
<1>2. HeadInv' /\ RingInv'
  <2>1. UNCHANGED keptVars
    BY DEF CommitResult
  <2> QED
    BY <2>1, KeptFrame
<1>3. WriterInv'
  BY DEF DrainTypes, WriterInv, CommitResult, streamVars, keptVars, writerVars, finVars, fileVars
<1>4. PauseInv'
  BY DEF DrainTypes, WriterInv, PauseInv, CommitResult, streamVars, keptVars, writerVars, finVars,
     fileVars
<1>5. FileInv'
  BY DEF DrainTypes, WriterInv, FileInv, CommitResult, streamVars, keptVars, writerVars, finVars,
     fileVars
<1>6. DoneInv'
  BY DEF DrainTypes, WriterInv, FileInv, DoneInv, ResultInv, CommitResult, streamVars, keptVars,
     writerVars, finVars, fileVars
<1>7. ResultInv'
  <2>1. opResult' = <<getResult>> /\ opResult'[1] = getResult /\ opStatus' = "done" /\ opResult' # <<>>
    BY DEF CommitResult
  <2>2. Shown(getResult)
    BY ShownNow DEF DrainTypes
  <2>3. /\ getResult.hash = IF spillError THEN NoSum ELSE outputHash
        /\ getResult.bytes = bytesSeen /\ getResult.ref = (isTruncated /\ ~ spillError)
    BY DEF getResult
  <2>4. fin = "done" /\ UNCHANGED <<fin, spillError, bytesSeen, isTruncated>>
    BY DEF CommitResult, keptVars, writerVars, finVars
  <2>5. ~ spillError => outputHash = bytesSeen /\ outputHash # NoSum
    BY <2>4 DEF DoneInv, DrainTypes, NoSum
  <2> HIDE DEF DrainInv
  <2> QED
    BY <2>1, <2>2, <2>3, <2>4, <2>5 DEF ResultInv
<1> QED
  BY <1>1, <1>2, <1>3, <1>4, <1>5, <1>6, <1>7

LEMMA HoldsLeasesKeeps ==
  ASSUME DrainInv, HoldsLeases
  PROVE  DrainInv'
<1> USE DEF DrainInv
<1>1. DrainTypes'
  BY DEF DrainTypes, HoldsLeases, streamVars, keptVars, writerVars, finVars, fileVars
<1>2. HeadInv' /\ RingInv'
  <2>1. UNCHANGED keptVars
    BY DEF HoldsLeases
  <2> QED
    BY <2>1, KeptFrame
<1>3. WriterInv'
  BY DEF DrainTypes, WriterInv, HoldsLeases, streamVars, keptVars, writerVars, finVars, fileVars
<1>4. PauseInv'
  BY DEF DrainTypes, WriterInv, PauseInv, HoldsLeases, streamVars, keptVars, writerVars, finVars,
     fileVars
<1>5. FileInv'
  BY DEF DrainTypes, WriterInv, FileInv, HoldsLeases, streamVars, keptVars, writerVars, finVars,
     fileVars
<1>6. DoneInv'
  BY DEF DrainTypes, WriterInv, FileInv, DoneInv, ResultInv, HoldsLeases, streamVars, keptVars,
     writerVars, finVars, fileVars
<1>7. ResultInv'
  BY DEF DrainTypes, ResultInv, HoldsLeases, streamVars, keptVars, writerVars, finVars, fileVars
<1> QED
  BY <1>1, <1>2, <1>3, <1>4, <1>5, <1>6, <1>7

LEMMA RecoveredByNextKeeps ==
  ASSUME DrainInv, RecoveredByNext
  PROVE  DrainInv'
<1> USE DEF DrainInv
<1>1. DrainTypes'
  BY DEF DrainTypes, RecoveredByNext, streamVars, keptVars, writerVars, finVars, fileVars
<1>2. HeadInv' /\ RingInv'
  <2>1. UNCHANGED keptVars
    BY DEF RecoveredByNext
  <2> QED
    BY <2>1, KeptFrame
<1>3. WriterInv'
  BY DEF DrainTypes, WriterInv, RecoveredByNext, streamVars, keptVars, writerVars, finVars, fileVars
<1>4. PauseInv'
  BY DEF DrainTypes, WriterInv, PauseInv, RecoveredByNext, streamVars, keptVars, writerVars,
     finVars, fileVars
<1>5. FileInv'
  BY DEF DrainTypes, WriterInv, FileInv, RecoveredByNext, streamVars, keptVars, writerVars,
     finVars, fileVars
<1>6. DoneInv'
  BY DEF DrainTypes, WriterInv, FileInv, DoneInv, ResultInv, RecoveredByNext, streamVars, keptVars,
     writerVars, finVars, fileVars
<1>7. ResultInv'
  <2>1. CASE opStatus' = "indeterminate" /\ UNCHANGED opResult
    BY <2>1 DEF ResultInv, RecoveredByNext
  <2>2. CASE opStatus' # "indeterminate"
    <3> DEFINE r == opResult'[1]
    <3>1. /\ opResult' # <<>> /\ opStatus' = "done" /\ r.head = 0 /\ r.bytes = 0 /\ r.isTruncated = FALSE
          /\ r.ref = FALSE /\ r.hash = NoSum
      BY <2>2 DEF RecoveredByNext
    <3> HIDE DEF r
    <3>2. ~(r.bytes > MaxBytes)
      BY <3>1, DrainAssumption
    <3>3. Shown(r)
      BY <3>1, <3>2, Zenon DEF Shown
    <3> QED
      BY <3>1, <3>3 DEF ResultInv, r
  <2> QED
    BY <2>1, <2>2 DEF RecoveredByNext
<1> QED
  BY <1>1, <1>2, <1>3, <1>4, <1>5, <1>6, <1>7

\* A file that a result refers to is protected.
LEMMA pruneArtifactsKeeps ==
  ASSUME DrainInv, pruneArtifacts
  PROVE  DrainInv'
<1> USE DEF DrainInv
<1>1. DrainTypes'
  BY DEF DrainTypes, pruneArtifacts, streamVars, keptVars, writerVars, finVars, opVars,
     removeOwnedArtifact, Protected
<1>2. HeadInv' /\ RingInv'
  <2>1. UNCHANGED keptVars
    BY DEF pruneArtifacts
  <2> QED
    BY <2>1, KeptFrame
<1>3. WriterInv'
  BY DEF DrainTypes, WriterInv, pruneArtifacts, streamVars, keptVars, writerVars, finVars, opVars,
     removeOwnedArtifact, Protected
<1>4. PauseInv'
  BY DEF DrainTypes, WriterInv, PauseInv, pruneArtifacts, streamVars, keptVars, writerVars,
     finVars, opVars, removeOwnedArtifact, Protected
<1>5. FileInv'
  BY DEF DrainTypes, WriterInv, FileInv, pruneArtifacts, streamVars, keptVars, writerVars, finVars,
     opVars, removeOwnedArtifact, Protected
<1>6. DoneInv'
  BY DEF DrainTypes, WriterInv, FileInv, DoneInv, ResultInv, pruneArtifacts, streamVars, keptVars,
     writerVars, finVars, opVars, removeOwnedArtifact, Protected
<1>7. ResultInv'
  BY DEF DrainTypes, ResultInv, pruneArtifacts, streamVars, keptVars, writerVars, finVars, opVars,
     removeOwnedArtifact, Protected
<1> QED
  BY <1>1, <1>2, <1>3, <1>4, <1>5, <1>6, <1>7

LEMMA HostDiesKeeps ==
  ASSUME DrainInv, HostDies
  PROVE  DrainInv'
<1> USE DEF DrainInv
<1>1. DrainTypes'
  BY DEF DrainTypes, HostDies, streamVars, keptVars, writerVars, finVars, removeOwnedArtifact
<1>2. HeadInv' /\ RingInv'
  <2>1. UNCHANGED keptVars
    BY DEF HostDies
  <2> QED
    BY <2>1, KeptFrame
<1>3. WriterInv'
  BY DEF DrainTypes, WriterInv, HostDies, streamVars, keptVars, writerVars, finVars,
     removeOwnedArtifact
<1>4. PauseInv'
  BY DEF DrainTypes, WriterInv, PauseInv, HostDies, streamVars, keptVars, writerVars, finVars,
     removeOwnedArtifact
<1>5. FileInv'
  BY DEF DrainTypes, WriterInv, FileInv, HostDies, streamVars, keptVars, writerVars, finVars,
     removeOwnedArtifact
<1>6. DoneInv'
  BY DEF DrainTypes, WriterInv, FileInv, DoneInv, ResultInv, HostDies, streamVars, keptVars,
     writerVars, finVars, removeOwnedArtifact
<1>7. ResultInv'
  BY DEF DrainTypes, ResultInv, HostDies, streamVars, keptVars, writerVars, finVars,
     removeOwnedArtifact
<1> QED
  BY <1>1, <1>2, <1>3, <1>4, <1>5, <1>6, <1>7

LEMMA TakenOverKeeps ==
  ASSUME DrainInv, TakenOver
  PROVE  DrainInv'
<1> USE DEF DrainInv
<1>1. DrainTypes'
  BY DEF DrainTypes, TakenOver, streamVars, keptVars, writerVars, finVars, fileVars, Fault
<1>2. HeadInv' /\ RingInv'
  <2>1. UNCHANGED keptVars
    BY DEF TakenOver
  <2> QED
    BY <2>1, KeptFrame
<1>3. WriterInv'
  BY DEF DrainTypes, WriterInv, TakenOver, streamVars, keptVars, writerVars, finVars, fileVars,
     Fault
<1>4. PauseInv'
  BY DEF DrainTypes, WriterInv, PauseInv, TakenOver, streamVars, keptVars, writerVars, finVars,
     fileVars, Fault
<1>5. FileInv'
  BY DEF DrainTypes, WriterInv, FileInv, TakenOver, streamVars, keptVars, writerVars, finVars,
     fileVars, Fault
<1>6. DoneInv'
  BY DEF DrainTypes, WriterInv, FileInv, DoneInv, ResultInv, TakenOver, streamVars, keptVars,
     writerVars, finVars, fileVars, Fault
<1>7. ResultInv'
  BY DEF DrainTypes, ResultInv, TakenOver, streamVars, keptVars, writerVars, finVars, fileVars,
     Fault
<1> QED
  BY <1>1, <1>2, <1>3, <1>4, <1>5, <1>6, <1>7

LEMMA ReplacedKeeps ==
  ASSUME DrainInv, Replaced
  PROVE  DrainInv'
<1> USE DEF DrainInv
<1>1. DrainTypes'
  BY DEF DrainTypes, Replaced, streamVars, keptVars, writerVars, finVars, opVars, Fault
<1>2. HeadInv' /\ RingInv'
  <2>1. UNCHANGED keptVars
    BY DEF Replaced
  <2> QED
    BY <2>1, KeptFrame
<1>3. WriterInv'
  BY DEF DrainTypes, WriterInv, Replaced, streamVars, keptVars, writerVars, finVars, opVars, Fault
<1>4. PauseInv'
  BY DEF DrainTypes, WriterInv, PauseInv, Replaced, streamVars, keptVars, writerVars, finVars,
     opVars, Fault
<1>5. FileInv'
  BY DEF DrainTypes, WriterInv, FileInv, Replaced, streamVars, keptVars, writerVars, finVars,
     opVars, Fault
<1>6. DoneInv'
  BY DEF DrainTypes, WriterInv, FileInv, DoneInv, ResultInv, Replaced, streamVars, keptVars,
     writerVars, finVars, opVars, Fault
<1>7. ResultInv'
  BY DEF DrainTypes, ResultInv, Replaced, streamVars, keptVars, writerVars, finVars, opVars, Fault
<1> QED
  BY <1>1, <1>2, <1>3, <1>4, <1>5, <1>6, <1>7

\* A chunk is counted, kept and queued, or dropped after the end.
LEMMA OnDataKeeps ==
  ASSUME DrainInv, OnData
  PROVE  DrainInv'
<1> USE DEF DrainInv
<1>0. /\ UNCHANGED <<written, hashed, spillFd, spillError, pipeOpen, fin, forced, outputHash, file,
                     record, recordHash, opStatus, opResult, hostAlive, storeFenced>>
      /\ hostAlive /\ pipeOpen /\ ~ paused /\ opStatus # "none"
  BY DEF OnData, WriterInv, finVars, fileVars, opVars
<1>1. CASE fin # "no"
  <2>1. UNCHANGED <<paused, keptVars, queue, pendingWriteBytes>>
    BY <1>1 DEF OnData
  <2>2. HeadInv' /\ RingInv'
    BY <2>1, KeptFrame
  <2>3. DrainTypes' /\ WriterInv' /\ PauseInv'
    BY <1>0, <2>1 DEF DrainTypes, WriterInv, PauseInv, keptVars
  <2>4. FileInv' /\ DoneInv' /\ ResultInv'
    BY <1>0, <2>1 DEF FileInv, DoneInv, ResultInv, keptVars
  <2> QED
    BY <2>2, <2>3, <2>4
<1>2. CASE fin = "no"
  <2>1. PICK n \in ChunkSizes :
          bytesSeen' = bytesSeen + n /\ enqueueWrite(n) /\ KeepHead(n) /\ KeepTail(bytesSeen + 1, n)
    BY <1>2 DEF OnData
  <2>2. n \in Nat \ {0} /\ bytesSeen \in Nat
    BY DrainAssumption DEF DrainTypes
  <2>3. HeadInv' /\ RingInv'
    BY <2>1, <2>2, HeadStep, RingStep
  <2>4. isTruncated' \in BOOLEAN
    BY <2>1 DEF KeepHead
  <2>5. FileInv' /\ DoneInv'
    BY <1>0, <1>2 DEF FileInv, DoneInv
  <2>6. ResultInv'
    BY <1>0, <1>2 DEF ResultInv
  <2>7. CASE spillFd # "open" \/ spillError
    <3>1. UNCHANGED <<queue, pendingWriteBytes, paused>>
      BY <2>1, <2>7 DEF enqueueWrite
    <3>2. DrainTypes'
      BY <1>0, <2>1, <2>2, <2>4, <3>1 DEF DrainTypes
    <3>3. WriterInv' /\ PauseInv'
      BY <1>0, <2>7, <3>1 DEF WriterInv, PauseInv
    <3> QED
      BY <2>3, <2>5, <2>6, <3>2, <3>3
  <2>8. CASE ~(spillFd # "open" \/ spillError)
    <3>1. /\ queue' = Append(queue, n) /\ pendingWriteBytes' = pendingWriteBytes + n
          /\ paused' = (paused \/ pendingWriteBytes + n > MAX_PENDING_WRITE_BYTES)
      BY <2>1, <2>8 DEF enqueueWrite
    <3>2. queue' \in Seq(Nat \ {0}) /\ queue' # <<>>
      BY <2>2, <3>1 DEF DrainTypes
    <3>3. DrainTypes'
      BY <1>0, <2>1, <2>2, <2>4, <3>1, <3>2 DEF DrainTypes
    <3>4. SumIs(queue', pendingWriteBytes')
      BY <2>2, <3>1, SumAppend DEF DrainTypes, WriterInv
    <3>5. WriterInv'
      BY <1>0, <1>2, <2>1, <2>2, <2>8, <3>1, <3>4 DEF DrainTypes, WriterInv
    <3>6. pendingWriteBytes <= MAX_PENDING_WRITE_BYTES /\ MAX_PENDING_WRITE_BYTES \in Nat
      BY <1>0, <1>2, DrainAssumption DEF PauseInv
    <3>7. \A m \in {0} \cup ChunkSizes :
            (\A l \in ChunkSizes : l <= m) => pendingWriteBytes' <= MAX_PENDING_WRITE_BYTES + m
      BY <2>2, <3>1, <3>6, DrainAssumption DEF DrainTypes
    <3>8. paused' <=> pendingWriteBytes' > MAX_PENDING_WRITE_BYTES
      BY <1>0, <3>1
    <3>9. pendingWriteBytes' \in Int
      BY <3>3 DEF DrainTypes
    <3>10. ~ paused' => pendingWriteBytes' <= MAX_PENDING_WRITE_BYTES
      BY <3>6, <3>8, <3>9
    <3>11. PauseInv'
      BY <1>0, <1>2, <3>2, <3>7, <3>10 DEF PauseInv
    <3> QED
      BY <2>3, <2>5, <2>6, <3>3, <3>5, <3>11
  <2> QED
    BY <2>7, <2>8
<1> QED
  BY <1>1, <1>2

\* A job is done: when the last one is, little waits, and the stream is resumed.
LEMMA WriteJobKeeps ==
  ASSUME DrainInv, WriteJob
  PROVE  DrainInv'
<1> USE DEF DrainInv
<1>0. /\ UNCHANGED <<spillFd, pipeOpen, fin, forced, outputHash, file, record, recordHash,
                     opStatus, opResult, hostAlive, storeFenced>>
      /\ UNCHANGED keptVars /\ UNCHANGED <<bytesSeen, isTruncated>>
      /\ hostAlive /\ queue # <<>> /\ opStatus # "none"
  BY DEF WriteJob, WriterInv, keptVars, finVars, fileVars, opVars
<1>1. /\ queue' = Tail(queue) /\ pendingWriteBytes' = pendingWriteBytes - Head(queue)
      /\ paused' = (paused /\ ~(/\ fin = "no"
                                 /\ pendingWriteBytes - Head(queue) <= MAX_PENDING_WRITE_BYTES \div 2))
  BY DEF WriteJob, resumeAfterWrite
<1>2. SumIs(queue', pendingWriteBytes') /\ Head(queue) \in Nat \ {0} /\ queue' \in Seq(Nat \ {0})
  BY <1>0, <1>1, SumTail DEF DrainTypes, WriterInv
<1>3. PICK ok \in BOOLEAN : WriteAndHash(ok)
  BY DEF WriteJob
<1>4. fin \notin {"synced", "done"}
  BY <1>0 DEF WriterInv
<1>5. HeadInv' /\ RingInv'
  BY <1>0, KeptFrame
<1>6. FileInv' /\ DoneInv' /\ ResultInv'
  BY <1>0, <1>4 DEF FileInv, DoneInv, ResultInv
<1>7. /\ written' \in Nat /\ hashed' \in Nat /\ spillError' \in BOOLEAN
      /\ spillFd = "open" /\ ~ spillError' => written' = hashed' /\ hashed' + pendingWriteBytes' = bytesSeen
      /\ spillError => spillError'
  <2>1. CASE spillError \/ spillFd # "open"
    BY <1>3, <2>1 DEF WriteAndHash, DrainTypes
  <2>2. CASE ~(spillError \/ spillFd # "open") /\ ok
    <3> DEFINE size == Head(queue)
    <3>1. written' = written + size /\ hashed' = hashed + size /\ spillError' = spillError
      BY <1>3, <2>2 DEF WriteAndHash
    <3>2. size \in Nat /\ pendingWriteBytes' = pendingWriteBytes - size
      BY <1>1, <1>2
    <3> HIDE DEF size
    <3>3. /\ written \in Nat /\ hashed \in Nat /\ spillError \in BOOLEAN /\ pendingWriteBytes \in Int
          /\ bytesSeen \in Nat /\ written = hashed /\ hashed + pendingWriteBytes = bytesSeen
      BY <2>2 DEF DrainTypes, WriterInv
    <3> QED
      BY <3>1, <3>2, <3>3
  <2>3. CASE ~(spillError \/ spillFd # "open") /\ ~ ok
    BY <1>3, <2>3 DEF WriteAndHash, DrainTypes
  <2> QED
    BY <2>1, <2>2, <2>3
<1>8. DrainTypes'
  BY <1>0, <1>1, <1>2, <1>7 DEF DrainTypes
<1>9. WriterInv'
  BY <1>0, <1>2, <1>4, <1>7 DEF WriterInv
<1>10. PauseInv'
  <2> DEFINE max == MAX_PENDING_WRITE_BYTES
             rest == pendingWriteBytes'
  <2>1. max \in Nat /\ max \div 2 \in Nat /\ max \div 2 <= max
    BY DrainAssumption
  <2>2. rest \in Int /\ rest <= pendingWriteBytes /\ pendingWriteBytes \in Int
    BY <1>1, <1>2 DEF DrainTypes
  <2>3. paused => fin = "no"
    BY DEF PauseInv
  <2>4. paused' => fin = "no" /\ paused /\ ~(rest <= max \div 2)
    BY <1>1, <2>3
  <2>5. paused' => queue' # <<>>
    <3> SUFFICES ASSUME queue' = <<>> PROVE ~ paused'
      OBVIOUS
    <3>1. rest = 0
      BY <1>2, SumEmpty
    <3> QED
      BY <2>1, <2>4, <3>1
  <2>6. fin = "no" /\ ~ paused' => rest <= max
    <3>1. CASE paused
      <4>1. fin = "no" /\ ~ paused' => rest <= max \div 2
        BY <1>1, <3>1
      <4> QED
        BY <2>1, <2>2, <4>1
    <3>2. CASE ~ paused
      <4>1. fin = "no" => pendingWriteBytes <= max
        BY <3>2 DEF PauseInv
      <4> QED
        BY <2>1, <2>2, <4>1
    <3> QED
      BY <3>1, <3>2
  <2>7. ASSUME NEW n \in {0} \cup ChunkSizes, \A m \in ChunkSizes : m <= n
        PROVE  rest <= max + n
    <3>1. pendingWriteBytes <= max + n /\ n \in Nat
      BY <2>7, DrainAssumption DEF PauseInv
    <3> QED
      BY <2>1, <2>2, <3>1
  <2> QED
    BY <1>0, <2>4, <2>5, <2>6, <2>7 DEF PauseInv
<1> QED
  BY <1>5, <1>6, <1>8, <1>9, <1>10

-----------------------------------------------------------------------------
\* The drainer's invariant, for any maxBytes, limit and sizes of chunks.
THEOREM DrainInvHolds == DrainSpec => []DrainInv
<1>1. Idle => DrainInv
  <2> SUFFICES ASSUME Idle PROVE DrainInv
    OBVIOUS
  <2> USE DEF Idle
  <2>1. DrainTypes
    <3>1. queue \in Seq(Nat \ {0})
      OBVIOUS
    <3>2. {pipeOpen, paused, isTruncated, spillError, forced, hostAlive, storeFenced} \subseteq BOOLEAN
      BY Zenon
    <3> QED
      BY <3>1, <3>2 DEF DrainTypes
  <2>2. HeadInv /\ RingInv
    BY Shares DEF HeadInv, RingInv, Smaller
  <2>3. WriterInv
    BY SumEmpty DEF WriterInv
  <2>4. PauseInv
    BY DrainAssumption DEF PauseInv
  <2>5. FileInv /\ DoneInv /\ ResultInv
    BY DEF FileInv, DoneInv, ResultInv
  <2> QED
    BY <2>1, <2>2, <2>3, <2>4, <2>5 DEF DrainInv
<1>2. DrainInv /\ [DrainNext]_drainVars => DrainInv'
  <2> SUFFICES ASSUME DrainInv, [DrainNext]_drainVars PROVE DrainInv'
    OBVIOUS
  <2>1. CASE DrainNext
    BY <2>1, OpenCaptureKeeps, OnDataKeeps, WriteJobKeeps, StreamEndsKeeps, forceFinalizeKeeps,
       SyncFileKeeps,
       CloseFileKeeps, CommitResultKeeps, HoldsLeasesKeeps, RecoveredByNextKeeps, pruneArtifactsKeeps,
       HostDiesKeeps, TakenOverKeeps, ReplacedKeeps DEF DrainNext
  <2>2. CASE UNCHANGED drainVars
    <3> USE <2>2 DEF drainVars, streamVars, keptVars, writerVars, finVars, fileVars, opVars
    <3>1. HeadInv' /\ RingInv'
      BY KeptFrame DEF DrainInv
    <3>2. DrainTypes' /\ WriterInv' /\ PauseInv'
      BY DEF DrainInv, DrainTypes, WriterInv, PauseInv
    <3>3. FileInv' /\ DoneInv' /\ ResultInv'
      BY DEF DrainInv, FileInv, DoneInv, ResultInv
    <3> QED
      BY <3>1, <3>2, <3>3 DEF DrainInv
  <2> QED
    BY <2>1, <2>2
<1> QED
  BY <1>1, <1>2, PTL DEF DrainSpec

\* A result refers to output that is there, shows its beginning and its end, and the
\* pipe is never stuck (setupStreamDrainer, getResult, pruneArtifacts).
THEOREM OutputHolds == DrainSpec => []OutputIsTrue
<1>1. DrainInv => OutputIsTrue
  <2> SUFFICES ASSUME DrainInv PROVE OutputIsTrue
    OBVIOUS
  <2>1. OutputIsThere
    BY DEF DrainInv, OutputIsThere, DoneInv, ResultInv
  <2>2. ShownIsTrue
    BY Zenon DEF DrainInv, ShownIsTrue, Shown, ResultInv
  <2>3. PausedIsResumed
    BY DEF DrainInv, PauseInv, PausedIsResumed
  <2> QED
    BY <2>1, <2>2, <2>3 DEF OutputIsTrue
<1> QED
  BY <1>1, DrainInvHolds, PTL

\* No step removes a file of somebody else, or makes the row of an artifact false
\* (createArtifact, removeOwnedArtifact, recordArtifactDeleted).
THEOREM ArtifactRowHolds == DrainSpec => ArtifactRowIsTrue
<1> DEFINE rowTrue ==
             /\ file = "others" => file' = "others"
             /\ record' = "deleted" => file' # "ours"
             /\ file' = "ours" /\ hostAlive' => record' = "present"
<1>1. DrainInv /\ DrainInv' /\ [DrainNext]_drainVars => [rowTrue]_drainVars
  <2> SUFFICES ASSUME DrainInv, DrainInv', DrainNext PROVE rowTrue
    OBVIOUS
  <2>1. /\ record' = "deleted" => file' # "ours"
        /\ file' = "ours" /\ hostAlive' => record' = "present"
    BY DEF DrainInv, FileInv
  <2>2. file = "others" => file' = "others"
    <3> SUFFICES ASSUME file = "others" PROVE file' = "others"
      OBVIOUS
    <3> USE DEF fileVars
    <3>1. CASE OpenCapture
      BY <3>1 DEF OpenCapture, DrainInv, WriterInv
    <3>2. CASE OnData \/ WriteJob \/ StreamEnds \/ forceFinalize \/ SyncFile
      BY <3>2 DEF OnData, WriteJob, StreamEnds, forceFinalize, SyncFile
    <3>3. CASE CloseFile
      BY <3>3 DEF CloseFile, removeOwnedArtifact
    <3>4. CASE CommitResult \/ HoldsLeases \/ RecoveredByNext \/ TakenOver \/ Replaced
      BY <3>4 DEF CommitResult, HoldsLeases, RecoveredByNext, TakenOver, Replaced
    <3>5. CASE pruneArtifacts \/ HostDies
      BY <3>5 DEF pruneArtifacts, HostDies, removeOwnedArtifact
    <3> QED
      BY <3>1, <3>2, <3>3, <3>4, <3>5 DEF DrainNext
  <2> QED
    BY <2>1, <2>2
<1> QED
  BY <1>1, DrainInvHolds, PTL DEF DrainSpec, ArtifactRowIsTrue
=============================================================================
