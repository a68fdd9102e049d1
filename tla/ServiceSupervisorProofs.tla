----------------------- MODULE ServiceSupervisorProofs -----------------------
(***************************************************************************)
(* Proofs about ServiceSupervisor, for any restart limit and any set of    *)
(* callers: instances are isolated as long as they may live, the lock of   *)
(* the service outlives them, and a restart begins over a settled one.     *)
(***************************************************************************)
EXTENDS ServiceSupervisor, TLAPS

\* A row, its result, its leases and its process tell the same story.
RowInv ==
    \A i \in Instance :
        /\ row[i] = "done" <=> result[i] # "none"
        /\ lease[i] <=> row[i] \in {"intent_registered", "active"}
                        \/ result[i] = "indeterminate"
        /\ row[i] = "none" => root[i] = "none"
        /\ result[i] = "settled" => root[i] # "alive"
        /\ row[i] = "intent_registered" /\ gated => root[i] # "alive"

\* Instances are used one after the other: those before the current one are
\* settled, those behind it are not begun.
IndexInv ==
    \A i \in Instance :
        /\ i < index => result[i] = "settled"
        /\ i > index => row[i] = "none"

\* The restart counter says which instance is current, also in the back-off.
AttemptInv ==
    /\ index <= attempts + 1
    /\ status = "none" => attempts = 0 /\ index = 1 /\ row[1] = "none" /\ ~handle /\ ~timer
    /\ timer => index = attempts /\ result[index] = "settled" /\ ~stopRequested
                /\ starter = "none" /\ watcher = "none" /\ (held \/ Lost)
    /\ starter # "none" \/ watcher # "none" => status # "none" /\ index = attempts + 1

\* What spawnInstance, handleInstanceExit and finalizeStop rely on when they
\* go on after an await.
TaskInv ==
    /\ starter = "spawning" =>
           /\ ~handle /\ watcher = "none"
           /\ row[index] \in {"intent_registered", "done"}
           /\ ~Lost => row[index] = "intent_registered"
           /\ ~gated => result[index] # "settled"
    /\ starter = "cleaning" => fenced /\ handle
    /\ watcher # "none" /\ ~Lost /\ ~stopRequested => row[index] = "active"
    /\ watcher \in {"draining", "settling"} \/ pending => root[index] = "dead"
    /\ handle => row[index] # "none"
    /\ \A c \in Stopper : stopper[c] \in {"terminating", "waiting"} =>
           handle /\ stopRequested

\* The inductive invariant.
IInv ==
    /\ TypeOK /\ RowInv /\ IndexInv /\ AttemptInv /\ TaskInv
    /\ LockOutlivesInstances

-----------------------------------------------------------------------------
\* Type correctness, one part of the state at a time.

StoreOK ==
    /\ row \in [Instance -> {"none", "intent_registered", "active", "done"}]
    /\ result \in [Instance -> {"none", "settled", "indeterminate", "adjudicated"}]
    /\ lease \in [Instance -> BOOLEAN]

OsOK ==
    /\ root \in [Instance -> {"none", "gated", "alive", "dead"}]
    /\ kid \in [Instance -> BOOLEAN]

PromisesOK == ready \in Promise /\ exit \in Promise /\ stopped \in Promise

StateOK ==
    /\ status \in {"none", "starting", "running", "stopping", "stopped", "failed"}
    /\ attempts \in 0 .. MaxRestarts /\ index \in Instance
    /\ starter \in {"none", "spawning", "cleaning"}
    /\ watcher \in {"none", "armed", "draining", "settling"}

StopperOK ==
    /\ stopper \in [Stopper -> {"idle", "terminating", "waiting", "joined", "refused"}]
    /\ confirmed \in SUBSET Stopper

FlagsOK ==
    /\ stopRequested \in BOOLEAN /\ handle \in BOOLEAN /\ pending \in BOOLEAN
    /\ failing \in BOOLEAN /\ timer \in BOOLEAN /\ watching \in BOOLEAN
    /\ held \in BOOLEAN /\ gated \in BOOLEAN /\ fenced \in BOOLEAN /\ crashed \in BOOLEAN

\* The parts are the type invariant.
LEMMA TypeParts ==
  TypeOK <=> StoreOK /\ OsOK /\ PromisesOK /\ StateOK /\ StopperOK /\ FlagsOK
  BY DEF TypeOK, StoreOK, OsOK, PromisesOK, StateOK, StopperOK, FlagsOK

\* Settling a promise leaves a promise.
LEMMA SettleType ==
  ASSUME NEW p \in Promise PROVE Resolve(p) \in Promise /\ Reject(p) \in Promise
  BY DEF Promise, Resolve, Reject

\* The initial states are well typed.
LEMMA TypeInit == Init => TypeOK
<1> SUFFICES ASSUME Init
             PROVE  StoreOK /\ OsOK /\ PromisesOK /\ StateOK /\ StopperOK /\ FlagsOK
  BY TypeParts
<1>1. StoreOK /\ OsOK
  BY DEF Init, StoreOK, OsOK
<1>2. PromisesOK /\ StateOK
  BY ServiceAssumption DEF Init, PromisesOK, StateOK, Promise, Instance
<1>3. StopperOK
  BY DEF Init, StopperOK
<1>4. FlagsOK
  BY DEF Init, FlagsOK
<1> QED
  BY <1>1, <1>2, <1>3, <1>4

\* Every step keeps the types.
LEMMA TypeNext == TypeOK /\ [Next]_vars => TypeOK'
<1> DEFINE Goal == (StoreOK /\ OsOK /\ PromisesOK /\ StateOK /\ StopperOK /\ FlagsOK)'
<1> SUFFICES ASSUME TypeOK, [Next]_vars PROVE Goal
  BY DEF TypeOK, StoreOK, OsOK, PromisesOK, StateOK, StopperOK, FlagsOK
<1> USE TypeParts DEF store, os, promises, flags, tasks, owner
<1>1. ASSUME Start PROVE Goal
  <2>1. StoreOK'
    BY <1>1 DEF Start, Begin, StartupFailed, StoreOK
  <2>2. PromisesOK'
    BY <1>1, SettleType DEF Start, Begin, StartupFailed, PromisesOK, Promise
  <2>3. StateOK'
    BY <1>1, ServiceAssumption DEF Start, Begin, StartupFailed, StateOK, Instance
  <2>4. FlagsOK'
    BY <1>1 DEF Start, Begin, StartupFailed, FlagsOK
  <2>5. OsOK' /\ StopperOK'
    BY <1>1 DEF Start, Begin, OsOK, StopperOK
  <2> QED
    BY <2>1, <2>2, <2>3, <2>4, <2>5
<1>2. ASSUME Restart PROVE Goal
  <2>1. StoreOK'
    BY <1>2 DEF Restart, Begin, StartupFailed, StoreOK
  <2>2. PromisesOK'
    BY <1>2, SettleType DEF Restart, Begin, StartupFailed, PromisesOK, Promise
  <2>3. StateOK'
    BY <1>2, ServiceAssumption DEF Restart, Begin, StartupFailed, StateOK, Instance
  <2>4. FlagsOK'
    BY <1>2 DEF Restart, Begin, StartupFailed, FlagsOK
  <2>5. OsOK' /\ StopperOK'
    BY <1>2 DEF Restart, Begin, OsOK, StopperOK
  <2> QED
    BY <2>1, <2>2, <2>3, <2>4, <2>5
<1>3. ASSUME SpawnFails PROVE Goal
  <2>1. StoreOK'
    BY <1>3 DEF SpawnFails, StartupFailed, Record, StoreOK
  <2>2. PromisesOK'
    BY <1>3, SettleType DEF SpawnFails, StartupFailed, PromisesOK
  <2>3. StateOK'
    BY <1>3 DEF SpawnFails, StartupFailed, StateOK
  <2>4. FlagsOK'
    BY <1>3 DEF SpawnFails, StartupFailed, Record, FlagsOK
  <2>5. OsOK' /\ StopperOK'
    BY <1>3 DEF SpawnFails, OsOK, StopperOK
  <2> QED
    BY <2>1, <2>2, <2>3, <2>4, <2>5
<1>4. ASSUME Forked PROVE Goal
  <2>1. OsOK'
    BY <1>4 DEF Forked, OsOK
  <2>2. StoreOK' /\ PromisesOK' /\ StateOK' /\ StopperOK' /\ FlagsOK'
    BY <1>4 DEF Forked, StoreOK, PromisesOK, StateOK, StopperOK, FlagsOK
  <2> QED
    BY <2>1, <2>2
<1>5. ASSUME Activate PROVE Goal
  <2>1. StoreOK'
    BY <1>5 DEF Activate, StoreOK
  <2>2. OsOK'
    BY <1>5 DEF Activate, OsOK
  <2>3. PromisesOK'
    BY <1>5, SettleType DEF Activate, PromisesOK
  <2>4. StateOK'
    BY <1>5 DEF Activate, StateOK
  <2>5. FlagsOK'
    BY <1>5 DEF Activate, FlagsOK
  <2>6. StopperOK'
    BY <1>5 DEF Activate, StopperOK
  <2> QED
    BY <2>1, <2>2, <2>3, <2>4, <2>5, <2>6
<1>6. ASSUME ActivateRefused PROVE Goal
  <2>1. OsOK'
    BY <1>6 DEF ActivateRefused, OsOK
  <2>2. StateOK'
    BY <1>6 DEF ActivateRefused, StateOK
  <2>3. FlagsOK'
    BY <1>6 DEF ActivateRefused, FlagsOK
  <2>4. StoreOK' /\ PromisesOK' /\ StopperOK'
    BY <1>6 DEF ActivateRefused, StoreOK, PromisesOK, StopperOK
  <2> QED
    BY <2>1, <2>2, <2>3, <2>4
<1>7. ASSUME CleanedUp PROVE Goal
  <2>1. OsOK'
    BY <1>7 DEF CleanedUp, Killed, OsOK
  <2>2. PromisesOK'
    BY <1>7, SettleType DEF CleanedUp, PromisesOK
  <2>3. StateOK'
    BY <1>7 DEF CleanedUp, StateOK
  <2>4. StoreOK' /\ StopperOK' /\ FlagsOK'
    BY <1>7 DEF CleanedUp, StoreOK, StopperOK, FlagsOK
  <2> QED
    BY <2>1, <2>2, <2>3, <2>4
<1>8. ASSUME NEW c \in Stopper, StopTerminated(c) PROVE Goal
  <2>1. OsOK'
    BY <1>8 DEF StopTerminated, Killed, OsOK
  <2>2. StopperOK'
    BY <1>8 DEF StopTerminated, StopperOK, Stopper
  <2>3. StoreOK' /\ PromisesOK' /\ StateOK' /\ FlagsOK'
    BY <1>8 DEF StopTerminated, StoreOK, PromisesOK, StateOK, FlagsOK
  <2> QED
    BY <2>1, <2>2, <2>3
<1>9. ASSUME NEW c \in Stopper, StopFinalized(c) PROVE Goal
  <2>1. StoreOK'
    BY <1>9 DEF StopFinalized, FinalizeThrows, FinalizeConfirmed,
       FinalizeUnconfirmed, Record, StoreOK
  <2>2. PromisesOK'
    BY <1>9, SettleType DEF StopFinalized, FinalizeThrows, FinalizeConfirmed,
       FinalizeUnconfirmed, PromisesOK
  <2>3. StateOK'
    BY <1>9 DEF StopFinalized, FinalizeThrows, FinalizeConfirmed,
       FinalizeUnconfirmed, StateOK
  <2>4. StopperOK'
    BY <1>9 DEF StopFinalized, FinalizeThrows, FinalizeConfirmed,
       FinalizeUnconfirmed, StopperOK, Stopper
  <2>5. FlagsOK'
    BY <1>9 DEF StopFinalized, FinalizeThrows, FinalizeConfirmed,
       FinalizeUnconfirmed, Record, FlagsOK
  <2>6. OsOK'
    BY <1>9 DEF StopFinalized, FinalizeThrows, FinalizeConfirmed,
       FinalizeUnconfirmed, OsOK
  <2> QED
    BY <2>1, <2>2, <2>3, <2>4, <2>5, <2>6
<1>10. ASSUME NEW c \in Stopper, Stop(c) PROVE Goal
  <2>1. PromisesOK'
    BY <1>10, SettleType DEF Stop, CallStop, StopInBackoff, PromisesOK
  <2>2. StateOK'
    BY <1>10 DEF Stop, CallStop, StopInBackoff, StateOK
  <2>3. StopperOK'
    BY <1>10 DEF Stop, CallStop, StopInBackoff, StopperOK, Stopper
  <2>4. FlagsOK'
    BY <1>10 DEF Stop, CallStop, StopInBackoff, FlagsOK
  <2>5. StoreOK' /\ OsOK'
    BY <1>10 DEF Stop, CallStop, StoreOK, OsOK
  <2> QED
    BY <2>1, <2>2, <2>3, <2>4, <2>5
<1>11. ASSUME ReadyLine PROVE Goal
  <2>1. PromisesOK'
    BY <1>11, SettleType DEF ReadyLine, PromisesOK
  <2>2. StateOK'
    BY <1>11 DEF ReadyLine, StateOK
  <2>3. FlagsOK'
    BY <1>11 DEF ReadyLine, FlagsOK
  <2>4. StoreOK' /\ OsOK' /\ StopperOK'
    BY <1>11 DEF ReadyLine, StoreOK, OsOK, StopperOK
  <2> QED
    BY <2>1, <2>2, <2>3, <2>4
<1>12. ASSUME ReadyTimeout PROVE Goal
  <2>1. PromisesOK'
    BY <1>12, SettleType DEF ReadyTimeout, CallStop, StopInBackoff, PromisesOK
  <2>2. StateOK'
    BY <1>12 DEF ReadyTimeout, CallStop, StopInBackoff, StateOK
  <2>3. StopperOK'
    BY <1>12 DEF ReadyTimeout, CallStop, StopInBackoff, StopperOK, Stopper
  <2>4. FlagsOK'
    BY <1>12 DEF ReadyTimeout, CallStop, StopInBackoff, FlagsOK
  <2>5. StoreOK' /\ OsOK'
    BY <1>12 DEF ReadyTimeout, CallStop, StoreOK, OsOK
  <2> QED
    BY <2>1, <2>2, <2>3, <2>4, <2>5
<1>13. ASSUME ExitSeen PROVE Goal
  <2>1. PromisesOK'
    BY <1>13, SettleType DEF ExitSeen, PromisesOK
  <2>2. StateOK'
    BY <1>13 DEF ExitSeen, StateOK
  <2>3. FlagsOK'
    BY <1>13 DEF ExitSeen, FlagsOK
  <2>4. StoreOK' /\ OsOK' /\ StopperOK'
    BY <1>13 DEF ExitSeen, StoreOK, OsOK, StopperOK
  <2> QED
    BY <2>1, <2>2, <2>3, <2>4
<1>14. ASSUME ExitDrained PROVE Goal
  <2>1. PromisesOK'
    BY <1>14, SettleType DEF ExitDrained, HandOver, PromisesOK
  <2>2. StateOK'
    BY <1>14 DEF ExitDrained, HandOver, StateOK
  <2>3. FlagsOK'
    BY <1>14 DEF ExitDrained, HandOver, FlagsOK
  <2>4. StoreOK' /\ OsOK' /\ StopperOK'
    BY <1>14 DEF ExitDrained, HandOver, StoreOK, OsOK, StopperOK
  <2> QED
    BY <2>1, <2>2, <2>3, <2>4
<1>15. ASSUME TreeAnswered PROVE Goal
  <2>1. StoreOK'
    BY <1>15 DEF TreeAnswered, HandOver, ExitRefused, ExitSettled, ExitUnconfirmed,
       Killed, Record, StoreOK
  <2>2. OsOK'
    BY <1>15 DEF TreeAnswered, HandOver, ExitRefused, ExitSettled, ExitUnconfirmed,
       Killed, Record, OsOK
  <2>3. PromisesOK'
    BY <1>15, SettleType DEF TreeAnswered, HandOver, ExitRefused, ExitSettled,
       ExitUnconfirmed, PromisesOK
  <2>4. StateOK'
    BY <1>15, ServiceAssumption DEF TreeAnswered, HandOver, ExitRefused,
       ExitSettled, ExitUnconfirmed, StateOK
  <2>5. FlagsOK'
    BY <1>15 DEF TreeAnswered, HandOver, ExitRefused, ExitSettled, ExitUnconfirmed,
       Killed, Record, FlagsOK
  <2>6. StopperOK'
    BY <1>15 DEF TreeAnswered, HandOver, ExitRefused, ExitSettled, ExitUnconfirmed,
       StopperOK
  <2> QED
    BY <2>1, <2>2, <2>3, <2>4, <2>5, <2>6
<1>16. ASSUME Fence PROVE Goal
  <2>1. FlagsOK'
    BY <1>16 DEF Fence, FlagsOK
  <2>2. StoreOK' /\ OsOK' /\ PromisesOK' /\ StateOK' /\ StopperOK'
    BY <1>16 DEF Fence, StoreOK, OsOK, PromisesOK, StateOK, StopperOK
  <2> QED
    BY <2>1, <2>2
<1>17. ASSUME Crash PROVE Goal
  <2>1. FlagsOK'
    BY <1>17 DEF Crash, FlagsOK
  <2>2. StoreOK' /\ OsOK' /\ PromisesOK' /\ StateOK' /\ StopperOK'
    BY <1>17 DEF Crash, StoreOK, OsOK, PromisesOK, StateOK, StopperOK
  <2> QED
    BY <2>1, <2>2
<1>18. ASSUME NEW i \in Instance, ProcessExits(i) PROVE Goal
  <2>1. OsOK'
    BY <1>18 DEF ProcessExits, OsOK
  <2>2. StoreOK' /\ PromisesOK' /\ StateOK' /\ StopperOK' /\ FlagsOK'
    BY <1>18 DEF ProcessExits, StoreOK, PromisesOK, StateOK, StopperOK, FlagsOK
  <2> QED
    BY <2>1, <2>2
<1>19. ASSUME NEW i \in Instance, ProcessForks(i) PROVE Goal
  <2>1. OsOK'
    BY <1>19 DEF ProcessForks, OsOK
  <2>2. StoreOK' /\ PromisesOK' /\ StateOK' /\ StopperOK' /\ FlagsOK'
    BY <1>19 DEF ProcessForks, StoreOK, PromisesOK, StateOK, StopperOK, FlagsOK
  <2> QED
    BY <2>1, <2>2
<1>20. ASSUME NEW i \in Instance, Recover(i) PROVE Goal
  <2>1. StoreOK'
    BY <1>20 DEF Recover, Killed, Record, StoreOK
  <2>2. OsOK'
    BY <1>20 DEF Recover, Killed, Record, OsOK
  <2>3. PromisesOK' /\ StateOK' /\ StopperOK' /\ FlagsOK'
    BY <1>20 DEF Recover, PromisesOK, StateOK, StopperOK, FlagsOK
  <2> QED
    BY <2>1, <2>2, <2>3
<1>21. ASSUME NEW i \in Instance, Adjudicate(i) PROVE Goal
  <2>1. StoreOK'
    BY <1>21 DEF Adjudicate, StoreOK
  <2>2. FlagsOK'
    BY <1>21 DEF Adjudicate, FlagsOK
  <2>3. OsOK' /\ PromisesOK' /\ StateOK' /\ StopperOK'
    BY <1>21 DEF Adjudicate, OsOK, PromisesOK, StateOK, StopperOK
  <2> QED
    BY <2>1, <2>2, <2>3
<1>22. ASSUME UNCHANGED vars PROVE Goal
  BY <1>22 DEF vars, StoreOK, OsOK, PromisesOK, StateOK, StopperOK, FlagsOK
<1> QED
  BY <1>1, <1>2, <1>3, <1>4, <1>5, <1>6, <1>7, <1>8, <1>9, <1>10, <1>11, <1>12,
     <1>13, <1>14, <1>15, <1>16, <1>17, <1>18, <1>19, <1>20, <1>21, <1>22 DEF Next,
     Spawn, StopPipeline, Exit, Stopper

\* The service has well-typed state in every reachable state, whatever the restart
\* limit and the callers (ServiceRuntimeState, operations).
THEOREM TypeCorrect == Spec => []TypeOK
  BY TypeInit, TypeNext, PTL DEF Spec

-----------------------------------------------------------------------------
\* The initial states satisfy the invariant.
LEMMA InvInit == Init => IInv
<1> SUFFICES ASSUME Init PROVE IInv
  OBVIOUS
<1>1. RowInv
  BY DEF Init, RowInv
<1>2. IndexInv
  BY DEF Init, IndexInv, Instance
<1>3. AttemptInv /\ TaskInv
  BY ServiceAssumption DEF Init, AttemptInv, TaskInv, Instance, Lost
<1>4. LockOutlivesInstances
  BY DEF Init, LockOutlivesInstances
<1> QED
  BY TypeInit, <1>1, <1>2, <1>3, <1>4 DEF IInv

\* A result written for an instance that has begun keeps rows, leases and processes
\* in agreement, if nothing lives where it says settled.
LEMMA RecordRows ==
  ASSUME TypeOK, RowInv, NEW i \in Instance, NEW what \in {"settled", "indeterminate"},
         row[i] # "none", Record(i, what), gated' = gated,
         Killed(i) \/ UNCHANGED os,
         what = "settled" => root'[i] # "alive"
  PROVE  RowInv'
<1>1. ASSUME NEW j \in Instance, j # i
      PROVE  /\ row'[j] = row[j] /\ result'[j] = result[j] /\ lease'[j] = lease[j]
             /\ root'[j] = root[j]
  BY <1>1 DEF TypeOK, Record, Killed, os
<1>2. /\ row'[i] = "done" /\ result'[i] = what
      /\ lease'[i] <=> what = "indeterminate"
  BY DEF TypeOK, Record
<1> SUFFICES ASSUME NEW j \in Instance
             PROVE  /\ row'[j] = "done" <=> result'[j] # "none"
                    /\ lease'[j] <=> row'[j] \in {"intent_registered", "active"}
                                     \/ result'[j] = "indeterminate"
                    /\ row'[j] = "none" => root'[j] = "none"
                    /\ result'[j] = "settled" => root'[j] # "alive"
                    /\ row'[j] = "intent_registered" /\ gated => root'[j] # "alive"
  BY DEF RowInv
<1>3. CASE j = i
  BY <1>2, <1>3
<1>4. CASE j # i
  BY <1>1, <1>4 DEF RowInv
<1> QED
  BY <1>3, <1>4

\* Every step keeps the invariant.
LEMMA InvNext == IInv /\ [Next]_vars => IInv'
<1> DEFINE Goal == (RowInv /\ IndexInv /\ AttemptInv /\ TaskInv /\ LockOutlivesInstances)'
<1> SUFFICES ASSUME IInv, [Next]_vars PROVE Goal
  BY TypeNext DEF IInv
<1> USE ServiceAssumption DEF IInv, store, os, promises, flags, tasks, owner, Up, Lost
<1>1. ASSUME Start PROVE Goal
  <2>1. RowInv'
    BY <1>1 DEF Start, Begin, RowInv, AttemptInv, TypeOK
  <2>2. IndexInv'
    BY <1>1 DEF Start, Begin, IndexInv, AttemptInv, TypeOK
  <2>3. AttemptInv'
    BY <1>1 DEF Start, Begin, AttemptInv
  <2>4. TaskInv'
    BY <1>1 DEF Start, Begin, StartupFailed, TaskInv, RowInv, AttemptInv, TypeOK
  <2>5. \A i \in Instance : i # 1 => row'[i] = row[i] /\ row[i] = "none"
    BY <1>1 DEF Start, Begin, AttemptInv, IndexInv, TypeOK, Instance
  <2>6. LockOutlivesInstances'
    BY <1>1, <2>5 DEF Start, Begin, StartupFailed, LockOutlivesInstances,
       AttemptInv, TypeOK
  <2> QED
    BY <2>1, <2>2, <2>3, <2>4, <2>5, <2>6
<1>2. ASSUME Restart PROVE Goal
  <2>1. RowInv'
    BY <1>2 DEF Restart, Begin, RowInv, IndexInv, AttemptInv, TypeOK
  <2>2. IndexInv'
    BY <1>2 DEF Restart, Begin, IndexInv, AttemptInv, TypeOK, Instance
  <2>3. AttemptInv'
    BY <1>2 DEF Restart, Begin, AttemptInv
  <2>4. TaskInv'
    BY <1>2 DEF Restart, Begin, StartupFailed, TaskInv, RowInv, IndexInv,
       AttemptInv, TypeOK, Instance
  <2>5. LockOutlivesInstances'
    BY <1>2 DEF Restart, Begin, LockOutlivesInstances, IndexInv, AttemptInv, TypeOK,
       Instance
  <2> QED
    BY <2>1, <2>2, <2>3, <2>4, <2>5
<1>3. ASSUME SpawnFails PROVE Goal
  <2>1. RowInv'
    BY <1>3 DEF SpawnFails, Record, RowInv, TypeOK
  <2>2. IndexInv'
    BY <1>3 DEF SpawnFails, Record, IndexInv, TypeOK, Instance
  <2>3. AttemptInv'
    BY <1>3 DEF SpawnFails, StartupFailed, AttemptInv
  <2>4. TaskInv'
    BY <1>3 DEF SpawnFails, StartupFailed, TaskInv
  <2>5. LockOutlivesInstances'
    BY <1>3 DEF SpawnFails, Record, LockOutlivesInstances, IndexInv, TypeOK,
       Instance
  <2> QED
    BY <2>1, <2>2, <2>3, <2>4, <2>5
<1>4. ASSUME Forked PROVE Goal
  <2>1. RowInv'
    BY <1>4 DEF Forked, RowInv, TaskInv
  <2>2. TaskInv'
    BY <1>4 DEF Forked, TaskInv
  <2>3. IndexInv' /\ AttemptInv' /\ LockOutlivesInstances'
    BY <1>4 DEF Forked, IndexInv, AttemptInv, LockOutlivesInstances
  <2> QED
    BY <2>1, <2>2, <2>3
<1>5. ASSUME Activate PROVE Goal
  <2>1. RowInv'
    BY <1>5 DEF Activate, RowInv, TaskInv, TypeOK
  <2>2. IndexInv'
    BY <1>5 DEF Activate, IndexInv, Instance
  <2>3. AttemptInv'
    BY <1>5 DEF Activate, AttemptInv
  <2>4. TaskInv'
    BY <1>5 DEF Activate, TaskInv, TypeOK
  <2>5. LockOutlivesInstances'
    BY <1>5 DEF Activate, LockOutlivesInstances, RowInv
  <2> QED
    BY <2>1, <2>2, <2>3, <2>4, <2>5
<1>6. ASSUME ActivateRefused PROVE Goal
  <2>1. RowInv'
    BY <1>6 DEF ActivateRefused, RowInv
  <2>2. AttemptInv'
    BY <1>6 DEF ActivateRefused, AttemptInv
  <2>3. TaskInv'
    BY <1>6 DEF ActivateRefused, TaskInv
  <2>4. IndexInv' /\ LockOutlivesInstances'
    BY <1>6 DEF ActivateRefused, IndexInv, LockOutlivesInstances
  <2> QED
    BY <2>1, <2>2, <2>3, <2>4
<1>7. ASSUME CleanedUp PROVE Goal
  <2>1. RowInv'
    BY <1>7 DEF CleanedUp, Killed, RowInv, TaskInv, TypeOK
  <2>2. AttemptInv'
    BY <1>7 DEF CleanedUp, AttemptInv
  <2>3. TaskInv'
    BY <1>7 DEF CleanedUp, Killed, TaskInv, TypeOK
  <2>4. IndexInv' /\ LockOutlivesInstances'
    BY <1>7 DEF CleanedUp, IndexInv, LockOutlivesInstances
  <2> QED
    BY <2>1, <2>2, <2>3, <2>4
<1>8. ASSUME NEW c \in Stopper, StopTerminated(c) PROVE Goal
  <2>1. RowInv'
    BY <1>8 DEF StopTerminated, Killed, RowInv, TaskInv, TypeOK
  <2>2. TaskInv'
    BY <1>8 DEF StopTerminated, Killed, TaskInv, TypeOK
  <2>3. IndexInv' /\ AttemptInv' /\ LockOutlivesInstances'
    BY <1>8 DEF StopTerminated, IndexInv, AttemptInv, LockOutlivesInstances
  <2> QED
    BY <2>1, <2>2, <2>3
<1>9. ASSUME NEW c \in Stopper, StopFinalized(c) PROVE Goal
  <2>1. RowInv'
    BY <1>9 DEF StopFinalized, FinalizeThrows, FinalizeConfirmed,
       FinalizeUnconfirmed, Record, RowInv, TaskInv, TypeOK
  <2>2. IndexInv'
    BY <1>9 DEF StopFinalized, FinalizeThrows, FinalizeConfirmed,
       FinalizeUnconfirmed, Record, IndexInv, TypeOK, Instance
  <2>3. AttemptInv'
    BY <1>9 DEF StopFinalized, FinalizeThrows, FinalizeConfirmed,
       FinalizeUnconfirmed, AttemptInv, RowInv, TypeOK
  <2>4. TaskInv'
    BY <1>9 DEF StopFinalized, FinalizeThrows, FinalizeConfirmed,
       FinalizeUnconfirmed, Record, TaskInv, TypeOK
  <2>5. LockOutlivesInstances'
    BY <1>9 DEF StopFinalized, FinalizeThrows, FinalizeConfirmed,
       FinalizeUnconfirmed, Record, LockOutlivesInstances, RowInv, IndexInv,
       TaskInv, TypeOK, Instance
  <2> QED
    BY <2>1, <2>2, <2>3, <2>4, <2>5
<1>10. ASSUME NEW c \in Stopper, Stop(c) PROVE Goal
  <2>1. AttemptInv'
    BY <1>10 DEF Stop, CallStop, StopInBackoff, AttemptInv
  <2>2. TaskInv'
    BY <1>10 DEF Stop, CallStop, StopInBackoff, TaskInv, TypeOK
  <2>3. LockOutlivesInstances'
    BY <1>10 DEF Stop, CallStop, StopInBackoff, LockOutlivesInstances, IndexInv,
       AttemptInv, TypeOK, Instance
  <2>4. RowInv' /\ IndexInv'
    BY <1>10 DEF Stop, CallStop, RowInv, IndexInv
  <2> QED
    BY <2>1, <2>2, <2>3, <2>4
<1>11. ASSUME ReadyLine PROVE Goal
  <2>1. AttemptInv'
    BY <1>11 DEF ReadyLine, AttemptInv
  <2>2. RowInv' /\ IndexInv' /\ TaskInv' /\ LockOutlivesInstances'
    BY <1>11 DEF ReadyLine, RowInv, IndexInv, TaskInv, LockOutlivesInstances
  <2> QED
    BY <2>1, <2>2
<1>12. ASSUME ReadyTimeout PROVE Goal
  <2>1. AttemptInv'
    BY <1>12 DEF ReadyTimeout, CallStop, StopInBackoff, Stopper, AttemptInv
  <2>2. TaskInv'
    BY <1>12 DEF ReadyTimeout, CallStop, StopInBackoff, Stopper, TaskInv, TypeOK
  <2>3. LockOutlivesInstances'
    BY <1>12 DEF ReadyTimeout, CallStop, StopInBackoff, Stopper,
       LockOutlivesInstances, IndexInv, AttemptInv, TypeOK, Instance
  <2>4. RowInv' /\ IndexInv'
    BY <1>12 DEF ReadyTimeout, CallStop, Stopper, RowInv, IndexInv
  <2> QED
    BY <2>1, <2>2, <2>3, <2>4
<1>13. ASSUME ExitSeen PROVE Goal
  <2>1. AttemptInv'
    BY <1>13 DEF ExitSeen, AttemptInv
  <2>2. TaskInv'
    BY <1>13 DEF ExitSeen, TaskInv
  <2>3. RowInv' /\ IndexInv' /\ LockOutlivesInstances'
    BY <1>13 DEF ExitSeen, RowInv, IndexInv, LockOutlivesInstances
  <2> QED
    BY <2>1, <2>2, <2>3
<1>14. ASSUME ExitDrained PROVE Goal
  <2>1. AttemptInv'
    BY <1>14 DEF ExitDrained, HandOver, AttemptInv
  <2>2. TaskInv'
    BY <1>14 DEF ExitDrained, HandOver, TaskInv
  <2>3. RowInv' /\ IndexInv' /\ LockOutlivesInstances'
    BY <1>14 DEF ExitDrained, HandOver, RowInv, IndexInv, LockOutlivesInstances
  <2> QED
    BY <2>1, <2>2, <2>3
<1>15. ASSUME TreeAnswered PROVE Goal
  <2>1. RowInv'
    BY <1>15 DEF TreeAnswered, HandOver, ExitRefused, ExitSettled, ExitUnconfirmed,
       Killed, Record, RowInv, TaskInv, TypeOK
  <2>2. IndexInv'
    BY <1>15 DEF TreeAnswered, HandOver, ExitRefused, ExitSettled, ExitUnconfirmed,
       Record, IndexInv, TypeOK, Instance
  <2>3. AttemptInv'
    BY <1>15 DEF TreeAnswered, HandOver, ExitRefused, ExitSettled, ExitUnconfirmed,
       Record, AttemptInv, RowInv, IndexInv, TaskInv, LockOutlivesInstances, TypeOK
  <2>4. TaskInv'
    BY <1>15 DEF TreeAnswered, HandOver, ExitRefused, ExitSettled, ExitUnconfirmed,
       Killed, Record, TaskInv, TypeOK
  <2>5. LockOutlivesInstances'
    BY <1>15 DEF TreeAnswered, HandOver, ExitRefused, ExitSettled, ExitUnconfirmed,
       Record, LockOutlivesInstances, RowInv, IndexInv, TaskInv, TypeOK, Instance
  <2> QED
    BY <2>1, <2>2, <2>3, <2>4, <2>5
<1>16. ASSUME Fence PROVE Goal
  <2>1. AttemptInv'
    BY <1>16 DEF Fence, AttemptInv
  <2>2. TaskInv'
    BY <1>16 DEF Fence, TaskInv
  <2>3. LockOutlivesInstances'
    BY <1>16 DEF Fence, LockOutlivesInstances
  <2>4. RowInv' /\ IndexInv'
    BY <1>16 DEF Fence, RowInv, IndexInv
  <2> QED
    BY <2>1, <2>2, <2>3, <2>4
<1>17. ASSUME Crash PROVE Goal
  <2>1. AttemptInv'
    BY <1>17 DEF Crash, AttemptInv
  <2>2. TaskInv'
    BY <1>17 DEF Crash, TaskInv
  <2>3. LockOutlivesInstances'
    BY <1>17 DEF Crash, LockOutlivesInstances
  <2>4. RowInv' /\ IndexInv'
    BY <1>17 DEF Crash, RowInv, IndexInv
  <2> QED
    BY <2>1, <2>2, <2>3, <2>4
<1>18. ASSUME NEW i \in Instance, ProcessExits(i) PROVE Goal
  <2>1. RowInv'
    BY <1>18 DEF ProcessExits, RowInv
  <2>2. TaskInv'
    BY <1>18 DEF ProcessExits, TaskInv
  <2>3. IndexInv' /\ AttemptInv' /\ LockOutlivesInstances'
    BY <1>18 DEF ProcessExits, IndexInv, AttemptInv, LockOutlivesInstances
  <2> QED
    BY <2>1, <2>2, <2>3
<1>19. ASSUME NEW i \in Instance, ProcessForks(i) PROVE Goal
  <2>1. RowInv' /\ IndexInv' /\ AttemptInv' /\ TaskInv' /\ LockOutlivesInstances'
    BY <1>19 DEF ProcessForks, RowInv, IndexInv, AttemptInv, TaskInv,
       LockOutlivesInstances
  <2> QED
    BY <2>1
<1>20. ASSUME NEW i \in Instance, Recover(i) PROVE Goal
  <2>1. row[i] # "none" /\ gated' = gated
    BY <1>20 DEF Recover
  <2>2. \E what \in {"settled", "indeterminate"} :
            /\ Record(i, what)
            /\ what = "settled" => root'[i] # "alive"
            /\ Killed(i) \/ UNCHANGED os
    BY <1>20 DEF Recover, Killed, RowInv, TypeOK
  <2>3. RowInv'
    BY <2>1, <2>2, RecordRows
  <2>4. IndexInv'
    BY <1>20 DEF Recover, Record, IndexInv, RowInv, TypeOK
  <2>5. AttemptInv'
    BY <1>20 DEF Recover, Record, AttemptInv, RowInv, TypeOK
  <2>6. TaskInv'
    BY <1>20 DEF Recover, Killed, Record, TaskInv, TypeOK
  <2>7. LockOutlivesInstances'
    BY <1>20 DEF Recover, LockOutlivesInstances
  <2> QED
    BY <2>1, <2>2, <2>3, <2>4, <2>5, <2>6, <2>7
<1>21. ASSUME NEW i \in Instance, Adjudicate(i) PROVE Goal
  <2>1. RowInv'
    BY <1>21 DEF Adjudicate, RowInv, TypeOK
  <2>2. IndexInv'
    BY <1>21 DEF Adjudicate, IndexInv
  <2>3. AttemptInv'
    BY <1>21 DEF Adjudicate, AttemptInv, RowInv, IndexInv, TaskInv, TypeOK, Instance
  <2>4. TaskInv'
    BY <1>21 DEF Adjudicate, TaskInv
  <2>5. LockOutlivesInstances'
    BY <1>21 DEF Adjudicate, LockOutlivesInstances, RowInv, IndexInv, TypeOK,
       Instance
  <2> QED
    BY <2>1, <2>2, <2>3, <2>4, <2>5
<1>22. ASSUME UNCHANGED vars PROVE Goal
  BY <1>22 DEF vars, RowInv, IndexInv, AttemptInv, TaskInv, LockOutlivesInstances
<1> QED
  BY <1>1, <1>2, <1>3, <1>4, <1>5, <1>6, <1>7, <1>8, <1>9, <1>10, <1>11, <1>12,
     <1>13, <1>14, <1>15, <1>16, <1>17, <1>18, <1>19, <1>20, <1>21, <1>22 DEF Next,
     Spawn, StopPipeline, Exit, Stopper

\* A living instance has its rows in the store, and while its owner is in charge
\* the service holds the lock; the lock goes only over settled instances; a new
\* instance begins only over a settled one (registerOperationIntent, finalizeStop,
\* handleInstanceExit, recover).
THEOREM Isolated == Spec => []InstancesIsolated
<1>1. IInv => InstanceProtected
  BY DEF IInv, TypeOK, RowInv, LockOutlivesInstances, InstanceProtected
<1>2. IInv => RestartOverSettled
  BY DEF IInv, TypeOK, IndexInv, RestartOverSettled, Instance
<1>3. IInv => InstancesIsolated
  BY <1>1, <1>2 DEF IInv, InstancesIsolated
<1> QED
  BY InvInit, InvNext, <1>3, PTL DEF Spec

\* Once a stop is requested no step counts another restart, wherever the stop
\* meets the exit of an instance (handleInstanceExit).
THEOREM StopEndsRestarts == Spec => NoRestartAfterStop
<1>1. [Next]_vars => [stopRequested => attempts' = attempts]_vars
  <2> SUFFICES ASSUME Next, stopRequested PROVE attempts' = attempts
    OBVIOUS
  <2>1. ASSUME Spawn PROVE attempts' = attempts
    BY <2>1 DEF Spawn, Start, Restart, Forked, SpawnFails, Activate,
       ActivateRefused,
                CleanedUp, flags
  <2>2. ASSUME StopPipeline PROVE attempts' = attempts
    BY <2>2 DEF StopPipeline, StopTerminated, StopFinalized, flags
  <2>3. ASSUME Exit PROVE attempts' = attempts
    BY <2>3 DEF Exit, ExitSeen, ExitDrained, TreeAnswered, HandOver, ExitRefused,
                ExitSettled, ExitUnconfirmed
  <2>4. ASSUME \/ ReadyLine \/ ReadyTimeout \/ Fence \/ Crash
               \/ \E c \in Caller : Stop(c)
        PROVE  attempts' = attempts
    BY <2>4 DEF ReadyLine, ReadyTimeout, Fence, Crash, Stop, flags
  <2>5. ASSUME \E i \in Instance : ProcessExits(i) \/ ProcessForks(i) \/ Recover(i)
                                   \/ Adjudicate(i)
        PROVE  attempts' = attempts
    BY <2>5 DEF ProcessExits, ProcessForks, Recover, Adjudicate, flags
  <2> QED
    BY <2>1, <2>2, <2>3, <2>4, <2>5 DEF Next
<1> QED
  BY <1>1, PTL DEF Spec, NoRestartAfterStop
=============================================================================
