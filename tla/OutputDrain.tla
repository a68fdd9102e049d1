---------------------------- MODULE OutputDrain ----------------------------
(***************************************************************************)
(* The output of an operation: the drainer that keeps its head and its     *)
(* tail in memory and all of it in a file (src/src/supervisor/drainer.ts), *)
(* the artifact that the file is (src/src/artifacts.ts), the result that   *)
(* refers to it, and the pruning of artifacts (src/src/domain.ts).         *)
(*                                                                         *)
(* A byte is its position in the stream, so that what is kept, hashed or   *)
(* written is a number or a sequence of positions.  The stream is text     *)
(* whose characters have 1, 2, 3 and 4 bytes in turn.                      *)
(***************************************************************************)
EXTENDS Integers, Sequences

CONSTANTS
    MaxBytes,                   \* maxBytes of the drainer
    MAX_PENDING_WRITE_BYTES,
    ChunkSizes, MaxChunks,      \* what the process writes
    MaxDrainFaults              \* failures of the disk, the store, and by others

ASSUME DrainAssumption ==
    /\ {MaxBytes, MAX_PENDING_WRITE_BYTES, MaxChunks, MaxDrainFaults} \subseteq Nat
    /\ ChunkSizes \subseteq Nat \ {0}    \* a 'data' event has data

VARIABLES
    chunksLeft, pipeOpen, paused,                            \* the stream
    bytesSeen, headBytes, isTruncated, tailRing, tailHead, tailCount,
    queue, pendingWriteBytes, written, hashed, spillFd, spillError,    \* the writer
    fin, forced, outputHash,                                 \* doFinalize
    file, record, recordHash,                                \* the path and its row
    opStatus, opResult, hostAlive, storeFenced, drainFaults

streamVars == <<chunksLeft, pipeOpen, paused>>
keptVars   == <<bytesSeen, headBytes, isTruncated, tailRing, tailHead, tailCount>>
writerVars == <<queue, pendingWriteBytes, written, hashed, spillFd, spillError>>
finVars    == <<fin, forced, outputHash>>
fileVars   == <<file, record, recordHash>>
opVars     == <<opStatus, opResult, hostAlive, storeFenced>>
drainVars  == <<streamVars, keptVars, writerVars, finVars, fileVars, opVars, drainFaults>>

NoSum == -1
Smaller(a, b) == IF a < b THEN a ELSE b

\* The shares of head and tail in maxBytes.
Overhead == IF MaxBytes >= 80 THEN Smaller(64, MaxBytes \div 4) ELSE 0
HeadMax == IF Overhead > 0 THEN ((MaxBytes - Overhead) * 3) \div 4 ELSE MaxBytes
TailMax == IF Overhead > 0 THEN MaxBytes - Overhead - HeadMax ELSE 0

\* The width of the character that begins at a byte; 0 in the middle of one.
Width(p) == <<1, 2, 0, 3, 0, 0, 4, 0, 0, 0>>[((p - 1) % 10) + 1]

-----------------------------------------------------------------------------
(* What is shown *)

\* The first n bytes without a character that is cut.
trimToValidUtf8(n) ==
    LET leads == {i \in 1..Smaller(3, n) : Width(n - i + 1) > 0}
        i == CHOOSE k \in leads : \A l \in leads : k <= l
    IN  IF leads # {} /\ i < Width(n - i + 1) THEN n - i ELSE n

trimStartToValidUtf8(tail) ==
    LET leads == {i \in 1..Len(tail) : Width(tail[i]) > 0}
    IN  IF leads = {} THEN <<>> ELSE SubSeq(tail, CHOOSE k \in leads : \A l \in leads : k <= l, Len(tail))

\* The ring in the order of the stream.
rawTail == [i \in 1..tailCount |-> IF tailCount < TailMax THEN tailRing[i - 1]
                                   ELSE tailRing[(tailHead + i - 1) % TailMax]]

\* getResult: the text, the count in its marker, and the facts about the file.
getResult ==
    LET whole == bytesSeen <= MaxBytes
        head == IF whole THEN headBytes ELSE trimToValidUtf8(headBytes)
        tail == IF whole THEN <<>> ELSE trimStartToValidUtf8(rawTail)
    IN  [head |-> head, tail |-> tail, marker |-> IF whole THEN 0 ELSE bytesSeen - head - Len(tail),
         isTruncated |-> isTruncated, ref |-> isTruncated /\ ~ spillError,
         hash |-> IF spillError THEN NoSum ELSE outputHash, bytes |-> bytesSeen]

-----------------------------------------------------------------------------
Idle ==
    /\ chunksLeft = 0 /\ pipeOpen = FALSE /\ paused = FALSE
    /\ bytesSeen = 0 /\ headBytes = 0 /\ isTruncated = FALSE
    /\ tailRing = [i \in 0..TailMax - 1 |-> 0] /\ tailHead = 0 /\ tailCount = 0
    /\ queue = <<>> /\ pendingWriteBytes = 0 /\ written = 0 /\ hashed = 0 /\ spillFd = "none" /\ spillError = FALSE
    /\ fin = "no" /\ forced = FALSE /\ outputHash = NoSum
    /\ file = "none" /\ record = "none" /\ recordHash = NoSum
    /\ opStatus = "none" /\ opResult = <<>> /\ hostAlive = FALSE /\ storeFenced = FALSE /\ drainFaults = 0

Fault == drainFaults < MaxDrainFaults /\ drainFaults' = drainFaults + 1
NoFault == UNCHANGED drainFaults

\* openOutputCapture, createArtifact: the file is there before its row, and the host
\* may die in between; if the row cannot be written the file is removed again.
OpenCapture ==
    /\ opStatus = "none" /\ opStatus' = "running" /\ pipeOpen' = TRUE /\ chunksLeft' = MaxChunks
    /\ \/ /\ NoFault /\ file' = "ours" /\ record' = "present" /\ spillFd' = "open" /\ hostAlive' = TRUE
          /\ UNCHANGED spillError
       \/ /\ Fault /\ spillError' = TRUE /\ hostAlive' = TRUE /\ UNCHANGED <<file, record, spillFd>>
       \/ /\ NoFault /\ file' = "ours" /\ UNCHANGED <<record, spillFd, spillError, hostAlive>>
    /\ UNCHANGED <<paused, keptVars, queue, pendingWriteBytes, written, hashed, finVars, recordHash, opResult, storeFenced>>

\* The tail keeps the last TailMax bytes.
KeepTail(from, n) ==
    IF n >= TailMax
    THEN /\ tailRing' = [i \in 0..TailMax - 1 |-> from + n - TailMax + i]
         /\ tailHead' = 0 /\ tailCount' = TailMax
    ELSE /\ tailRing' = [i \in 0..TailMax - 1 |->
                           LET j == (i - tailHead + TailMax) % TailMax
                           IN  IF j < n THEN from + j ELSE tailRing[i]]
         /\ tailHead' = (tailHead + n) % TailMax
         /\ tailCount' = Smaller(TailMax, tailCount + n)

\* The head is filled once, chunk by chunk.
KeepHead(n) ==
    /\ headBytes' = Smaller(HeadMax, headBytes + n)
    /\ isTruncated' = (isTruncated \/ headBytes + n > HeadMax \/ bytesSeen + n > MaxBytes)

\* enqueueWrite: the stream is paused when too much waits.
enqueueWrite(n) ==
    IF spillFd # "open" \/ spillError THEN UNCHANGED <<queue, pendingWriteBytes, paused>>
    ELSE /\ queue' = Append(queue, n)
         /\ pendingWriteBytes' = pendingWriteBytes + n
         /\ paused' = (paused \/ pendingWriteBytes + n > MAX_PENDING_WRITE_BYTES)

\* A chunk; after finalisation it is read and dropped.
OnData ==
    /\ hostAlive /\ pipeOpen /\ ~ paused /\ chunksLeft > 0 /\ chunksLeft' = chunksLeft - 1
    /\ \/ /\ fin # "no"
          /\ UNCHANGED <<paused, keptVars, queue, pendingWriteBytes>>
       \/ /\ fin = "no"
          /\ \E n \in ChunkSizes :
               /\ bytesSeen' = bytesSeen + n
               /\ enqueueWrite(n) /\ KeepHead(n) /\ KeepTail(bytesSeen + 1, n)
    /\ UNCHANGED <<pipeOpen, written, hashed, spillFd, spillError, finVars, fileVars, opVars, drainFaults>>

resumeAfterWrite ==
    paused /\ ~(fin = "no" /\ pendingWriteBytes - Head(queue) <= MAX_PENDING_WRITE_BYTES \div 2)

\* writeChunk, then the hash; a write that fails leaves a part in the file.
WriteAndHash(ok) ==
    IF spillError \/ spillFd # "open" THEN UNCHANGED <<written, hashed, spillError>>
    ELSE IF ok THEN /\ written' = written + Head(queue) /\ hashed' = hashed + Head(queue)
                    /\ UNCHANGED spillError
    ELSE written' = written + 1 /\ spillError' = TRUE /\ UNCHANGED hashed

\* The next job of writeTail.
WriteJob ==
    /\ hostAlive /\ queue # <<>> /\ queue' = Tail(queue)
    /\ \E ok \in BOOLEAN :
         /\ IF ok THEN NoFault ELSE Fault
         /\ WriteAndHash(ok)
    /\ pendingWriteBytes' = pendingWriteBytes - Head(queue) /\ paused' = resumeAfterWrite
    /\ UNCHANGED <<chunksLeft, pipeOpen, keptVars, spillFd, finVars, fileVars, opVars>>

\* doFinalize up to its first await; the second call finds the promise.
doFinalize == IF fin = "no" THEN fin' = "writing" /\ paused' = FALSE ELSE UNCHANGED <<fin, paused>>

\* The stream ends, is closed or fails (which may happen to a paused one).
StreamEnds ==
    /\ hostAlive /\ pipeOpen /\ pipeOpen' = FALSE /\ doFinalize
    /\ UNCHANGED <<chunksLeft, keptVars, writerVars, forced, outputHash, fileVars, opVars, drainFaults>>

forceFinalize ==
    /\ hostAlive /\ opStatus # "none" /\ ~ forced /\ forced' = TRUE /\ doFinalize
    /\ UNCHANGED <<chunksLeft, pipeOpen, keptVars, writerVars, outputHash, fileVars, opVars, drainFaults>>

\* All jobs are done: fsync.
SyncFile ==
    /\ hostAlive /\ fin = "writing" /\ queue = <<>> /\ fin' = "synced"
    /\ \/ NoFault /\ UNCHANGED spillError
       \/ spillFd = "open" /\ Fault /\ spillError' = TRUE
    /\ UNCHANGED <<streamVars, keptVars, queue, pendingWriteBytes, written, hashed, spillFd, forced, outputHash, fileVars, opVars>>

\* Mutant: whatever is at the path is removed.
RemoveByName(f) == [file |-> "none", throws |-> FALSE]

\* removeOwnedArtifact, by identity: a file of somebody else is left and an error.
removeOwnedArtifact(f) == IF f = "others" THEN [file |-> f, throws |-> TRUE] ELSE [file |-> "none", throws |-> FALSE]

\* close, the hash, recordArtifactFinalized and, unless the file is needed and
\* good, its removal and recordArtifactDeleted.
CloseFile ==
    /\ hostAlive /\ fin = "synced" /\ fin' = "done" /\ spillFd' = IF spillFd = "open" THEN "closed" ELSE spillFd
    /\ \E ok \in BOOLEAN :
         LET owned == spillFd = "open"
             sum == IF spillError \/ ~ ok THEN NoSum ELSE hashed
             noted == owned /\ sum # NoSum /\ ~ storeFenced
             failed == sum = NoSum \/ (owned /\ storeFenced)
             drops == owned /\ (~ isTruncated \/ failed)
             gone == removeOwnedArtifact(file)
         IN  /\ IF ok THEN NoFault ELSE owned /\ Fault
             /\ outputHash' = sum
             /\ recordHash' = IF noted THEN sum ELSE recordHash
             /\ file' = IF drops THEN gone.file ELSE file
             /\ record' = IF drops /\ ~ gone.throws /\ ~ storeFenced THEN "deleted" ELSE record
             /\ spillError' = (failed \/ (drops /\ (gone.throws \/ storeFenced)))
    /\ UNCHANGED <<streamVars, keptVars, queue, pendingWriteBytes, written, hashed, forced, opVars>>

\* buildProcessResult and the end of a service: the operation is done and its
\* result refers to the file.
CommitResult ==
    /\ hostAlive /\ opStatus = "running" /\ fin = "done" /\ ~ storeFenced
    /\ opStatus' = "done" /\ opResult' = <<getResult>>
    /\ UNCHANGED <<streamVars, keptVars, writerVars, finVars, fileVars, hostAlive, storeFenced, drainFaults>>

\* drainOrReap gives up on the pipes.
HoldsLeases ==
    /\ hostAlive /\ opStatus = "running" /\ forced /\ ~ storeFenced /\ opStatus' = "indeterminate"
    /\ UNCHANGED <<streamVars, keptVars, writerVars, finVars, fileVars, opResult, hostAlive, storeFenced, drainFaults>>

\* The owner after this one recovers the operation: it never knows the output.
RecoveredByNext ==
    /\ opStatus = "running" /\ (~ hostAlive \/ storeFenced)
    /\ \/ opStatus' = "indeterminate" /\ UNCHANGED opResult
       \/ /\ opStatus' = "done"
          /\ opResult' = <<[head |-> 0, tail |-> <<>>, marker |-> 0, isTruncated |-> FALSE, ref |-> FALSE,
                            hash |-> NoSum, bytes |-> 0]>>
    /\ UNCHANGED <<streamVars, keptVars, writerVars, finVars, fileVars, hostAlive, storeFenced, drainFaults>>

\* Mutant: the references of a finished operation do not count.
ProtectsUnfinished == opStatus # "done"

\* A file that pruneArtifacts keeps by name: of an operation that is not done or
\* indeterminate (also once it is adjudicated), or that a result refers to.
Protected == opStatus # "done" \/ opResult[1].ref

\* pruneArtifacts, by the host or, once it is fenced or dead, by its successor: what
\* has a row as present, is not protected, not held back by a filter, and is still
\* the same file.
pruneArtifacts ==
    /\ opStatus = "done" /\ record = "present" /\ ~ Protected
    /\ file # "none" /\ ~ removeOwnedArtifact(file).throws
    /\ file' = removeOwnedArtifact(file).file /\ record' = "deleted"
    /\ UNCHANGED <<streamVars, keptVars, writerVars, finVars, recordHash, opVars, drainFaults>>

\* The host dies, perhaps between a removal and its record.
HostDies ==
    /\ hostAlive /\ hostAlive' = FALSE
    /\ \/ UNCHANGED file
       \/ fin = "synced" /\ spillFd = "open" /\ (~ isTruncated \/ spillError) /\ file' = removeOwnedArtifact(file).file
    /\ UNCHANGED <<streamVars, keptVars, writerVars, finVars, record, recordHash, opStatus, opResult, storeFenced,
                   drainFaults>>

\* Another process takes over the domain; somebody replaces the file.
TakenOver ==
    /\ hostAlive /\ ~ storeFenced /\ opStatus # "none" /\ Fault /\ storeFenced' = TRUE
    /\ UNCHANGED <<streamVars, keptVars, writerVars, finVars, fileVars, opStatus, opResult, hostAlive>>

Replaced ==
    /\ file = "ours" /\ Fault /\ file' = "others"
    /\ UNCHANGED <<streamVars, keptVars, writerVars, finVars, record, recordHash, opVars>>

DrainNext ==
    \/ OpenCapture \/ OnData \/ WriteJob \/ StreamEnds \/ forceFinalize \/ SyncFile \/ CloseFile
    \/ CommitResult \/ HoldsLeases \/ RecoveredByNext \/ pruneArtifacts \/ HostDies \/ TakenOver \/ Replaced

DrainSpec == Idle /\ [][DrainNext]_drainVars

-----------------------------------------------------------------------------
(***************************************************************************)
(* A result never refers to output that is not there: as long as it is the *)
(* operation's, the file has every byte the drainer counted and the hash is*)
(* the hash of the file, whatever the disk, the store, a forced end or a   *)
(* prune did meanwhile; and a hash that is given is of all the bytes       *)
(* (setupStreamDrainer, pruneArtifacts).                                   *)
(***************************************************************************)
OutputIsThere ==
    opResult # <<>> =>
        /\ opResult[1].hash # NoSum => opResult[1].hash = opResult[1].bytes /\ written = opResult[1].bytes
        /\ opResult[1].ref => /\ opResult[1].hash # NoSum /\ recordHash = opResult[1].hash
                              /\ file # "none" /\ record = "present"

(***************************************************************************)
(* The row of an artifact is true: a file that a row calls deleted is not  *)
(* there, a file of the operation has a row (but one whose host died while *)
(* it was created), and no file but the operation's own is ever removed    *)
(* (createArtifact, removeOwnedArtifact, recordArtifactDeleted).           *)
(***************************************************************************)
ArtifactRowIsTrue ==
    [][/\ file = "others" => file' = "others"
       /\ record' = "deleted" => file' # "ours"
       /\ file' = "ours" /\ hostAlive' => record' = "present"]_drainVars

(***************************************************************************)
(* What a result shows is the beginning and the end of the output: whole   *)
(* characters, in order, without overlap, and the marker counts exactly the*)
(* bytes left out.  Output between HeadMax and maxBytes is the exception:  *)
(* it is cut at HeadMax without a marker (isTruncated tells), perhaps      *)
(* within a character (getResult, the ring, trimToValidUtf8).              *)
(***************************************************************************)
ShownIsTrue ==
    opResult # <<>> =>
        LET r == opResult[1]
        IN  /\ r.isTruncated <=> r.head # r.bytes
            /\ r.bytes > MaxBytes =>
                 /\ r.tail = [i \in 1..Len(r.tail) |-> r.bytes - Len(r.tail) + i]
                 /\ r.head + Len(r.tail) + r.marker = r.bytes /\ r.marker > 0
                 /\ Width(r.head + 1) > 0
                 /\ r.tail # <<>> => Width(r.tail[1]) > 0

(***************************************************************************)
(* The pipe is never stuck: a stream is paused only while a write is under *)
(* way that will resume it, also if that write fails; and what waits is    *)
(* bounded by the limit and one chunk (enqueueWrite, resumeAfterWrite).    *)
(***************************************************************************)
PausedIsResumed ==
    /\ paused => queue # <<>>
    /\ \A n \in {0} \cup ChunkSizes :
         (\A m \in ChunkSizes : m <= n) => pendingWriteBytes <= MAX_PENDING_WRITE_BYTES + n

\* A result shows and refers to what the process wrote, and the pipe is never stuck.
OutputIsTrue ==
    /\ OutputIsThere
    /\ ShownIsTrue
    /\ PausedIsResumed
=============================================================================
