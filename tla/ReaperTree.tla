----------------------------- MODULE ReaperTree -----------------------------
(***************************************************************************)
(* One process tree held by the native helper, on Linux                    *)
(* (src/native/reaper/xioflow-reaper.c), and the session that the driver   *)
(* keeps for it (src/src/driver/reaper-driver.ts).  The helper is the      *)
(* subreaper of the tree, reads /proc one entry at a time while processes  *)
(* fork, exit and recycle pids, and talks to the host over two FIFO lines  *)
(* of messages.  The host, the helper or both may die at any step.         *)
(*                                                                         *)
(* What the driver answers from the operating system once the helper is    *)
(* lost ("os_facts") belongs to the node driver: see OperationLifecycle.   *)
(* Landlock, rusage lines, stdio and the macOS tracker are left out.       *)
(***************************************************************************)
EXTENDS Integers, Sequences, FiniteSets

CONSTANTS MaxPid,        \* pids are 1..MaxPid
          Root,          \* the pid of the root
          MaxForks,      \* forks in the tree
          MaxStrangers,  \* processes that are born outside the tree
          KillRounds,    \* rounds of SIGKILL that fit in two seconds
          MaxCommands,   \* terminate(), settleTree() and kill() calls
          MaxFaults      \* crashes, signals to the helper, timers that fire early

ASSUME ReaperAssumption ==
    /\ {MaxPid, MaxForks, MaxStrangers, KillRounds, MaxCommands, MaxFaults} \subseteq Nat
    /\ Root \in 1..MaxPid
    /\ KillRounds > 2 * MaxForks

Pid == 1..MaxPid
HelperPid == 0
InitPid == -1

VARIABLES
    proc,      \* the process table of the kernel
    gate,      \* gate_pipe, as the root reads it: "shut" | "open" | "closed"
    executed,  \* the target program runs
    h,         \* the helper
    inbox,     \* lines on their way to the helper
    outbox,    \* lines on their way to the host
    s,         \* the session in the driver
    used

treeVars == <<proc, gate, executed, h, inbox, outbox, s, used>>

Free == [state |-> "free", start |-> 0, parent |-> InitPid, kin |-> FALSE, doomed |-> FALSE]
\* A pid that is free again; kin says that the tree has had it.
Freed(pr, p) == [Free EXCEPT !.kin = pr[p].kin]
Born(start, parent, kin) ==
    [state |-> "live", start |-> start, parent |-> parent, kin |-> kin, doomed |-> FALSE]
NoEntry == [start |-> 0, ppid |-> InitPid, zombie |-> FALSE]
NoTable == [p \in Pid |-> NoEntry]

RootIsOriginal == proc[Root].state = "live" /\ proc[Root].start = 1
LiveKin == {p \in Pid : proc[p].state = "live" /\ proc[p].kin}
HostUp == s.pc # "gone"
HelperUp == h.pc # "gone"
NextStart == 2 + used.forks + used.strangers
Use(what) == used' = [used EXCEPT ![what] = @ + 1]

TreeTypes ==
    /\ proc \in [Pid -> [state : {"free", "live", "zombie"}, start : 0..(1 + MaxForks + MaxStrangers),
                         parent : {InitPid, HelperPid} \cup Pid, kin : BOOLEAN, doomed : BOOLEAN]]
    /\ gate \in {"shut", "open", "closed"}
    /\ executed \in BOOLEAN
    /\ h.pc \in {"loop", "poll", "read", "scan", "kill", "gone"}
    /\ h.why \in {"idle", "command", "signal", "eof"}
    /\ h.sig \in 1..3 /\ h.rounds \in 0..KillRounds /\ h.cursor \in 1..(MaxPid + 1)
    /\ h.todo \subseteq Pid \X Nat
    /\ {h.last, h.rootReaped, h.stopReq, h.crashed} \subseteq BOOLEAN
    /\ inbox \in Seq({"go", "abort", "stop", "signal"})
    /\ outbox \in Seq({"spawned", "exit", "empty", "stopped", "residual"})
    /\ s.pc \in {"spawning", "reading", "held", "rejected", "gone"}
    /\ s.rootExit \in {"none", "facts", "unknown"}
    /\ {s.treeEmpty, s.helperLost, s.closed, s.waiting, s.settling, s.terminal} \subseteq BOOLEAN
    /\ s.osStart \in Nat
    /\ s.gate \in {"unsent", "go", "abort"}
    /\ s.held \in {"none", "this", "other"}
    /\ s.stopSaid \in {"none", "confirmed", "undetermined", "os_facts"}
    /\ s.settleSaid \in {"none", "empty", "residual", "unknown", "os_facts"}

\* main() up to "spawned": the helper is a subreaper, the root is blocked on the gate.
TreeInit ==
    /\ proc = [p \in Pid |-> IF p = Root THEN Born(1, HelperPid, TRUE) ELSE Free]
    /\ gate = "shut" /\ executed = FALSE
    /\ h = [pc |-> "loop", why |-> "idle", sig |-> 1, rounds |-> 0, last |-> FALSE, cursor |-> 1,
            table |-> NoTable, todo |-> {}, rootReaped |-> FALSE, stopReq |-> FALSE, crashed |-> FALSE]
    /\ inbox = <<>> /\ outbox = <<"spawned">>
    /\ s = [pc |-> "spawning", rootExit |-> "none", treeEmpty |-> FALSE, helperLost |-> FALSE,
            closed |-> FALSE, waiting |-> FALSE, settling |-> FALSE, gate |-> "unsent", held |-> "none",
            terminal |-> FALSE, osStart |-> 0, stopSaid |-> "none", settleSaid |-> "none"]
    /\ used = [forks |-> 0, strangers |-> 0, commands |-> 0, faults |-> 0]

-----------------------------------------------------------------------------
(* The kernel and the programs *)

\* A dead process is a zombie until its parent waits; init waits at once.
\* Its children go to the nearest subreaper, which is the helper while it runs.
Buried(pr, p) ==
    LET heir == IF pr[p].kin /\ HelperUp THEN HelperPid ELSE InitPid
    IN  [q \in Pid |->
          CASE q = p -> IF pr[p].parent = InitPid \/ ~ pr[p].kin THEN Freed(pr, p)
                        ELSE [pr[p] EXCEPT !.state = "zombie", !.doomed = FALSE]
            [] q # p /\ pr[q].state # "free" /\ pr[q].parent = p ->
                        IF heir = InitPid /\ pr[q].state = "zombie" THEN Freed(pr, q)
                        ELSE [pr[q] EXCEPT !.parent = heir]
            [] OTHER -> pr[q]]

\* The helper is gone: what it held goes to init.
Orphaned(pr) ==
    [q \in Pid |-> IF pr[q].parent # HelperPid THEN pr[q]
                   ELSE IF pr[q].state = "zombie" THEN Freed(pr, q)
                   ELSE [pr[q] EXCEPT !.parent = InitPid]]

\* The root cannot run a program of its own before it passes the gate.
AtGate(p) == p = Root /\ proc[p].start = 1 /\ ~ executed

ForkChild(p) ==
    /\ proc[p].state = "live" /\ proc[p].kin /\ ~ proc[p].doomed /\ ~ AtGate(p)
    /\ used.forks < MaxForks
    /\ \E q \in Pid : /\ proc[q].state = "free"
                      /\ proc' = [proc EXCEPT ![q] = Born(NextStart, p, TRUE)]
    /\ Use("forks")
    /\ UNCHANGED <<gate, executed, h, inbox, outbox, s>>

\* A process ends: by itself, by a signal, or, at a gate that was closed, with 125.
Die(p) ==
    /\ proc[p].state = "live"
    /\ AtGate(p) => proc[p].doomed \/ gate = "closed"
    /\ proc' = Buried(proc, p)
    /\ UNCHANGED <<gate, executed, h, inbox, outbox, s, used>>

MustDie(p) == (proc[p].doomed \/ (AtGate(p) /\ gate = "closed")) /\ Die(p)

\* A parent in the tree waits for its child.
ParentWaits(p) ==
    /\ proc[p].state = "zombie" /\ proc[p].parent \in Pid
    /\ proc' = [proc EXCEPT ![p] = Freed(proc, p)]
    /\ UNCHANGED <<gate, executed, h, inbox, outbox, s, used>>

\* Somebody else's process takes a pid that the tree had; other births make no
\* difference to the helper.  It has no children of its own.  A process that takes the pid of the root
\* may be the root of another session of this driver: sessions is keyed by pid.
StrangerBorn(q) ==
    /\ proc[q].state = "free" /\ used.strangers < MaxStrangers
    /\ proc[q].kin
    /\ proc' = [proc EXCEPT ![q] = Born(NextStart, InitPid, FALSE)]
    /\ \/ UNCHANGED s
       \/ q = Root /\ s.pc = "held" /\ s' = [s EXCEPT !.held = "other"]
    /\ Use("strangers")
    /\ UNCHANGED <<gate, executed, h, inbox, outbox>>

\* The root read 'G': execvp.
PassGate ==
    /\ gate = "open" /\ ~ executed
    /\ RootIsOriginal /\ ~ proc[Root].doomed
    /\ executed' = TRUE
    /\ UNCHANGED <<proc, gate, h, inbox, outbox, s, used>>

-----------------------------------------------------------------------------
(* The helper *)

Send(line) == outbox' = IF HostUp THEN Append(outbox, line) ELSE outbox

\* Zombies that the helper is to wait for, and the root among them.
MyZombies == {p \in Pid : proc[p].state = "zombie" /\ proc[p].parent = HelperPid}
RootAmong == Root \in MyZombies

\* Mutant: a reaped root is not reported.
ReapSilently(hs) ==
    /\ proc' = [p \in Pid |-> IF p \in MyZombies THEN Freed(proc, p) ELSE proc[p]]
    /\ UNCHANGED outbox
    /\ h' = [hs EXCEPT !.rootReaped = @ \/ RootAmong]

reap_children(hs) ==
    /\ proc' = [p \in Pid |-> IF p \in MyZombies THEN Freed(proc, p) ELSE proc[p]]
    /\ IF RootAmong THEN Send("exit") ELSE UNCHANGED outbox
    /\ h' = [hs EXCEPT !.rootReaped = @ \/ RootAmong]

\* tree_empty() begins: it reaps, and opens /proc.
BeginScan(hs) ==
    reap_children([hs EXCEPT !.pc = "scan", !.cursor = 1, !.table = NoTable, !.todo = {}])

close_gate == gate' = IF gate = "shut" THEN "closed" ELSE gate

stop_tree(why) ==
    /\ close_gate
    /\ BeginScan([h EXCEPT !.why = why, !.sig = 1, !.rounds = 0, !.last = FALSE])

\* The helper forgets a scan or a stop that it is done with.
Rest(pc) ==
    [h EXCEPT !.pc = pc, !.why = "idle", !.sig = 1, !.rounds = 0, !.last = FALSE,
              !.cursor = 1, !.table = NoTable, !.todo = {}]

\* The top of the loop in main().
LoopStop ==
    /\ h.pc = "loop" /\ h.stopReq
    /\ stop_tree("signal")
    /\ UNCHANGED <<executed, inbox, s, used>>

LoopCheck ==
    /\ h.pc = "loop" /\ ~ h.stopReq /\ h.rootReaped
    /\ BeginScan([h EXCEPT !.why = "idle"])
    /\ UNCHANGED <<gate, executed, inbox, s, used>>

\* poll(): a signal, the control line, or the timeout once the root is reaped.
CtlReadable == inbox # <<>> \/ ~ HostUp

Poll ==
    /\ h.pc = "poll" \/ (h.pc = "loop" /\ ~ h.stopReq /\ ~ h.rootReaped)
    /\ MyZombies # {} \/ h.stopReq \/ CtlReadable \/ h.rootReaped
    /\ reap_children([h EXCEPT !.pc = IF CtlReadable THEN "read" ELSE "loop"])
    /\ UNCHANGED <<gate, executed, inbox, s, used>>

\* Between two lines of one read the helper does not return to the top of its loop.
AfterLine == {"loop"} \cup (IF Len(inbox) > 1 THEN {"read"} ELSE {})

HandleGate ==
    /\ h.pc = "read" /\ inbox # <<>> /\ Head(inbox) \in {"go", "abort"}
    /\ IF Head(inbox) = "abort" THEN close_gate
       ELSE gate' = IF gate = "shut" THEN "open" ELSE gate
    /\ inbox' = Tail(inbox)
    /\ \E pc \in AfterLine : h' = [h EXCEPT !.pc = pc]
    /\ UNCHANGED <<proc, executed, outbox, s, used>>

HandleStop ==
    /\ h.pc = "read" /\ inbox # <<>> /\ Head(inbox) = "stop"
    /\ inbox' = Tail(inbox)
    /\ stop_tree("command")
    /\ UNCHANGED <<executed, s, used>>

\* kill(root_pid, sig) while the root is not reaped; the program may ignore it.
HandleSignal ==
    /\ h.pc = "read" /\ inbox # <<>> /\ Head(inbox) = "signal"
    /\ inbox' = Tail(inbox)
    /\ \E pc \in AfterLine : h' = [h EXCEPT !.pc = pc]
    /\ \/ /\ ~ h.rootReaped /\ proc[Root].state = "live"
          /\ proc' = [proc EXCEPT ![Root].doomed = TRUE]
       \/ UNCHANGED proc
    /\ UNCHANGED <<gate, executed, outbox, s, used>>

\* read() says 0, or ECONNRESET over lines that the host left unread.
HandleEof ==
    /\ h.pc = "read" /\ ~ HostUp /\ (inbox = <<>> \/ outbox # <<>>)
    /\ stop_tree("eof")
    /\ UNCHANGED <<executed, inbox, s, used>>

\* list_procs: one /proc/<pid>/stat.
ReadStat ==
    /\ h.pc = "scan" /\ h.cursor \in Pid
    /\ LET e == proc[h.cursor]
       IN  h' = [h EXCEPT !.cursor = @ + 1,
                          !.table[h.cursor] = IF e.state = "free" THEN NoEntry
                                              ELSE [start |-> e.start, ppid |-> e.parent,
                                                    zombie |-> e.state = "zombie"]]
    /\ UNCHANGED <<proc, gate, executed, inbox, outbox, s, used>>

\* collect_tree: the closure of "child of the helper" over the table that was read.
Listed == {p \in Pid : h.table[p].start # 0}
Closed(in) == \A p \in Listed : h.table[p].ppid \in {HelperPid} \cup in => p \in in
InTree == {p \in Listed : \A in \in SUBSET Listed : Closed(in) => p \in in}
collect_tree == {<<p, h.table[p].start>> : p \in {q \in InTree : ~ h.table[q].zombie}}

\* Mutant: the scan alone says that the tree is empty.
ScanIsProof(tree) == tree = {}

\* tree_empty: nothing in the scan, and waitid answers ECHILD.
tree_empty(tree) ==
    /\ tree = {}
    /\ \A p \in Pid : proc[p].state # "free" => proc[p].parent # HelperPid

\* The helper leaves its loop.
LeaveLoop(line) ==
    /\ h' = Rest("gone")
    /\ proc' = Orphaned(proc)
    /\ IF line = "" THEN UNCHANGED outbox ELSE Send(line)

\* The scan is done and the tree is empty.
FoundEmpty ==
    /\ h.pc = "scan" /\ h.cursor = MaxPid + 1 /\ tree_empty(collect_tree)
    /\ LeaveLoop(CASE h.why = "idle" -> "empty" [] h.why = "eof" -> "" [] OTHER -> "stopped")
    /\ UNCHANGED <<gate, executed, inbox, s, used>>

\* It is not: wait on, signal what was found, or climb to the next signal.
FoundSome ==
    /\ h.pc = "scan" /\ h.cursor = MaxPid + 1 /\ ~ tree_empty(collect_tree)
    /\ \/ /\ h.why = "idle"
          /\ h' = Rest("poll")
          /\ UNCHANGED <<proc, outbox>>
       \/ /\ h.why # "idle" /\ ~ h.last
          /\ h' = [h EXCEPT !.pc = "kill", !.todo = collect_tree, !.table = NoTable, !.cursor = 1]
          /\ UNCHANGED <<proc, outbox>>
       \/ /\ h.why # "idle" /\ h.last /\ h.sig < 3
          /\ BeginScan([h EXCEPT !.sig = @ + 1, !.last = FALSE])
    /\ UNCHANGED <<gate, executed, inbox, s, used>>

\* SIGKILL for two seconds was not enough.  After a "stop" the helper stays.
LeaveResidual ==
    /\ h.pc = "scan" /\ h.cursor = MaxPid + 1 /\ ~ tree_empty(collect_tree)
    /\ h.why # "idle" /\ h.last /\ h.sig = 3
    /\ \/ /\ h.why = "command"
          /\ \E pc \in {"loop"} \cup (IF inbox # <<>> THEN {"read"} ELSE {}) :
               h' = Rest(pc)
          /\ Send("residual") /\ UNCHANGED proc
       \/ h.why = "signal" /\ LeaveLoop("residual")
       \/ h.why = "eof" /\ LeaveLoop("")
    /\ UNCHANGED <<gate, executed, inbox, s, used>>

\* Mutant: the pid is signalled, whoever has it now.
SamePid(p, start) == proc[p].state = "live"

SameProcess(p, start) == proc[p].state = "live" /\ proc[p].start = start

\* One safe_kill.  SIGINT and SIGTERM may be ignored, SIGKILL may not.
safe_kill ==
    /\ h.pc = "kill" /\ h.todo # {}
    /\ LET e == CHOOSE x \in h.todo : \A y \in h.todo : x[1] <= y[1]
       IN  /\ h' = [h EXCEPT !.todo = @ \ {e}]
           /\ \/ SameProcess(e[1], e[2]) /\ proc' = [proc EXCEPT ![e[1]].doomed = TRUE]
              \/ ~ SameProcess(e[1], e[2]) /\ UNCHANGED proc
              \/ SameProcess(e[1], e[2]) /\ h.sig < 3 /\ ~ AtGate(e[1]) /\ UNCHANGED proc
    /\ UNCHANGED <<gate, executed, inbox, outbox, s, used>>

\* now_ms() >= deadline: one last look.  SIGINT has no grace unless the host gave one.
Deadline ==
    /\ h.pc = "kill" /\ h.todo = {}
    /\ h.sig = 3 => h.rounds = KillRounds
    /\ BeginScan([h EXCEPT !.last = TRUE])
    /\ UNCHANGED <<gate, executed, inbox, s, used>>

NextRound ==
    /\ h.pc = "kill" /\ h.todo = {}
    /\ h.sig = 3 => h.rounds < KillRounds
    /\ h.sig = 1 => h.why = "command"
    /\ BeginScan([h EXCEPT !.rounds = IF h.sig = 3 THEN @ + 1 ELSE @])
    /\ UNCHANGED <<gate, executed, inbox, s, used>>

\* SIGTERM, SIGINT or SIGHUP to the helper.
HelperSignalled ==
    /\ HelperUp /\ ~ h.stopReq /\ used.faults < MaxFaults
    /\ h' = [h EXCEPT !.stopReq = TRUE]
    /\ Use("faults")
    /\ UNCHANGED <<proc, gate, executed, inbox, outbox, s>>

\* SIGKILL to the helper: its end of the gate pipe closes, and the control line with it.
HelperCrash ==
    /\ HelperUp /\ used.faults < MaxFaults
    /\ h' = [Rest("gone") EXCEPT !.crashed = TRUE]
    /\ proc' = Orphaned(proc)
    /\ close_gate
    /\ Use("faults")
    /\ UNCHANGED <<executed, inbox, outbox, s>>

-----------------------------------------------------------------------------
(* The driver *)

HostOnly == UNCHANGED <<proc, gate, executed, h>>

\* awaitSpawned: the first line, or the exit of the helper before it was read.
Spawned ==
    /\ s.pc = "spawning" /\ outbox # <<>>
    /\ outbox' = Tail(outbox)
    /\ s' = [s EXCEPT !.pc = "reading", !.held = "this"]
    /\ HostOnly /\ UNCHANGED <<inbox, used>>

SpawnRejected ==
    /\ s.pc = "spawning" /\ ~ HelperUp
    /\ s' = [s EXCEPT !.pc = "rejected"]
    /\ HostOnly /\ UNCHANGED <<inbox, outbox, used>>

\* rememberTerminal, in a session whose identity is known.
Remember(ss) == [ss EXCEPT !.terminal = @ \/ (ss.treeEmpty /\ ss.pc = "held")]

\* The boot id and the start time are read, the identity is made.  If the root is
\* gone by now there is no start time, or that of the next owner of its pid.
IdentityRead ==
    /\ s.pc = "reading"
    /\ s' = [s EXCEPT !.pc = "held", !.osStart = proc[Root].start,
                      !.terminal = s.treeEmpty /\ s.closed]
    /\ HostOnly /\ UNCHANGED <<inbox, outbox, used>>

\* releaseGate and destroyGate: the first call counts.
SettleGate(line) ==
    /\ s.pc = "held" /\ s.gate = "unsent"
    /\ s' = [s EXCEPT !.gate = line]
    /\ inbox' = IF s.closed THEN inbox ELSE Append(inbox, line)
    /\ HostOnly /\ UNCHANGED <<outbox, used>>

\* What the callers that wait for the tree hear.
SettleAnswer(ss) ==
    IF ~ ss.settling THEN ss
    ELSE LET said == CASE ss.treeEmpty -> "empty" [] ~ ss.treeEmpty /\ ss.helperLost -> "os_facts"
                       [] OTHER -> "residual"
         IN  [ss EXCEPT !.settling = FALSE, !.settleSaid = said,
                        !.terminal = @ \/ ss.treeEmpty,
                        !.held = IF ss.treeEmpty /\ @ = "this" THEN "none" ELSE @]

\* The rest of requestStop, on the line that answered it ("null": none did).
StopAnswer(ss, line) ==
    IF ~ ss.waiting THEN ss
    ELSE IF line = "stopped"
    THEN SettleAnswer([ss EXCEPT !.waiting = FALSE, !.stopSaid = "confirmed", !.treeEmpty = TRUE])
    ELSE [ss EXCEPT !.waiting = FALSE,
                    !.stopSaid = IF line = "null" /\ ss.treeEmpty THEN "confirmed" ELSE "undetermined"]

\* onLine
ReceiveLine ==
    /\ s.pc \in {"reading", "held"} /\ outbox # <<>>
    /\ outbox' = Tail(outbox)
    /\ s' = CASE Head(outbox) = "exit" -> [s EXCEPT !.rootExit = "facts"]
              [] Head(outbox) = "empty" -> SettleAnswer([s EXCEPT !.treeEmpty = TRUE])
              [] OTHER -> StopAnswer(s, Head(outbox))
    /\ HostOnly /\ UNCHANGED <<inbox, used>>

\* 'close' of the control line, after everything on it was read.
CtlClose ==
    /\ s.pc \in {"reading", "held"} /\ ~ s.closed /\ outbox = <<>> /\ ~ HelperUp
    /\ LET lost == [s EXCEPT !.closed = TRUE, !.helperLost = ~ s.treeEmpty]
           told == SettleAnswer(StopAnswer(lost, "null"))
       IN  s' = Remember([told EXCEPT !.held = IF @ = "this" THEN "none" ELSE @])
    /\ HostOnly /\ UNCHANGED <<inbox, outbox, used>>

\* The node driver's verifyIdentity, over the pid of the root.
verifyIdentity ==
    CASE proc[Root].state # "live" -> "not_original_process"
      [] proc[Root].state = "live" /\ s.osStart = 0 -> "cannot_determine"
      [] proc[Root].state = "live" /\ s.osStart = proc[Root].start -> "is_original_process"
      [] OTHER -> "not_original_process"

\* The helper is lost and the exit of the root was not heard of.
watchOrphanedRoot ==
    /\ s.pc = "held" /\ s.closed /\ s.rootExit = "none"
    /\ verifyIdentity = "not_original_process"
    /\ s' = [s EXCEPT !.rootExit = "unknown"]
    /\ HostOnly /\ UNCHANGED <<inbox, outbox, used>>

\* rawProcess.kill
Kill ==
    /\ s.pc = "held" /\ used.commands < MaxCommands
    /\ inbox' = IF s.closed THEN inbox ELSE Append(inbox, "signal")
    /\ Use("commands")
    /\ HostOnly /\ UNCHANGED <<outbox, s>>

\* terminate: a call that finds one in flight shares its answer.
terminate ==
    /\ s.pc = "held" /\ ~ s.waiting /\ used.commands < MaxCommands
    /\ \/ /\ s.terminal \/ (s.held = "this" /\ s.treeEmpty)
          /\ s' = [s EXCEPT !.stopSaid = "confirmed"] /\ UNCHANGED inbox
       \/ /\ ~ s.terminal /\ s.held # "this"
          /\ s' = [s EXCEPT !.stopSaid = IF s.held = "other" THEN "undetermined" ELSE "os_facts"]
          /\ UNCHANGED inbox
       \/ /\ ~ s.terminal /\ s.held = "this" /\ ~ s.treeEmpty
          /\ s' = [s EXCEPT !.waiting = TRUE, !.stopSaid = "none"]
          /\ inbox' = Append(inbox, "stop")
    /\ Use("commands")
    /\ HostOnly /\ UNCHANGED outbox

StopTimeout ==
    /\ s.pc = "held" /\ s.waiting /\ used.faults < MaxFaults
    /\ s' = [s EXCEPT !.waiting = FALSE,
                      !.stopSaid = IF s.treeEmpty THEN "confirmed" ELSE "undetermined"]
    /\ Use("faults")
    /\ HostOnly /\ UNCHANGED <<inbox, outbox>>

settleTree ==
    /\ s.pc = "held" /\ ~ s.settling /\ used.commands < MaxCommands
    /\ \/ /\ s.terminal
          /\ s' = [s EXCEPT !.settleSaid = "empty"]
       \/ /\ ~ s.terminal /\ s.held # "this"
          /\ s' = [s EXCEPT !.settleSaid = IF s.held = "other" THEN "unknown" ELSE "os_facts"]
       \/ /\ ~ s.terminal /\ s.held = "this"
          /\ s' = IF s.treeEmpty THEN SettleAnswer([s EXCEPT !.settling = TRUE])
                  ELSE [s EXCEPT !.settling = TRUE, !.settleSaid = "none"]
    /\ Use("commands")
    /\ HostOnly /\ UNCHANGED <<inbox, outbox>>

\* waitMs passed: the session stays for the stop that follows.
SettleTimeout ==
    /\ s.pc = "held" /\ s.settling
    /\ s' = SettleAnswer(s)
    /\ HostOnly /\ UNCHANGED <<inbox, outbox, used>>

\* The host process dies.
HostCrash ==
    /\ HostUp /\ used.faults < MaxFaults
    /\ s' = [s EXCEPT !.pc = "gone"]
    /\ Use("faults")
    /\ HostOnly /\ UNCHANGED <<inbox, outbox>>

-----------------------------------------------------------------------------
HelperStep ==
    \/ LoopStop \/ LoopCheck \/ Poll
    \/ HandleGate \/ HandleStop \/ HandleSignal \/ HandleEof
    \/ ReadStat \/ FoundEmpty \/ FoundSome \/ LeaveResidual
    \/ safe_kill \/ NextRound

HostStep == Spawned \/ SpawnRejected \/ IdentityRead \/ ReceiveLine \/ CtlClose \/ watchOrphanedRoot

CallerStep ==
    \/ \E line \in {"go", "abort"} : SettleGate(line)
    \/ Kill \/ terminate \/ StopTimeout \/ settleTree \/ SettleTimeout

ProgramStep ==
    \/ \E p \in Pid : ForkChild(p) \/ Die(p) \/ ParentWaits(p) \/ StrangerBorn(p)
    \/ PassGate

\* Nothing is left to happen.
Over ==
    /\ ~ HelperUp /\ LiveKin = {}
    /\ s.pc \in {"rejected", "gone"} \/ (s.pc = "held" /\ s.closed)
    /\ UNCHANGED treeVars

TreeNext ==
    \/ HelperStep \/ Deadline \/ HostStep \/ CallerStep \/ ProgramStep
    \/ HelperSignalled \/ HelperCrash \/ HostCrash \/ Over

\* The helper, the event loop of the host and the kernel go on; clocks reach a
\* deadline that is looked at again and again; a killed process dies.
TreeFairness ==
    /\ WF_treeVars(HelperStep)
    /\ SF_treeVars(Deadline)
    /\ WF_treeVars(HostStep)
    /\ \A p \in Pid : WF_treeVars(MustDie(p))

TreeSpec == TreeInit /\ [][TreeNext]_treeVars /\ TreeFairness

-----------------------------------------------------------------------------
\* "confirmed_stopped" of a subreaper_tree and the settlement "empty" are proofs:
\* no process of the tree lives, nor can one appear (settleTree, requestStop,
\* tree_empty).  Neither a /proc that changed under the scan, nor an answer to an
\* earlier stop, nor a lost helper, nor a recycled root pid makes them wrong.
EmptyIsTrue ==
    s.treeEmpty \/ s.terminal \/ s.stopSaid = "confirmed" \/ s.settleSaid = "empty" => LiveKin = {}

\* safe_kill and "signal" never hit a process that took over a pid of the tree,
\* however old the scan is that named it.
NoRecycledPid ==
    \A p \in Pid : proc[p].doomed => proc[p].kin

\* onRootExit is only settled for a root that is dead, also when the helper is
\* lost and its pid has a new owner (onLine, watchOrphanedRoot).
RootExitIsTrue == s.rootExit # "none" => ~ RootIsOriginal

\* The target program runs only if the host let it through the gate, whoever of
\* the two dies or stops first (run_child, close_gate, handle_command).
UnreleasedNeverRuns == executed => s.gate = "go"

\* A host that dies takes its tree with it, unless the helper was killed too.
HostGoneTreeGone == s.pc = "gone" ~> LiveKin = {} \/ h.crashed

\* A root that is dead is reported to a host that lives.  Left out: a root that died
\* before its start time was read and whose pid somebody took, after a lost helper.
RootExitTold ==
    (s.pc = "held" /\ ~ RootIsOriginal) ~>
        \/ s.rootExit # "none" \/ s.pc = "gone"
        \/ s.osStart # 1 /\ proc[Root].state = "live"

\* What the driver says of the tree and of its root is true.
AnswersAreTrue ==
    /\ TreeTypes
    /\ EmptyIsTrue
    /\ RootExitIsTrue

\* Only processes of the tree are signalled, and its command runs only if released.
OnlyOurTree ==
    /\ NoRecycledPid
    /\ UnreleasedNeverRuns

\* The tree does not outlive its host, and the exit of its root is told.
TreeEnds ==
    /\ HostGoneTreeGone
    /\ RootExitTold
=============================================================================
