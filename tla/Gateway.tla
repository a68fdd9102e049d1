------------------------------- MODULE Gateway -------------------------------
(***************************************************************************)
(* `xio wrap`: a harness whose model requests and shell commands both go   *)
(* through one host process (src/gateway/wire-proxy.ts, http304-cache.ts,  *)
(* shell-shim.ts, time-fork.ts).  The host answers a request from the      *)
(* cache of earlier turns or asks the upstream; it keeps a record of the   *)
(* tool call in flight in a file, so that the launch after a crash can     *)
(* tell the model about it; a watchdog outlives the host and marks that    *)
(* record.  The harness gives requests and tools up and retries.           *)
(*                                                                         *)
(* One file stands for the workspace, two tools for all: "read" (its       *)
(* output is the file) and "ls" (a discovery command).  A conversation is  *)
(* a sequence of [id, tool, res, acc]: a call and its result, acc when an  *)
(* account of a crash was put into it.  A handler runs in the steps that   *)
(* the code's awaits leave: everything between two awaits is one step.     *)
(***************************************************************************)
EXTENDS Integers, Sequences, SequencesExt, FiniteSets

CONSTANTS MaxRequests,  \* main requests of all the launches
          MaxAnswers,   \* answers of the upstream
          MaxExecs,     \* shell commands that reach the host
          MaxTroubles,  \* crashes, edits by others, requests and tools given up or failed
          MaxLaunches

ASSUME GatewayAssumption ==
    {MaxRequests, MaxAnswers, MaxExecs, MaxTroubles, MaxLaunches} \subseteq Nat

FileContents == {"none", "v1", "v1c", "v2"}      \* "v1c" is "v1" with another comment
Sem == [none |-> "none", v1 |-> "a", v1c |-> "a", v2 |-> "b"]

\* Calls are numbered as the upstream makes them.
NoCall == 0
OwnCommand == -1                             \* the id of a command no call asked for
NoRes == "no result"
NoAnswer == [id |-> NoCall, tool |-> "text"]
Unstamped == "unstamped"

Requests == 1..MaxRequests
Execs == 1..MaxExecs
Tools == {"read", "ls"}

CallsOf(conv) == [i \in DOMAIN conv |-> <<conv[i].id, conv[i].tool>>]

VARIABLES file,     \* the content of the file
          host,     \* "down" | "up"
          harness,  \* [ph, conv, req, ans, exec]
          proxy,     \* the memory of the proxy and of its cache
          stored,     \* gateway-state.json, http304-cache.json and the trace of the run
          req,      \* the handlers of main requests
          exec,     \* the handlers of shell commands
          marks,    \* a watchdog has seen its host die and not yet marked the record
          used,     \* what has been used of the bounds
          owed,     \* ghost: ids of which one must be accounted for at the next launch
          rewritten,\* ghost: a command of this launch has written the record
          answers   \* ghost: what the upstream answered, to what, over which file

gatewayVars == <<file, host, harness, proxy, stored, req, exec, marks, used, owed, rewritten, answers>>

FreeReq == [pc |-> "free", conv |-> <<>>, turn |-> 0, ans |-> NoAnswer, ok |-> FALSE, gone |-> FALSE]
FreeExec == [pc |-> "free", id |-> NoCall, rec |-> NoCall, tool |-> "read", out |-> NoRes,
             turn |-> 0, client |-> FALSE, alone |-> FALSE]
Ended(how) == [FreeReq EXCEPT !.pc = how]
OffHarness == [ph |-> "off", conv |-> <<>>, req |-> 0, ans |-> NoAnswer, exec |-> 0]
EmptyProxy == [turnOf |-> [c \in {} |-> 0], cursor |-> 0, active |-> NoCall, pending |-> NoCall,
              observed |-> FALSE, disc |-> <<>>, turns |-> <<>>, limit |-> 0, old |-> <<>>]

GatewayInit ==
    /\ file = "v1"
    /\ host = "down"
    /\ harness = OffHarness
    /\ proxy = EmptyProxy
    /\ stored = [inFlight |-> NoCall, interrupted |-> NoCall, entries |-> <<>>, trace |-> <<>>]
    /\ req = [r \in Requests |-> FreeReq]
    /\ exec = [x \in Execs |-> FreeExec]
    /\ marks = FALSE
    /\ used = [requests |-> 0, answers |-> 0, execs |-> 0, troubles |-> 0, launches |-> 0]
    /\ owed = {}
    /\ rewritten = FALSE
    /\ answers = {}

\* One of the things that happen at any time, and seldom.
TroubleIf(b) == used.troubles + (IF b THEN 1 ELSE 0) <= MaxTroubles
Count(b) == used.troubles + (IF b THEN 1 ELSE 0)
Trouble == TroubleIf(TRUE) /\ used' = [used EXCEPT !.troubles = Count(TRUE)]

(***************************************************************************)
(* The record of the tool in flight                                        *)
(***************************************************************************)
\* Mutant: only what a watchdog has marked counts.
readMarkedOnly(d) == d.interrupted

readGatewayInterruptedTool(d) ==
    IF d.interrupted # NoCall THEN d.interrupted ELSE d.inFlight

\* Every write names one call or none, and forgets what was interrupted.
writeGatewayInFlightTool(d, id) == [d EXCEPT !.inFlight = id, !.interrupted = NoCall]

\* A command is no longer sure of its record once somebody else has written it.
OthersWrite(id, but) ==
    [x \in Execs |-> [exec[x] EXCEPT !.alone = @ /\ (x = but \/ exec[x].id = id)]]

(***************************************************************************)
(* The cache of turns.  An entry is [turn, conv, stamp, disc, ans]: disc   *)
(* are the outputs of discovery commands it was recorded with.             *)
(***************************************************************************)
FirstEntry(hits) ==
    IF hits = {} THEN <<>> ELSE <<stored.entries[CHOOSE i \in hits : \A j \in hits : i <= j]>>

\* addFile: a path that a call of the conversation names, if the file is there
extractFiles(conv) == file # "none" /\ \E i \in DOMAIN conv : conv[i].tool = "read"

\* By turn and conversation, by the conversation, or by turn and calls.
Candidate(turn, conv) ==
    LET e == stored.entries
        digest == {i \in DOMAIN e : e[i].conv = conv}
        same == {i \in digest : e[i].turn = turn}
        signature == {i \in DOMAIN e : /\ conv # <<>>
                                       /\ e[i].turn = turn
                                       /\ e[i].stamp # Unstamped
                                       /\ CallsOf(e[i].conv) = CallsOf(conv)}
    IN  FirstEntry(IF same # {} THEN same ELSE IF digest # {} THEN digest ELSE signature)

\* Mutant: a stamp that differs does not make an entry stale.
StaleNever(e) == FALSE

\* The file differs, and not only in what the early cutoff leaves out.
Stale(e) ==
    /\ e.stamp # Unstamped
    /\ file # e.stamp
    /\ ~(file # "none" /\ Sem[file] = Sem[e.stamp])

\* computeDiscoverySetCutoff: an entry of the listing is gone
EntriesRemoved(e) ==
    /\ proxy.disc # <<>>
    /\ "listed" \in e.disc
    /\ Last(proxy.disc).out = "empty"

\* A fork's adapter answers the turns before its step by their place in the
\* old trace, and caches nothing.
forkLookup(turn) == IF turn < proxy.limit THEN <<proxy.old[turn + 1]>> ELSE <<>>

\* Gives the sequence of the one answer that is served, or the empty one.
lookup(turn, conv) ==
    IF proxy.old # <<>> THEN forkLookup(turn)
    ELSE LET c == Candidate(turn, conv)
         IN  IF c = <<>> THEN <<>>
             ELSE IF Stale(c[1]) \/ EntriesRemoved(c[1]) THEN <<>>
             ELSE <<[ans |-> c[1].ans, ok |-> TRUE]>>

\* Stamps are taken now, of every file this session has observed.
recordTurn(turn, conv, ans) ==
    LET seen == proxy.observed \/ extractFiles(conv) \/ (ans.tool = "read")
        entry == [turn |-> turn, conv |-> conv, ans |-> ans,
                  stamp |-> IF seen THEN file ELSE Unstamped,
                  disc |-> {d.out : d \in {e \in ToSet(proxy.disc) : e.turn <= turn}}]
        at == {i \in DOMAIN stored.entries :
                  stored.entries[i].turn = turn /\ stored.entries[i].conv = conv}
    IN  [observed |-> seen,
         entries |-> IF at = {} THEN Append(stored.entries, entry)
                     ELSE [stored.entries EXCEPT ![CHOOSE i \in at : TRUE] = entry]]

\* What a command read is stamped now, in the first entry of its turn.
recordToolExecution(x) ==
    LET read == x.tool = "read" /\ x.out # NoRes
        listing == IF x.out = NoRes THEN "empty" ELSE x.out
        at == {i \in DOMAIN stored.entries : stored.entries[i].turn = x.turn}
        first == CHOOSE i \in at : \A j \in at : i <= j
        touched(e) == [e EXCEPT !.stamp = IF read /\ @ = Unstamped THEN file ELSE @,
                                !.disc = IF x.tool = "ls" /\ @ = {} THEN {listing} ELSE @]
    IN  [observed |-> proxy.observed \/ read,
         disc |-> IF x.tool = "ls" THEN Append(proxy.disc, [turn |-> x.turn, out |-> listing])
                  ELSE proxy.disc,
         entries |-> IF at = {} THEN stored.entries
                     ELSE [stored.entries EXCEPT ![first] = touched(@)]]

(***************************************************************************)
(* Launches                                                                *)
(***************************************************************************)
\* The harness starts over, or resumes its conversation, which then ends with
\* the call that has no result.
Resumed ==
    IF harness.ans = NoAnswer THEN harness.conv
    ELSE Append(harness.conv, [id |-> harness.ans.id, tool |-> harness.ans.tool,
                               res |-> NoRes, acc |-> FALSE])

Start(conv, limit, old) ==
    /\ host = "down"
    /\ used.launches < MaxLaunches
    /\ used' = [used EXCEPT !.launches = @ + 1]
    /\ host' = "up"
    /\ harness' = [OffHarness EXCEPT !.ph = "idle", !.conv = conv]
    /\ proxy' = [EmptyProxy EXCEPT !.pending = readGatewayInterruptedTool(stored),
                                 !.limit = limit, !.old = old]
    /\ rewritten' = FALSE
    /\ UNCHANGED <<file, stored, req, exec, marks, owed, answers>>

wrapAgent == \E conv \in {<<>>, Resumed} : Start(conv, 0, <<>>)

\* The steps of the last run, in the order in which its turns were kept.
traceGatewayRun == stored.trace

\* The turns before step n are served from the trace of the run.
forkGatewayRunAtStep == \E n \in DOMAIN traceGatewayRun : Start(<<>>, n - 1, traceGatewayRun)

\* The host is killed; its watchdog will kill the harness and the tools.
HostCrashes ==
    LET running == {x \in Execs : exec[x].pc # "free" /\ exec[x].client /\ exec[x].alone}
    IN  /\ host = "up"
        /\ Trouble
        /\ host' = "down"
        /\ marks' = TRUE
        /\ harness' = [harness EXCEPT !.ph = "off", !.req = 0, !.exec = 0]
        /\ proxy' = EmptyProxy
        /\ req' = [r \in Requests |-> FreeReq]
        /\ exec' = [x \in Execs |-> FreeExec]
        /\ owed' = IF running # {} THEN UNION {{exec[x].id, exec[x].rec} : x \in running}
                   ELSE IF rewritten THEN {} ELSE owed
        /\ UNCHANGED <<file, stored, rewritten, answers>>

MarkedRecord(d) ==
    IF d.inFlight # NoCall /\ d.interrupted = NoCall
    THEN [d EXCEPT !.interrupted = d.inFlight, !.inFlight = NoCall] ELSE d

\* The watchdog may be late: the next launch may be under way already.
markInterruptedIfNeeded ==
    /\ marks
    /\ marks' = FALSE
    /\ stored' = MarkedRecord(stored)
    /\ UNCHANGED <<file, host, harness, proxy, req, exec, used, owed, rewritten, answers>>

\* What an exit does besides ending the commands that run.
Exits ==
    /\ host = "up"
    /\ \/ harness.ph = "done" /\ UNCHANGED used
       \/ harness.ph = "idle" /\ Trouble
    /\ host' = "down"
    /\ harness' = [harness EXCEPT !.ph = "off", !.ans = NoAnswer]
    /\ stored' = writeGatewayInFlightTool(stored, NoCall)
    /\ proxy' = EmptyProxy
    /\ req' = [r \in Requests |-> FreeReq]
    /\ owed' = {}
    /\ UNCHANGED <<file, marks, rewritten, answers>>

\* The harness ends: tools are stopped, the record is cleared, the watchdog told.
CleanExit == Exits /\ exec' = [x \in Execs |-> FreeExec]

(***************************************************************************)
(* Main requests                                                           *)
(***************************************************************************)
\* cancelActiveTools: whatever runs is told to stop; its handler then returns.
Cancelled == [x \in Execs |-> IF exec[x].pc = "run" THEN [exec[x] EXCEPT !.pc = "stopping"]
                              ELSE exec[x]]

Send ==
    LET r == used.requests + 1
    IN  /\ harness.ph = "idle"
        /\ r \in Requests
        /\ used' = [used EXCEPT !.requests = r]
        /\ harness' = [harness EXCEPT !.ph = "wait", !.req = r, !.ans = NoAnswer]
        /\ req' = [req EXCEPT ![r] = [FreeReq EXCEPT !.pc = "arrived", !.conv = harness.conv]]
        /\ UNCHANGED <<file, host, proxy, stored, exec, marks, owed, rewritten, answers>>

\* The harness closes the connection and may send the same again.
GiveUpRequest ==
    /\ harness.ph = "wait"
    /\ Trouble
    /\ harness' = [harness EXCEPT !.ph = "idle", !.req = 0]
    /\ req' = [req EXCEPT ![harness.req].gone = TRUE]
    /\ UNCHANGED <<file, host, proxy, stored, exec, marks, owed, rewritten, answers>>

\* The harness has what it wants and closes before the stream ends.
CloseEarly(r) ==
    /\ req[r].pc = "streamed"
    /\ ~req[r].gone
    /\ Trouble
    /\ req' = [req EXCEPT ![r].gone = TRUE]
    /\ UNCHANGED <<file, host, harness, proxy, stored, exec, marks, owed, rewritten, answers>>

onBeforeMainRequest(r) ==
    /\ req[r].pc = "arrived"
    /\ req' = [req EXCEPT ![r].pc = "settled"]
    /\ exec' = Cancelled
    /\ UNCHANGED <<file, host, harness, proxy, stored, marks, used, owed, rewritten, answers>>

\* injectInterruptedToolAccount: a call that the conversation does not have is
\* put in with its account (the record keeps the id only: taken for a read).
Injected(conv, id) ==
    LET at == {i \in DOMAIN conv : conv[i].id = id}
    IN  IF id = NoCall THEN conv
        ELSE IF at = {} THEN InsertAt(conv, IF conv = <<>> THEN 1 ELSE Len(conv),
                                      [id |-> id, tool |-> "read", res |-> "account", acc |-> TRUE])
        ELSE [i \in DOMAIN conv |->
                 IF i \notin at THEN conv[i]
                 ELSE [conv[i] EXCEPT !.res = IF @ = NoRes THEN "account" ELSE @, !.acc = TRUE]]

Reports(conv, id) == \E i \in DOMAIN conv : conv[i].id = id /\ conv[i].res # NoRes

\* From the cancelled tools to the snapshot of the turn.
AdmitTurn(r) ==
    LET conv == Injected(req[r].conv, proxy.pending)
        reported == proxy.active # NoCall /\ Reports(req[r].conv, proxy.active)
        replay == conv \in DOMAIN proxy.turnOf
        turn == IF replay THEN proxy.turnOf[conv] ELSE proxy.cursor
    IN  /\ req[r].pc = "settled"
        /\ req' = [req EXCEPT ![r].pc = "admitted", ![r].conv = conv, ![r].turn = turn]
        /\ proxy' = [proxy EXCEPT
                      !.active = IF reported THEN NoCall ELSE @,
                      !.pending = NoCall,
                      !.cursor = IF replay THEN @ ELSE @ + 1,
                      !.turnOf = [c \in (DOMAIN @) \cup {conv} |-> IF c = conv THEN turn ELSE @[c]]]
        /\ IF reported \/ proxy.pending # NoCall
           THEN /\ stored' = writeGatewayInFlightTool(stored, NoCall)
                /\ exec' = OthersWrite(NoCall, 0)
           ELSE UNCHANGED <<stored, exec>>
        /\ owed' = {}
        /\ UNCHANGED <<file, host, harness, marks, used, rewritten, answers>>

\* What the harness makes of an answer: a call to run, an end, or a failure to retry.
Receives(r, ans, ok) ==
    harness' = IF req[r].gone THEN harness
               ELSE IF ~ok THEN [harness EXCEPT !.ph = "idle", !.req = 0]
               ELSE IF ans.tool = "text" THEN [harness EXCEPT !.ph = "done", !.req = 0]
               ELSE [harness EXCEPT !.ph = "call", !.req = 0, !.ans = ans]

FirstCall(ans, ok) == IF ok /\ ans.tool # "text" THEN ans.id ELSE NoCall

\* The call of an answer becomes the active one; the record only changes if there is one.
NoteCall(id, d) == IF id = NoCall THEN d ELSE writeGatewayInFlightTool(d, id)

Hit(r) ==
    /\ req[r].pc = "admitted"
    /\ \E c \in ToSet(lookup(req[r].turn, req[r].conv)) :
        /\ req' = [req EXCEPT ![r] = Ended("hit")]
        /\ Receives(r, c.ans, c.ok)
        /\ proxy' = [proxy EXCEPT
                      !.observed = @ \/ extractFiles(req[r].conv),
                      !.active = FirstCall(c.ans, c.ok),
                      !.turns = Append(@, [turn |-> req[r].turn, ans |-> c.ans, ok |-> c.ok])]
        /\ stored' = [NoteCall(FirstCall(c.ans, c.ok), stored) EXCEPT !.trace = proxy'.turns]
        /\ exec' = IF FirstCall(c.ans, c.ok) = NoCall THEN exec
                   ELSE OthersWrite(FirstCall(c.ans, c.ok), 0)
    /\ UNCHANGED <<file, host, marks, used, owed, rewritten, answers>>

Miss(r) ==
    /\ req[r].pc = "admitted"
    /\ lookup(req[r].turn, req[r].conv) = <<>>
    /\ req' = [req EXCEPT ![r].pc = "upstream"]
    /\ proxy' = [proxy EXCEPT !.observed = @ \/ extractFiles(req[r].conv)]
    /\ UNCHANGED <<file, host, harness, stored, exec, marks, used, owed, rewritten, answers>>

\* The bytes of an answer have reached the harness; the stream is still open.
forwardToUpstream(r) ==
    /\ req[r].pc = "upstream"
    /\ ~req[r].gone
    /\ used.answers < MaxAnswers
    /\ \E tool \in Tools \cup {"text"}, ok \in BOOLEAN :
        LET ans == [id |-> used.answers + 1, tool |-> tool]
        IN  /\ ok \/ tool = "text"
            /\ TroubleIf(~ok)
            /\ used' = [used EXCEPT !.answers = @ + 1, !.troubles = Count(~ok)]
            /\ req' = [req EXCEPT ![r].pc = "streamed", ![r].ans = ans, ![r].ok = ok]
            /\ Receives(r, ans, ok)
    /\ UNCHANGED <<file, host, proxy, stored, exec, marks, owed, rewritten, answers>>

\* The fetch is aborted when the client is gone, or the upstream cannot be reached.
RequestFails(r) ==
    /\ \/ req[r].pc \in {"upstream", "streamed"} /\ req[r].gone /\ UNCHANGED used
       \/ req[r].pc = "upstream" /\ ~req[r].gone /\ used.answers < MaxAnswers /\ Trouble
       \/ /\ req[r].pc = "upstream" /\ ~req[r].gone
          /\ used.answers = MaxAnswers /\ UNCHANGED used      \* the upstream is down for good
    /\ req' = [req EXCEPT ![r] = Ended("failed")]
    /\ harness' = IF req[r].gone THEN harness
                  ELSE [harness EXCEPT !.ph = "idle", !.req = 0]
    /\ UNCHANGED <<file, host, proxy, stored, exec, marks, owed, rewritten, answers>>

\* The stream has ended: the call is noted, a good answer recorded, the turn kept.
TurnCompleted(r) ==
    LET id == FirstCall(req[r].ans, req[r].ok)
        rec == recordTurn(req[r].turn, req[r].conv, req[r].ans)
        noted == NoteCall(id, stored)
        turns == Append(proxy.turns, [turn |-> req[r].turn, ans |-> req[r].ans, ok |-> req[r].ok])
    IN  /\ req[r].pc = "streamed"
        /\ ~req[r].gone
        /\ req' = [req EXCEPT ![r] = Ended("over")]
        /\ proxy' = [proxy EXCEPT !.active = id, !.turns = turns,
                                !.observed = IF req[r].ok /\ proxy.old = <<>> THEN rec.observed ELSE @]
        /\ stored' = [noted EXCEPT !.trace = turns,
                                 !.entries = IF req[r].ok /\ proxy.old = <<>> THEN rec.entries ELSE @]
        /\ exec' = IF id = NoCall THEN exec ELSE OthersWrite(id, 0)
        /\ answers' = IF ~req[r].ok THEN answers ELSE answers \cup
              {[conv |-> req[r].conv, ans |-> req[r].ans,
                over |-> IF extractFiles(req[r].conv) THEN file ELSE "unknown"]}
        /\ UNCHANGED <<file, host, harness, marks, used, owed, rewritten>>

(***************************************************************************)
(* Shell commands                                                          *)
(***************************************************************************)
\* currentTurnIndex: the turn recorded last, whichever that is by now
CurrentTurn == IF proxy.turns = <<>> THEN 0 ELSE Last(proxy.turns).turn

\* The harness runs the tool of the answer, or a command of its own.
onShellExec ==
    LET x == used.execs + 1
        rec == IF proxy.active = NoCall THEN OwnCommand ELSE proxy.active
        own == harness.ph = "idle"
    IN  /\ harness.ph \in {"call", "idle"}
        /\ x \in Execs
        /\ TroubleIf(own)
        /\ used' = [used EXCEPT !.execs = x, !.troubles = Count(own)]
        /\ harness' = [harness EXCEPT !.ph = "tool", !.exec = x]
        /\ stored' = writeGatewayInFlightTool(stored, rec)
        /\ exec' = [OthersWrite(rec, 0) EXCEPT ![x] =
                      [FreeExec EXCEPT !.pc = "run", !.client = TRUE, !.alone = TRUE,
                                       !.id = IF own THEN OwnCommand ELSE harness.ans.id,
                                       !.tool = IF own THEN "ls" ELSE harness.ans.tool,
                                       !.rec = rec, !.turn = CurrentTurn]]
        /\ rewritten' = TRUE
        /\ UNCHANGED <<file, host, proxy, req, marks, owed, answers>>

\* The command looks at the workspace.
CommandReads(x) ==
    /\ exec[x].pc = "run"
    /\ exec[x].out = NoRes
    /\ exec' = [exec EXCEPT ![x].out = IF exec[x].tool = "read" THEN file
                                       ELSE IF file = "none" THEN "empty" ELSE "listed"]
    /\ UNCHANGED <<file, host, harness, proxy, stored, req, marks, used, owed, rewritten, answers>>

ToolResult(x, res) ==
    IF ~exec[x].client THEN harness
    ELSE IF exec[x].id = OwnCommand THEN [harness EXCEPT !.ph = "idle", !.exec = 0]
    ELSE [harness EXCEPT !.ph = "idle", !.exec = 0, !.ans = NoAnswer,
                         !.conv = Append(@, [id |-> exec[x].id, tool |-> exec[x].tool,
                                             res |-> IF res = NoRes THEN "cut" ELSE res,
                                             acc |-> FALSE])]

\* The turns of a fork before its step are not run again: their output is the old one.
FromTape(x) == exec[x].turn < proxy.limit

ExecReturns(x) ==
    LET done == recordToolExecution(exec[x])
        cleared == writeGatewayInFlightTool(stored, NoCall)
    IN  /\ \/ exec[x].pc = "run" /\ (exec[x].out # NoRes \/ FromTape(x))
           \/ exec[x].pc = "stopping"
        /\ exec' = [OthersWrite(NoCall, x) EXCEPT ![x] = FreeExec]
        /\ harness' = ToolResult(x, exec[x].out)
        /\ IF proxy.old # <<>>
           THEN stored' = cleared /\ UNCHANGED proxy
           ELSE /\ stored' = [cleared EXCEPT !.entries = done.entries]
                /\ proxy' = [proxy EXCEPT !.observed = done.observed, !.disc = done.disc]
        /\ UNCHANGED <<file, host, req, marks, used, owed, rewritten, answers>>

\* The handler throws: 500 for the harness, and the record stays.
ExecThrows(x) ==
    /\ exec[x].pc = "run"
    /\ Trouble
    /\ exec' = [exec EXCEPT ![x] = FreeExec]
    /\ harness' = ToolResult(x, "error")
    /\ UNCHANGED <<file, host, proxy, stored, req, marks, owed, rewritten, answers>>

\* The harness's own timer: it reports a result of its own, and the connection
\* that closes has everything that runs stopped.
GiveUpTool ==
    LET x == harness.exec
    IN  /\ harness.ph = "tool"
        /\ exec[x].id # OwnCommand
        /\ Trouble
        /\ harness' = ToolResult(x, "timeout")
        /\ exec' = [Cancelled EXCEPT ![x].client = FALSE]
        /\ UNCHANGED <<file, host, proxy, stored, req, marks, owed, rewritten, answers>>

Edit ==
    /\ Trouble
    /\ \E c \in FileContents \ {file} : file' = c
    /\ UNCHANGED <<host, harness, proxy, stored, req, exec, marks, owed, rewritten, answers>>

Step(r) == \/ onBeforeMainRequest(r) \/ AdmitTurn(r) \/ Hit(r) \/ Miss(r)
           \/ forwardToUpstream(r) \/ RequestFails(r) \/ TurnCompleted(r)

GatewayNext ==
    \/ wrapAgent \/ forkGatewayRunAtStep \/ HostCrashes \/ markInterruptedIfNeeded \/ CleanExit
    \/ Send \/ GiveUpRequest \/ onShellExec \/ GiveUpTool \/ Edit
    \/ \E r \in Requests : Step(r) \/ CloseEarly(r)
    \/ \E x \in Execs : CommandReads(x) \/ ExecReturns(x) \/ ExecThrows(x)

GatewaySpec == GatewayInit /\ [][GatewayNext]_gatewayVars

(***************************************************************************)
(* Properties                                                              *)
(***************************************************************************)
GatewayTypes ==
    /\ file \in FileContents
    /\ host \in {"down", "up"}
    /\ harness.ph \in {"off", "idle", "wait", "call", "tool", "done"}
    /\ \A r \in Requests : req[r].pc \in {"free", "arrived", "settled", "admitted", "upstream",
                                          "streamed", "hit", "failed", "over"}
    /\ \A x \in Execs : exec[x].pc \in {"free", "run", "stopping"}
    /\ host = "down" => proxy = EmptyProxy /\ harness.ph = "off"
    /\ harness.ph = "off" => \A x \in Execs : exec[x].pc = "free"

\* A launch that dies while a command runs, whose record nobody else has
\* written since, is accounted for: the first request the next launch takes
\* up carries an account of that call, whether the watchdog has marked the
\* record before, after or not at all, and however many launches die before
\* they take a request up or run a command.
CrashedToolAccounted ==
    [][\A r \in Requests :
          req[r].pc = "settled" /\ req'[r].pc = "admitted" /\ owed # {} =>
              \E i \in DOMAIN req'[r].conv : req'[r].conv[i].acc /\ req'[r].conv[i].id \in owed]_gatewayVars

\* An answer from the cache is one the upstream gave to a request with the
\* same calls, and the file those calls name means what it meant when that
\* answer was recorded.
HitIsFresh ==
    [][\A r \in Requests :
          req[r].pc = "admitted" /\ req'[r].pc = "hit" /\ req[r].turn >= proxy.limit =>
              \E a \in answers :
                  /\ a.ans = Last(proxy'.turns).ans
                  /\ CallsOf(a.conv) = CallsOf(req[r].conv)
                  /\ a.over = "unknown" \/ Sem[a.over] = Sem[file]]_gatewayVars

\* A fork at step n asks the upstream nothing for the steps before n.
ForkAsksNothing == \A r \in Requests : req[r].pc = "upstream" => req[r].turn >= proxy.limit

\* What is answered without the upstream is what the upstream would be asked
\* for again: a hit is fresh, and the prefix of a fork comes from the tape.
ReplayIsTrue ==
    /\ []GatewayTypes
    /\ []ForkAsksNothing
    /\ HitIsFresh
=============================================================================
