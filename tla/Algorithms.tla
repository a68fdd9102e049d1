----------------------------- MODULE Algorithms -----------------------------
(***************************************************************************)
(* The pure functions of the code, each against a reference definition     *)
(* over all small inputs.  A behaviour takes one input and computes one    *)
(* output.                                                                 *)
(***************************************************************************)
EXTENDS WireProtocols, Capabilities, IsaPrograms, IsaCodec, CausalGraph, ProcessScans,
        WorkspaceRecovery

CONSTANTS
    MaxOps,         \* writer operations of a streamed answer
    MaxRounds       \* rounds of tool calls in a conversation

ASSUME BoundsAssumption ==
    /\ MaxOps \in Nat /\ MaxRounds \in Nat
    /\ MAX_CBOR_DEPTH \in Nat /\ MAX_CBOR_COLLECTION_LENGTH \in Nat /\ MaxSpread \in Nat

VARIABLES input, output

vars == <<input, output>>

SeqsUpTo(S, n) == UNION {[1..k -> S] : k \in 0..n}

(***************************************************************************)
(* Streams, cut after any frame                                            *)
(***************************************************************************)
Ops == {Text(<<"a">>), Text(<<"b">>),
        Call([id |-> "c1", name |-> "bash", args |-> "ls"]),
        Call([id |-> "c2", name |-> "bash", args |-> "rm"]),
        Call([id |-> "c3", name |-> "read", args |-> NoArgs])}

Answers1 == {ops \in SeqsUpTo(Ops, MaxOps) :
               \A i, j \in 1..Len(ops) : ops[i].op = "call" /\ ops[i] = ops[j] => i = j}

Streams == {s \in [kind : {"stream"}, wire : Wires, ops : Answers1, cut : 0..6 * MaxOps + 3] :
              s.cut <= Len(openWireStream(s.wire, s.ops))}

(***************************************************************************)
(* Conversations of a harness that resumes: rounds of calls, some of them  *)
(* without a result, in the layout of the protocol, ending with a prompt   *)
(* or with the results of the last round.                                  *)
(***************************************************************************)
Part(k, id, name, text) == [k |-> k, id |-> id, name |-> name, text |-> text, str |-> TRUE]
Message(role, parts) == [role |-> role, parts |-> parts]

CallId(r, n) == IF n = 1 THEN <<"x", r>> ELSE <<"y", r>>

\* A round is the set of its calls that have a result, of n calls.
Rounds == {r \in [n : 1..2, done : SUBSET {1, 2}] : \A i \in r.done : i <= r.n}

Grouped(wire) == wire \in {"anthropic", "gemini"}

RenderRound(wire, r, nr) ==
    LET calls == [i \in 1..r.n |-> Part("call", CallId(nr, i), "bash", <<>>)]
        results == [i \in 1..Cardinality(r.done) |->
                       LET c == SetToSortSeq(r.done, <)[i]
                       IN  Part("result", CallId(nr, c), "bash", <<"out">>)]
        asks == IF wire = "responses" THEN [i \in 1..r.n |-> Message("assistant", <<calls[i]>>)]
                ELSE <<Message("assistant", calls)>>
        gives == IF results = <<>> THEN <<>>
                 ELSE IF Grouped(wire) THEN <<Message("user", results)>>
                 ELSE [i \in 1..Len(results) |-> Message("tool", <<results[i]>>)]
    IN  asks \o gives

Prompt == Message("user", <<Part("text", Absent, Absent, <<"prompt">>)>>)

Render(wire, rounds, prompted) ==
    [tools |-> <<[name |-> "bash", shell |-> TRUE, command |-> "command", function |-> TRUE]>>,
     msgs |-> <<Prompt>> \o FlattenSeq([i \in 1..Len(rounds) |-> RenderRound(wire, rounds[i], i)])
              \o (IF prompted THEN <<Prompt>> ELSE <<>>)]

\* The request ends with a prompt, or with a result.
Resumes ==
    {s \in [kind : {"resume"}, wire : Wires, rounds : SeqsUpTo(Rounds, MaxRounds),
            prompted : BOOLEAN, call : {CallId(r, n) : r \in 1..MaxRounds, n \in 1..2}] :
       s.prompted \/ (s.rounds # <<>> /\ Last(s.rounds).done # {})}

Interrupted(s) == [callId |-> s.call, name |-> "bash"]

(***************************************************************************)
(* Chains of capabilities: a root, two attenuations at times 1 and 2, some *)
(* of them revoked, and a request at some time and epoch, while operations *)
(* run under each of the capabilities.  The dimensions of a scope are      *)
(* varied one at a time: the code treats them apart.                       *)
(***************************************************************************)
Optional(S) == {<<>>} \cup {<<x>> : x \in S}

NoScope == [write |-> <<>>, exclusive |-> <<>>, opcodes |-> <<>>, workspaces |-> <<>>,
            paths |-> <<>>, secrets |-> <<>>]
NoLimits == [k \in {} |-> 0]
Issue(scope, limits, ttl) == [scope |-> scope, limits |-> limits, ttl |-> ttl, policy |-> "p1"]

NoAsk == [policy |-> <<>>, opcode |-> <<>>, workspace |-> <<>>, secrets |-> {}, limits |-> NoLimits,
          resources |-> {}, roots |-> {}]

Busy == {b \in [ops : 0..1, processes : 0..1] : b.processes <= b.ops}
NoneBusy == [i \in 1..3 |-> [ops |-> 0, processes |-> 0]]

Chain(reqs, ask) == [kind |-> "chain", reqs |-> reqs, ask |-> ask, revoked |-> {},
                     active |-> NoneBusy, at |-> 3, epoch |-> 1]

Paths == {<<"ws">>, <<"ws", "a">>, <<"ws", "link">>, <<"ws", "*">>, <<"out", "b">>}
PathScopes(Ps, field) == {[NoScope EXCEPT ![field] = o] : o \in Optional(Ps)}
PathChains ==
    {Chain(<<Issue(s1, NoLimits, <<>>), Issue(s2, NoLimits, <<>>), Issue(s3, NoLimits, <<>>)>>,
           [NoAsk EXCEPT !.roots = r]) :
       s1 \in PathScopes({{<<"ws">>}, {<<"ws", "a">>, <<"out", "b">>}, {<<"ws", "*">>}}, "paths"),
       s2 \in PathScopes({{p} : p \in Paths}, "paths"),
       s3 \in PathScopes({{p} : p \in Paths}, "write"),
       r \in {{}} \cup {{p} : p \in Paths \cup {<<"ws", "link", "c">>}}}

Fields == {"exclusive", "opcodes", "workspaces", "secrets"}
Names(f) == IF f = "opcodes" THEN AllOpcodes ELSE {"n1", "n2"}
AskFor(f, x) == CASE f = "exclusive"  -> [NoAsk EXCEPT !.resources = {x}]
                  [] f = "opcodes"    -> [NoAsk EXCEPT !.opcode = <<x>>]
                  [] f = "workspaces" -> [NoAsk EXCEPT !.workspace = <<x>>]
                  [] f = "secrets"    -> [NoAsk EXCEPT !.secrets = {x}]
FieldChains ==
    UNION {{Chain(<<Issue(s1, NoLimits, <<>>), Issue(s2, NoLimits, <<>>), Issue(s3, NoLimits, <<>>)>>,
                  AskFor(f, x)) :
              s1 \in PathScopes(SUBSET Names(f), f), s2 \in PathScopes(SUBSET Names(f), f),
              s3 \in PathScopes(SUBSET Names(f), f), x \in Names(f)} : f \in Fields}

Limits == {NoLimits} \cup {("concurrentOps" :> n) : n \in -1..2} \cup {("processes" :> n) : n \in 0..2}
LimitChains ==
    {[Chain(<<Issue(NoScope, l1, <<>>), Issue(NoScope, l2, <<>>), Issue(NoScope, l3, <<>>)>>,
            [NoAsk EXCEPT !.opcode = <<"proc.spawn">>, !.limits = l]) EXCEPT !.active = b] :
       l1 \in Limits, l2 \in Limits, l3 \in Limits, l \in {NoLimits, "processes" :> 1},
       b \in [1..3 -> Busy]}

LifeChains ==
    {[Chain(<<Issue(NoScope, NoLimits, t1), Issue(NoScope, NoLimits, t2), Issue(NoScope, NoLimits, t3)>>,
            [NoAsk EXCEPT !.policy = pol])
        EXCEPT !.revoked = r, !.at = t, !.epoch = e] :
       t1 \in Optional(0..4), t2 \in Optional(1..4), t3 \in Optional(1..4), pol \in {<<"p1">>, <<"p2">>},
       r \in SUBSET (1..3), t \in 3..4, e \in 1..2}

\* The capabilities of the chain, as far as none of the steps throws.
\* Request i attenuates the capability before it, at time i - 1; an attenuation
\* that is refused ends the chain.
CapsOf(s) ==
    LET grow(caps, i) == IF Len(caps) < i - 1 THEN caps
                         ELSE caps \o attenuate(caps, s.reqs[i], i - 1, 1)
        caps == FoldLeft(grow, issueCapability(s.reqs[1], 0, 1), <<2, 3>>)
    IN  [i \in 1..Len(caps) |-> [caps[i] EXCEPT !.revoked = i \in s.revoked]]

(***************************************************************************)
(* ISA programs: three instructions with any dependencies, opIds and       *)
(* drivers; and what the compilers make of every choice of optional fields.*)
(***************************************************************************)
FullCapability ==
    [id |-> "cap1", opcodes |-> DOMAIN ISA_V1_REGISTRY, paths |-> {<<"ws", "**">>}, workspaces |-> {"w1"},
     secrets |-> {"s1"}, expiresAt |-> 2, concurrentOps |-> 3, processes |-> 1]

ValidateOptions ==
    [capability |-> <<FullCapability>>, requireCapability |-> TRUE, available |-> <<>>, now |-> 1,
     supportedIsa |-> {[major |-> 1, minor |-> 0], [major |-> 1, minor |-> 1]}, maxInstructions |-> 3,
     drivers |-> <<{[name |-> n, opcodes |-> {}] : n \in Proc \cup {FS, AS}}>>]

InstIds == {"i", "j", "k"}
InstOp == [id \in InstIds |-> CASE id = "i" -> "proc.spawn" [] id = "j" -> "fs.write" [] id = "k" -> "fs.stat"]

Programs ==
    [kind : {"program"}, deps : [InstIds -> SUBSET InstIds], stray : BOOLEAN, opIds : {"all", "same", "none"},
     drivers : {{}, {FS}, {FS, AS} \cup Proc}]

ProgramOf(s) ==
    LET inst(id) ==
          [id |-> id, op |-> InstOp[id], output |-> id,
           dependsOn |-> SetToSortSeq(s.deps[id], LAMBDA a, b : a = "i" \/ (a = "j" /\ b = "k"))
                         \o (IF s.stray /\ id = "k" THEN <<"zz">> ELSE <<>>),
           pre |-> {[kind |-> "instruction_status", instruction |-> d] : d \in s.deps[id]},
           opId |-> CASE s.opIds = "all" -> id [] s.opIds = "same" -> "o" [] OTHER -> "",
           args |-> [keys |-> ARG_RULES[InstOp[id]].required, bad |-> {}, target |-> "",
                     paths |-> IF id = "i" THEN {} ELSE {<<"ws", "f">>}, workspaces |-> {}, secrets |-> {}]]
    IN  [isa |-> [major |-> 1, minor |-> -1], mode |-> "plan", capability |-> "cap1",
         instructions |-> <<inst("i"), inst("j"), inst("k")>>]

OptionalFields == {"capability", "env", "secretEnv", "timeoutMs", "workspace", "roots", "to", "mediaType", "range",
                   "cursor"}
CompileSpecs ==
    [kind : {"compile"}, op : {"process"} \cup DOMAIN SingleKeys, given : SUBSET OptionalFields,
     opId : {"", "o1"}, patterns : {{<<"ws", "**">>}, {<<"**">>}}]

Compiled(s) ==
    LET spec == [given |-> s.given, programId |-> "p1", opId |-> s.opId, mode |-> "pipeline",
                 capability |-> "cap1", root |-> <<"ws", "d">>, snapshot |-> <<"snap1">>,
                 workspace |-> "w1", secret |-> "s1"]
    IN  IF s.op = "process" THEN compileExecuteProcess(spec) ELSE compileSingle(s.op, spec)

(***************************************************************************)
(* JSON values for the codec: integers and lengths at the boundaries of the*)
(* encoding, texts of characters of every width and of those that are lost,*)
(* nesting up to one level past the limit of the reader, and a text and    *)
(* collections up to one past the other two limits.                        *)
(***************************************************************************)
Mags == {<<>>, <<23>>, <<24>>, <<255>>, <<1, 0>>, <<255, 255>>, <<1, 0, 0>>, <<255, 255, 255, 255>>,
         <<1, 0, 0, 0, 0>>, <<31, 255, 255, 255, 255, 255, 255>>}
\* A text of n bytes, in characters of four as far as they go
TextOf(n) == [t |-> "text", s |-> [i \in 1..(n \div 4) + (n % 4) |-> IF i <= n \div 4 THEN 128512 ELSE 97]]
Nums == [t : {"num"}, neg : BOOLEAN, mag : Mags]
Leaves == {[t |-> "null"], [t |-> "bool", b |-> TRUE], TextOf(0), TextOf(1),
           [t |-> "num", neg |-> TRUE, mag |-> <<1>>]}
Arr(items) == [t |-> "arr", items |-> items]
Obj(entries) == [t |-> "map", entries |-> entries]
Keys == <<<<97>>, <<98>>>>
Null == [t |-> "null"]

\* a, the last and the first of a width, a byte order mark, two halves of pairs
Characters == {97, 127, 128, 2047, 2048, 65535, 65536, 128512, ByteOrderMark, 55357, 56832}
Words == {s \in SeqsUpTo(Characters, 3) : ~ \E i \in 2..Len(s) : s[i - 1] = 55357 /\ s[i] = 56832}
KeyPairs == {<<97>>, <<ByteOrderMark, 97>>, <<55357>>, <<56832>>, <<Replacement>>}

Over(S) == {Arr(q) : q \in SeqsUpTo(S, 2)} \cup {Obj([i \in 1..Len(q) |-> <<Keys[i], q[i]>>]) : q \in SeqsUpTo(S, 2)}

RECURSIVE Nested(_, _)
Nested(v, n) == IF n = 0 THEN v ELSE IF n % 2 = 0 THEN Arr(<<Nested(v, n - 1)>>)
                ELSE Obj(<<<<Keys[1], Nested(v, n - 1)>>>>)

Values ==
    Nums \cup Leaves \cup {TextOf(n) : n \in {23, 24, 255, 256}} \cup Over(Leaves)
    \cup {Arr(<<v, w>>) : v \in Over({Null}), w \in Over({TextOf(1)})}
    \cup {Nested(v, n) : v \in Leaves, n \in 0..MAX_CBOR_DEPTH + 1}
    \cup {[t |-> "text", s |-> s] : s \in Words}
    \cup {Obj(<<<<j, Null>>, <<k, TextOf(1)>>>>) : j \in KeyPairs, k \in KeyPairs}
    \cup {TextOf(n) : n \in MaxSpread..MaxSpread + 1}
    \cup {Obj(<<<<TextOf(MaxSpread + 1).s, Null>>>>)}
    \cup {Arr([i \in 1..n |-> Null]) :
             n \in MAX_CBOR_COLLECTION_LENGTH - 1..MAX_CBOR_COLLECTION_LENGTH + 1}

RECURSIVE Depth(_)
Depth(v) == CASE v.t = "arr" -> 1 + Max({-1} \cup {Depth(v.items[i]) : i \in 1..Len(v.items)})
              [] v.t = "map" -> 1 + Max({-1} \cup {Depth(v.entries[i][2]) : i \in 1..Len(v.entries)})
              [] OTHER -> 0

\* No more items or entries in one collection than the reader takes
RECURSIVE Narrow(_)
Narrow(v) == CASE v.t = "arr" -> /\ Len(v.items) <= MAX_CBOR_COLLECTION_LENGTH
                                 /\ \A i \in 1..Len(v.items) : Narrow(v.items[i])
               [] v.t = "map" -> /\ Len(v.entries) <= MAX_CBOR_COLLECTION_LENGTH
                                 /\ \A i \in 1..Len(v.entries) : Narrow(v.entries[i][2])
               [] OTHER -> TRUE

\* What is left of a text: no byte order mark at its start, and no half of a pair
HeardText(s) ==
    LET t == IF s # <<>> /\ s[1] = ByteOrderMark THEN Tail(s) ELSE s
    IN  [i \in 1..Len(t) |-> IF t[i] \in Surrogates THEN Replacement ELSE t[i]]

RECURSIVE Heard(_)
Heard(v) ==
    CASE v.t = "text" -> [v EXCEPT !.s = HeardText(@)]
      [] v.t = "num" -> [v EXCEPT !.neg = @ /\ v.mag # <<>>]
      [] v.t = "arr" -> [v EXCEPT !.items = [i \in 1..Len(@) |-> Heard(@[i])]]
      [] v.t = "map" -> [v EXCEPT !.entries = [i \in 1..Len(@) |-> <<HeardText(@[i][1]), Heard(@[i][2])>>]]
      [] OTHER -> v

\* The keys of an object differ, and still do when they are read.
KeysDiffer(v) ==
    v.t = "map" => \A i, j \in 1..Len(v.entries) :
                      HeardText(v.entries[i][1]) = HeardText(v.entries[j][1]) => i = j

Documents == {s \in [kind : {"cbor"}, v : Values] :
                s.v.t = "map" => \A i, j \in 1..Len(s.v.entries) :
                                   s.v.entries[i][1] = s.v.entries[j][1] => i = j}

(***************************************************************************)
(* Journals of a result: events of two instructions and of the program,    *)
(* with increasing sequence numbers or with one that repeats.              *)
(***************************************************************************)
Result(id, status, lease) == [id |-> id, status |-> status, lease |-> lease]
EventBodies == {[type |-> "program.status", status |-> st, result |-> Result("-", "-", FALSE)] :
                  st \in {"succeeded", "partial"}}
               \cup {[type |-> "instruction.result", status |-> "-", result |-> r] :
                       r \in {Result("i", "succeeded", FALSE), Result("i", "indeterminate", TRUE),
                              Result("i", "indeterminate", FALSE), Result("j", "failed", FALSE)}}
Journals == [kind : {"replay"}, bodies : SeqsUpTo(EventBodies, 3), repeats : BOOLEAN,
             seed : {<<>>, <<Result("i", "admitted", FALSE)>>}]

EventsOf(s) ==
    [i \in 1..Len(s.bodies) |->
        [type |-> s.bodies[i].type, status |-> s.bodies[i].status, result |-> s.bodies[i].result,
         sequence |-> IF s.repeats /\ i > 1 THEN i - 1 ELSE i]]
Seed(s) == [status |-> "admitted", results |-> s.seed, nextCursor |-> 0]

(***************************************************************************)
(* Causal histories of Nodes nodes, what changed, and the selected heads   *)
(***************************************************************************)
Nodes == 4
Histories ==
    {s \in [kind : {"causal"}, asked : {q \in [1..Nodes -> SUBSET (1..Nodes - 1)] :
                                          \A n \in 1..Nodes : \A d \in q[n] : d < n},
            changed : SUBSET (1..Nodes) \ {{}}, heads : {1..Nodes} \cup {{n} : n \in 3..Nodes}] :
       s.changed \subseteq view(s.asked, s.heads)}

(***************************************************************************)
(* Two looks at the process table.  Before: pid 2 is the root, a child of  *)
(* the host 9, which is in the group of its shell 8 and has another run,   *)
(* 6; 3 and 4 are somebody's children or orphans, in a group of their own  *)
(* or not.  Then each of 2, 3 and 4 stays, goes, is a zombie or is taken   *)
(* over by another program, one of them may have forked 5, the host is gone*)
(* and ps may miss a row.  A pid is free again when no group has its       *)
(* number.  What takes it over is a program of the shell, the leader of a  *)
(* group, a program with a child 7, or one of the other run with a child.  *)
(***************************************************************************)
Row(ppid, pgid, start) == [ppid |-> ppid, pgid |-> pgid, z |-> FALSE, start |-> start]
Before3 == {Row(1, 3, 1), Row(1, 2, 1), Row(2, 3, 1), Row(2, 2, 1), Row(6, 3, 1), Row(6, 6, 1)}
Before4(r3) == {Row(1, 4, 1), Row(1, 2, 1), Row(2, 4, 1), Row(2, 2, 1), Row(3, 4, 1), Row(3, r3.pgid, 1),
                Row(6, 4, 1), Row(6, 6, 1)}
Before == UNION {{(2 :> Row(9, 2, 1)) @@ (3 :> r3) @@ (4 :> r4) @@ (6 :> Row(9, 6, 1)) @@ (8 :> Row(1, 8, 1))
                  @@ (9 :> Row(8, 8, 1)) : r4 \in Before4(r3)} : r3 \in Before3}
Taken(s) == {p \in 2..4 : s.fate[p] = "reused"}
InGroup(s, q, p) == s.before[q].pgid = p /\ (s.fate[q] \in {"stays", "zombie"} \/ s.fork = <<q, FALSE>>)

Looks == {s \in [kind : {"scan"}, before : Before, fate : [2..4 -> {"stays", "goes", "zombie", "reused"}],
                 fork : {<<>>, <<2, TRUE>>, <<3, FALSE>>, <<4, TRUE>>}, missed : {{}} \cup {{p} : p \in 2..5},
                 taker : {"program", "leader", "parent", "run"}] :
            /\ \A p \in Taken(s) : \A q \in 2..4 : ~InGroup(s, q, p)
            /\ s.taker # "program" => s.missed = {} /\ Taken(s) # {}}

\* The row of what took over p, and the child of what took over the first of them
TakerRow(s, p) == CASE s.taker \in {"program", "parent"} -> Row(8, 8, 2)
                    [] s.taker = "leader" -> Row(8, p, 2)
                    [] s.taker = "run" -> Row(6, 6, 2)
ItsChild(s) == IF s.taker \in {"program", "leader"} THEN <<>>
               ELSE 7 :> Row(Min(Taken(s)), IF s.taker = "run" THEN 6 ELSE 8, 2)

After(s) ==
    LET there == {p \in DOMAIN s.before \ {9} : p \in DOMAIN s.fate => s.fate[p] # "goes"}
        stays(p) == p \in DOMAIN s.before \ {9} /\ (p \in DOMAIN s.fate => s.fate[p] = "stays")
        heir(p) == IF stays(p) THEN p ELSE InitProc
        old == [p \in there |->
                  IF p \in Taken(s) THEN TakerRow(s, p)
                  ELSE [s.before[p] EXCEPT !.ppid = heir(@), !.z = p \in DOMAIN s.fate /\ s.fate[p] = "zombie"]]
        forked == IF s.fork = <<>> THEN <<>>
                  ELSE 5 :> Row(heir(s.fork[1]), IF s.fork[2] THEN 5 ELSE s.before[s.fork[1]].pgid, 2)
    IN  old @@ forked @@ ItsChild(s)

\* The root and its descendants, as they were, and what lives of them and below.
Family(s) == Below(s.before, {2})
Survivors(s) ==
    LET after == After(s)
    IN  Below(after, {p \in Family(s) \cap Running(after) : after[p].start = 1}) \cap Running(after)

\* The strangers whom a taken pid connects with the harness: those in a group of its
\* number, its children, and then who is below these or in their group.
Exposed(s) ==
    LET after == After(s)
        joined(p, S) == after[p].pgid # 8 /\ \E q \in S : after[q].pgid = after[p].pgid
        grow(S, i) == S \cup {p \in DOMAIN after : after[p].ppid \in S \/ joined(p, S)}
    IN  FoldLeft(grow, {p \in DOMAIN after : {after[p].ppid, after[p].pgid} \cap Taken(s) # {}},
                 Steps(DOMAIN after))

(***************************************************************************)
(* Recoveries of a workspace from up to three checkpoints, in which a      *)
(* replay may throw, and ones in which a begin, an abort, the pruning or   *)
(* the binding fails or the agent is interrupted; and what up to three     *)
(* looks at a transaction observed.                                        *)
(***************************************************************************)
Entry(kind, hash, cut) == [kind |-> kind, hash |-> hash, cut |-> cut]
Entries == {Entry("observe", 0, NoHash), Entry("observe", 1, NoHash), Entry("observe", 1, 0),
            Entry("mutate", NoHash, NoHash)}
Logs == SeqsUpTo(Entries, 2) \cup {<<Entry("observe", NoHash, NoHash)>>}
Recoveries ==
    [kind : {"recovery"}, logs : SeqsUpTo(Logs, 3), fault : {<<"none", 0>>, <<"replay", 1>>}, ending : {"binds"}]
    \cup [kind : {"recovery"}, logs : SeqsUpTo(Logs, 2), fault : {"none", "begin", "replay", "abort", "prune"} \X (1..2),
          ending : {"binds", "refused", "interrupted"}]

Observed == [reads : {<<>>, <<{1}>>, <<{2}>>}, found : {<<>>, <<{1}>>}, deps : {<<>>, <<{2}>>},
             writes : {{}}, manifest : {NoHash, 0}]
Indexes == [kind : {"index"}, looks : SeqsUpTo(Observed, 3) \ {<<>>}]

Compute(s) ==
    CASE s.kind = "recovery" ->
           [d \in BOOLEAN |-> recoverAgentWorkspace(s.logs, d, s.fault, s.ending)]
      [] s.kind = "index" ->
           FoldLeft(LAMBDA acc, in : mergeWorkspaceIncrementalIndex(acc, buildWorkspaceIncrementalIndex(in)),
                    <<>>, s.looks)
      [] s.kind = "scan" ->
           LET after == After(s)
               snap == [p \in DOMAIN after \ s.missed |-> after[p]]
               cumSet == runCycle(s.before, 2, {})
               watch == scanProcessTable(Watching({2}), s.before, 9)
               answers == [seeds \in {cumSet, {}} |-> {StopVerdict(snap, after, 2, seeds, first) : first \in BOOLEAN}]
           IN  [after |-> after, cumSet |-> cumSet, stop |-> answers[cumSet],
                closed |-> IF s.fate[2] \in {"goes", "reused"} THEN answers[{}] ELSE {},
                group |-> isGroupAlive(snap, after, 2), settle |-> SettleVerdict(snap, after, 2),
                listed |-> Members(snap, 2), reaped |-> reapAll(watch, after, 9)]
      [] s.kind = "cbor" ->
           LET written == encodeCbor(s.v)
               bytes == written[1]
           IN  IF written = <<>> THEN [written |-> FALSE]
               ELSE [written |-> TRUE, whole |-> decodeCbor(bytes),
                     cut |-> {decodeCbor(SubSeq(bytes, 1, n)) : n \in 0..Len(bytes) - 1},
                     longer |-> decodeCbor(Append(bytes, 246))]
      [] s.kind = "replay" ->
           LET events == EventsOf(s)
               part(k) == replayExecutionResult(Seed(s), SubSeq(events, 1, k))
           IN  [whole |-> replayExecutionResult(Seed(s), events),
                split |-> {IF part(k) = <<>> THEN <<>>
                           ELSE replayExecutionResult(part(k)[1], SubSeq(events, k + 1, Len(events))) :
                             k \in 0..Len(events)}]
      [] s.kind = "causal" ->
           LET deps == FoldLeft(recordStep, <<>>, s.asked)
               nodes == view(deps, s.heads)
           IN  [deps |-> deps, nodes |-> nodes, plan |-> planRecomputation(deps, nodes, s.changed),
                why |-> explainRecomputation(deps, nodes, s.changed)]
      [] s.kind = "program" ->
           LET opts == [ValidateOptions EXCEPT !.drivers = <<{[name |-> n, opcodes |-> {}] : n \in s.drivers}>>]
           IN  [result |-> validateProgram(ProgramOf(s), opts), plan |-> planProgram(ProgramOf(s), opts)]
      [] s.kind = "compile" ->
           validateProgram(Compiled(s), [ValidateOptions EXCEPT
                                           !.capability = <<[FullCapability EXCEPT !.paths = s.patterns]>>])
      [] s.kind = "chain" ->
           LET caps == CapsOf(s)
           IN  [caps |-> caps,
                asBusy |-> [i \in 1..Len(caps) |-> [j \in 1..i |->
                             checkCapabilityAdmission(SubSeq(caps, 1, j), s.ask, s.active[i], s.at, s.epoch)]]]
      [] s.kind = "stream" ->
           parseWireResponse(s.wire, SubSeq(openWireStream(s.wire, s.ops), 1, s.cut))
      [] s.kind = "resume" ->
           LET body == Render(s.wire, s.rounds, s.prompted)
               once == injectInterruptedToolAccount(s.wire, body,
                           parseWireRequest(s.wire, body), Interrupted(s))
           IN  [once |-> once,
                twice |-> injectInterruptedToolAccount(s.wire, once.body,
                              parseWireRequest(s.wire, once.body), Interrupted(s)),
                noticed |-> injectContextNotice(s.wire, once.body, "stale")]

Init ==
    /\ \/ input \in Streams
       \/ input \in Resumes
       \/ input \in PathChains
       \/ input \in FieldChains
       \/ input \in LimitChains
       \/ input \in LifeChains
       \/ input \in Programs
       \/ input \in CompileSpecs
       \/ input \in Documents
       \/ input \in Journals
       \/ input \in Histories
       \/ input \in Looks
       \/ input \in Recoveries
       \/ input \in Indexes
    /\ output = <<>>

Step == output = <<>> /\ output' = <<Compute(input)>> /\ UNCHANGED input

Next == Step

Spec == Init /\ [][Next]_vars

Computed(kind) == output # <<>> /\ input.kind = kind
Out == output[1]

-----------------------------------------------------------------------------
(***************************************************************************)
(* An answer that is streamed in any of the four protocols and cut after   *)
(* any frame reads back as a prefix of that answer: the text is a prefix   *)
(* of its text, the calls are its first calls with their own ids and names,*)
(* and the arguments of a call are its own or, when the cut is inside      *)
(* them, empty.  Uncut, it reads back whole, and in one JSON document its   *)
(* calls are the same (openWireStream and parseWireResponse, which the     *)
(* cache and the tool record rely on).                                     *)
(***************************************************************************)
CutAnswerIsPrefix ==
    Computed("stream") =>
        LET calls == OpsCalls(input.ops)
            whole == input.cut = Len(openWireStream(input.wire, input.ops))
        IN  /\ IsPrefix(Out.text, OpsText(input.ops))
            /\ Len(Out.toolCalls) <= Len(calls)
            /\ \A i \in 1..Len(Out.toolCalls) :
                 /\ Out.toolCalls[i].id = calls[i].id
                 /\ Out.toolCalls[i].name = calls[i].name
                 /\ Out.toolCalls[i].args \in {calls[i].args, NoArgs}
            /\ whole =>
                 /\ Out.text = OpsText(input.ops)
                 /\ Out.toolCalls = calls
                 /\ parseJsonResponse(input.wire, input.ops).toolCalls = Out.toolCalls

(***************************************************************************)
(* After injectInterruptedToolAccount the request has exactly one call of  *)
(* the interrupted id and exactly one result for it, which comes after the *)
(* call and carries the account once; the parsed request the gateway goes  *)
(* on with has the same calls and results as the body it sends.            *)
(***************************************************************************)
OneAccount ==
    Computed("resume") =>
        LET parts == PartsOf(Out.once.body.msgs)
            of(k) == {i \in 1..Len(parts) : parts[i].k = k /\ parts[i].id = input.call}
            again == parseWireRequest(input.wire, Out.once.body)
        IN  /\ Cardinality(of("call")) = 1
            /\ Cardinality(of("result")) = 1
            /\ \A i \in of("call"), j \in of("result") :
                 /\ i < j
                 /\ Cardinality({t \in 1..Len(parts[j].text) : parts[j].text[t] = Recovery}) = 1
            /\ ToSet(again.toolCalls) = ToSet(Out.once.parsed.toolCalls)
            /\ {r.callId : r \in ToSet(again.toolResults)}
                 = {r.callId : r \in ToSet(Out.once.parsed.toolResults)}

(***************************************************************************)
(* The account is given to the interrupted call only: every other result   *)
(* of the conversation reaches the model as the harness sent it, and a     *)
(* second injection changes nothing; a notice about stale context then     *)
(* adds to one text and leaves every call, every id and the account as     *)
(* they are (injectContextNotice).  For Gemini the code also matches by    *)
(* the name of the tool, and the first part fails.                         *)
(***************************************************************************)
OtherResultsKept ==
    Computed("resume") /\ input.wire # "gemini" =>
        LET results(msgs) == SelectSeq(PartsOf(msgs),
                                       LAMBDA p : p.k = "result" /\ p.id # input.call)
        IN  /\ results(Out.once.body.msgs)
                 = results(Render(input.wire, input.rounds, input.prompted).msgs)
            /\ Out.twice.body = Out.once.body
            /\ LET before == PartsOf(Out.once.body.msgs)
                   after == PartsOf(Out.noticed.msgs)
                   changed == {i \in 1..Len(before) : after[i] # before[i]}
               IN  /\ Len(after) = Len(before)
                   /\ changed \subseteq {Len(before)}
                   /\ \A i \in changed : after[i] = [before[i] EXCEPT !.text = Append(@, "stale")]

(***************************************************************************)
(* Attenuation never widens: whatever a capability admits, each of its     *)
(* ancestors admits too if it has no more operations of its own running    *)
(* (so that a revoked, expired or outdated ancestor admits nothing below   *)
(* it), and the roots, resources and limits it gives lie within its        *)
(* ancestor's (attenuate and checkCapabilityAdmission, with links and      *)
(* wildcards resolved).                                                    *)
(***************************************************************************)
NeverWidens ==
    Computed("chain") =>
        \A i \in 1..Len(Out.caps) : Out.asBusy[i][i] # <<>> =>
            \A j \in 1..i-1 :
                LET below == Out.asBusy[i][i]
                    above == Out.asBusy[i][j]
                IN  /\ above # <<>>
                    /\ below[1].resources \subseteq above[1].resources
                    /\ \A r \in below[1].roots :
                         \E p \in Out.caps[j].scope.paths : isPathContained(p, r)
                    /\ \A k \in LimitKeys : below[1].limits[k] <= above[1].limits[k]

(***************************************************************************)
(* A capability whose running operations have used up its concurrency      *)
(* admits nothing below it either.  Refuted: operations are counted by     *)
(* capability id (domain.ts:1204), so that each capability attenuated from *)
(* it has the same number again.                                           *)
(***************************************************************************)
ConcurrencyIsShared ==
    Computed("chain") =>
        \A i \in 1..Len(Out.caps) : Out.asBusy[i][i] # <<>> =>
            \A j \in 1..i-1 : Out.asBusy[j][j] # <<>>

(***************************************************************************)
(* The validator accepts exactly the programs that can run to their end:   *)
(* it reports a cycle if and only if some instructions wait for each other,*)
(* and a program it accepts has every dependency declared, so that starting*)
(* what is ready (executePipeline) reaches every instruction; each opcode  *)
(* that must not run twice has an opId of its own.  A plan is admitted only*)
(* if besides every driver is there (detectCycles, validateProgram,        *)
(* planProgram).                                                           *)
(***************************************************************************)
ValidProgramsFinish ==
    Computed("program") =>
        LET deps == input.deps
            waiting == {S \in SUBSET InstIds : S # {} /\ \A i \in S : deps[i] \cap S # {}}
            r == Out.result
        IN  /\ ("dependency_cycle" \in r.issues) <=> waiting # {}
            /\ r.ok => /\ waiting = {} /\ ~input.stray
                      /\ input.opIds = "all"
            /\ Out.plan.status = "admitted" => r.ok /\ UNION {ISA_V1_REGISTRY[InstOp[i]].drivers : i \in InstIds} \subseteq input.drivers
            /\ r.ok /\ Out.plan.status # "admitted" => Out.plan.status = "unsupported"

(***************************************************************************)
(* Every program the compilers make is one the validator accepts, whichever*)
(* optional fields are given, under a capability for its opcode, workspace,*)
(* secret and roots.  A diff is the exception (its snapshots are looked up *)
(* among the paths): only a capability for every path accepts it.          *)
(***************************************************************************)
CompiledProgramsValidate ==
    Computed("compile") => Out.ok \/ (input.op = "workspace.diff" /\ input.patterns # {<<"**">>})

(***************************************************************************)
(* A value that is written reads back as it was, but for what is lost on   *)
(* the way: one byte order mark at the start of a text or key, each half of*)
(* a surrogate pair (it comes back as U+FFFD), and the sign of minus zero. *)
(* It is refused instead if it is nested deeper or is wider than the reader*)
(* accepts (the writer has no limit), or if two keys of an object are the  *)
(* same by what they have lost; only a text with more bytes than a call has*)
(* arguments is not written.  What is cut short or followed by another byte*)
(* is refused (CborWriter, CborReader).                                    *)
(***************************************************************************)
CborRoundTrip ==
    Computed("cbor") =>
        IF ~Out.written THEN \E s \in Texts(input.v) : Len(bytesOf(s)) > MaxSpread
        ELSE /\ Out.whole = IF Depth(input.v) <= MAX_CBOR_DEPTH /\ Narrow(input.v) /\ KeysDiffer(input.v)
                            THEN <<Heard(input.v)>> ELSE <<>>
             /\ Out.cut = {<<>>}
             /\ Out.longer = <<>>

(***************************************************************************)
(* Encoding changes the representation only, not a field                   *)
(* (docs/XIO-ISA-PLAN.md:1377, spec/isa-v1/versioning.md:48: JSON and CBOR *)
(* are encodings of the same schema).  Refuted by a text that starts with a*)
(* byte order mark, by half a surrogate pair and by a value nested too     *)
(* deep: JSON keeps each of them.                                          *)
(***************************************************************************)
CborKeepsEverything == Computed("cbor") => Out.written /\ Out.whole = <<input.v>>

(***************************************************************************)
(* A journal in order whose indeterminate results are complete replays, and*)
(* gives what replaying any part of it and going on from there gives: one  *)
(* result for each instruction, and the last status of the program.  A     *)
(* replay may be resumed at any cursor (replayExecutionResult).            *)
(***************************************************************************)
ReplayComposes ==
    /\ Computed("replay") /\ ~(input.repeats /\ Len(input.bodies) > 1)
         /\ (\A i \in 1..Len(input.bodies) : input.bodies[i].result # Result("i", "indeterminate", FALSE))
         => Out.whole # <<>>
    /\ Computed("replay") /\ Out.whole # <<>> =>
        LET said == SelectSeq(input.bodies, LAMBDA b : b.type = "program.status")
            results == Out.whole[1].results
        IN  /\ Out.split = {Out.whole}
            /\ {r.id : r \in ToSet(results)}
                 = {r.id : r \in ToSet(input.seed)}
                   \cup {b.result.id : b \in {c \in ToSet(input.bodies) : c.type = "instruction.result"}}
            /\ Out.whole[1].status = IF said = <<>> THEN "admitted" ELSE Last(said).status

(***************************************************************************)
(* A change invalidates exactly the selected nodes it reaches through      *)
(* declared dependencies, so that no node that is kept has changed         *)
(* evidence; and the cause given for an invalid node is a shortest path of *)
(* declared dependencies from each changed node that reaches it            *)
(* (planRecomputation, explainRecomputation, ancestors).                   *)
(***************************************************************************)
ChangesExplained ==
    Computed("causal") =>
        LET deps == Out.deps
            isPath(p) == \A i \in 2..Len(p) : p[i - 1] \in deps[p[i]]
            paths(a, b) == {SetToSortSeq(S, <) : S \in {T \in SUBSET (a..b) : a \in T /\ b \in T
                                                        /\ isPath(SetToSortSeq(T, <))}}
            reaches(a, b) == a <= b /\ paths(a, b) # {}
        IN  /\ Out.plan.invalidated = {n \in Out.nodes : \E c \in input.changed : reaches(c, n)}
            /\ \A n \in Out.plan.unaffected : (ancestors(deps, n) \cup {n}) \cap input.changed = {}
            /\ \A c \in input.changed :
                 /\ DOMAIN Out.why[c] = {n \in Out.nodes : reaches(c, n)}
                 /\ \A n \in DOMAIN Out.why[c] :
                      /\ Out.why[c][n] \in paths(c, n)
                      /\ \A p \in paths(c, n) : Len(Out.why[c][n]) <= Len(p)

(***************************************************************************)
(* "confirmed_stopped" of the node driver: every process that was ever     *)
(* sampled is dead, even if ps misses its row; and if ps missed none, so is*)
(* everything below a sampled process and in the group, also when the      *)
(* parents in between are gone.  Once the driver has seen the child close, *)
(* it no longer knows what was sampled, and only the root and its group are*)
(* certain (getProcessTree with its seeds, runCycle, classifyPids,         *)
(* terminateWithEvidence).                                                 *)
(***************************************************************************)
StoppedIsEvident ==
    Computed("scan") =>
        /\ "confirmed_stopped" \in Out.stop =>
             /\ \A p \in (Out.cumSet \cup {2}) \cap Running(Out.after) : Out.after[p].start # 1
             /\ input.missed = {} => Survivors(input) \cup (Members(Out.after, 2) \cap Running(Out.after)) = {}
        /\ "confirmed_stopped" \in Out.closed =>
             Members(Out.after, 2) \cap Running(Out.after) \subseteq input.missed

(***************************************************************************)
(* "Confirmed stopping means no observed process can continue execution"   *)
(* (spec/current-contract.md:344).  Refuted by a stop after the child's    *)
(* "close": the driver has deleted what it had sampled                     *)
(* (node-driver.ts:157-161), and a daemon in a group of its own, observed  *)
(* while its parent lived, goes on.                                        *)
(***************************************************************************)
ConfirmedMeansStopped ==
    Computed("scan") /\ input.missed = {} /\ "confirmed_stopped" \in Out.stop \cup Out.closed =>
        \A p \in Out.cumSet \cap Running(Out.after) : Out.after[p].start # 1

(***************************************************************************)
(* A group counts as gone only if no process of it lives, or if ps listed a*)
(* dead member and missed a live one; when it missed the whole group that  *)
(* is an error.  settleTree says "residual" only of a group that lives     *)
(* (isGroupAlive, settleTree).                                             *)
(***************************************************************************)
GroupGoneIsEvident ==
    Computed("scan") =>
        LET live == Members(Out.after, 2) \cap Running(Out.after)
        IN  /\ Out.group = "no" => live = {} \/ (Out.listed # {} /\ live \subseteq input.missed)
            /\ Out.settle = "residual" => live # {}

(***************************************************************************)
(* When the host is gone the watchdog kills everything that lives of the   *)
(* wrapped harness and below it: in its group, in groups of its own,       *)
(* orphaned or forked since the last scan (scanProcessTable, reapAll).     *)
(***************************************************************************)
WatchdogReaches ==
    Computed("scan") => Survivors(input) \subseteq Out.reaped

(***************************************************************************)
(* It kills nobody else, but whom a tracked pid exposes that was taken over*)
(* while the watchdog did not look: who is in a group of that number, who  *)
(* is a child of the program that took it over, and who is in the group of *)
(* such a child.  Otherwise only the root, who is in its group and what is *)
(* below them: not the other run of the same host with its children, not   *)
(* the shell of the host or its group, and not that program itself.        *)
(***************************************************************************)
WatchdogSpares ==
    Computed("scan") =>
        LET house == Below(input.before, {2} \cup Members(input.before, 2))
        IN  \A p \in Out.reaped \ Exposed(input) : IF p = 5 THEN input.fork[1] \in house
                                                   ELSE p \in house /\ Out.after[p].start = 1

(***************************************************************************)
(* The watchdog of one run never kills the other run of the same host      *)
(* (src/src/gateway/shell-shim.ts:259-261, which tracks only the watched   *)
(* roots and what is below them for this reason).  Refuted by a tracked pid*)
(* that the other run takes over: the start time is compared when a pid is *)
(* killed, not when a child or a group is tracked.                         *)
(***************************************************************************)
OtherRunIsSpared == Computed("scan") => 6 \notin Out.reaped

(***************************************************************************)
(* Recovery restores the newest checkpoint whose log holds on the workspace*)
(* as it is: the deterministic policy, which skips logs that begin with a  *)
(* disproved prefix, restores what trying all of them restores, and a      *)
(* replay that threw costs no checkpoint but its own (prepareCandidates,   *)
(* replayObservationLog).                                                  *)
(***************************************************************************)
NewestValidRestored ==
    Computed("recovery") /\ input.fault[1] \in {"none", "replay"} =>
        \A d \in BOOLEAN : Out[d].status # "threw" =>
            LET holds(log) == \A i \in 1..Len(log) : StepHolds(log, i)
            IN  /\ Out[d].seq = Max({0} \cup {i \in 1..Len(input.logs) :
                                                holds(input.logs[i]) /\ i \notin Out[d].threw})
                /\ Out[d].attempts <= Out[FALSE].attempts

(***************************************************************************)
(* The baseline that the candidates share is there as long as a transaction*)
(* is open on it, and at the end only the candidate that was bound is open:*)
(* the rejected ones are cleaned up, one that could not be bound or whose  *)
(* agent was interrupted is, and without one the baseline is.  Only a      *)
(* begin, an abort or a pruning that throws may leave something behind, and*)
(* then the recovery throws (prepareCandidates, recoverCheckpoint,         *)
(* recoverAgentWorkspace).                                                 *)
(***************************************************************************)
BaselineOutlivesCandidates ==
    Computed("recovery") =>
        \A d \in BOOLEAN :
            LET kept == IF Out[d].bound THEN {Out[d].attempts} ELSE {} IN
            /\ Out[d].open # {} => Out[d].base
            /\ Out[d].open # kept \/ (Out[d].base /\ ~Out[d].bound) =>
                  Out[d].status = "threw" /\ input.fault[1] \in {"begin", "abort", "prune"}

(***************************************************************************)
(* "restored" names a transaction that is open, with its baseline          *)
(* (spec/agent-runtime.md:402: "retains the shared snapshot for the        *)
(* selected transaction").  Refuted by an interruption during the          *)
(* preparation: the candidate is discarded and the baseline pruned         *)
(* (runtime.ts:272-277), and the status that was computed before it is     *)
(* returned (workspace-recovery.ts:65).                                    *)
(***************************************************************************)
RestoredIsOpen ==
    Computed("recovery") =>
        \A d \in BOOLEAN : Out[d].status = "restored" => Out[d].base /\ Out[d].open = {Out[d].attempts}

(***************************************************************************)
(* An index claims no more than was observed: it covers the workspace only *)
(* if each look observed all of reads, listings and links, it then has     *)
(* what any of them saw, and it is complete only if one captured the       *)
(* ignored files (buildWorkspaceIncrementalIndex,                          *)
(* mergeWorkspaceIncrementalIndex).                                        *)
(***************************************************************************)
IndexClaimsObserved ==
    Computed("index") =>
        LET looks == ToSet(input.looks)
            all == \A l \in looks : <<>> \notin {l.reads, l.found, l.deps}
        IN  /\ Out[1].coverage # "unknown" <=> all
            /\ all => Out[1].reads = <<UNION {l.reads[1] : l \in looks}>>
            /\ Out[1].coverage = "complete" => \E l \in looks : l.manifest # NoHash

\* Streams, accounts and notices of the four protocols say what was meant.
WireIsFaithful ==
    /\ CutAnswerIsPrefix
    /\ OneAccount
    /\ OtherResultsKept

\* A program that is compiled validates, one that validates finishes, and
\* programs and results survive encoding and replay.
ProgramsAreSound ==
    /\ ValidProgramsFinish
    /\ CompiledProgramsValidate
    /\ CborRoundTrip
    /\ ReplayComposes

\* What the sampler and the watchdog conclude from process tables is evident.
ScansAreEvident ==
    /\ StoppedIsEvident
    /\ GroupGoneIsEvident
    /\ WatchdogReaches
    /\ WatchdogSpares

\* What is restored is the newest state whose evidence holds, and what changed
\* is explained by what was observed.
RecoveryIsSound ==
    /\ NewestValidRestored
    /\ BaselineOutlivesCandidates
    /\ IndexClaimsObserved
    /\ ChangesExplained
=============================================================================
