----------------------------- MODULE IsaPrograms -----------------------------
(***************************************************************************)
(* ISA programs before they run: the registry of opcodes, the validator    *)
(* (src/isa/validator.ts), the plan report (plan.ts) and the compilers of  *)
(* single operations (compiler.ts).  Pure operators.                       *)
(*                                                                         *)
(* A program is [isa, mode, capability, options, instructions]; isa is     *)
(* [major, minor], a minor of -1 left out.  An instruction is              *)
(*   [id, op, args, dependsOn, pre, output, opId]                          *)
(* with args = [keys, bad, paths, workspaces, secrets, target]: the keys   *)
(* that are there, those whose value is ill-formed, the values the         *)
(* capability is asked about, and the instruction it names.  pre is a set  *)
(* of preconditions [kind, instruction].  "" is a field left out.          *)
(***************************************************************************)
EXTENDS Integers, Sequences, SequencesExt, FiniteSets, FiniteSetsExt, TLC

Meta(atomicity, idempotency, caps, cost, drivers) ==
    [atomicity |-> atomicity, idempotency |-> idempotency, requiredCapabilities |-> caps,
     resourceCost |-> cost, drivers |-> drivers]

FS == "node.filesystem"
AS == "artifact.store"
GIT == "workspace.git-shadow"
JS == "journal.store"
Proc == {"node.process", "reaper.process", "cgroup.process"}
Usage == {"cpu", "memory", "pids", "output"}

FsOps ==
    "fs.read" :> Meta("pure", "safe", {"filesystem.read", "artifact.put"}, {"io.read", "artifact.write"}, {FS, AS})
 @@ "fs.write" :> Meta("local_atomic", "op_id_required", {"filesystem.write", "artifact.get"}, {"io.write", "artifact.read"}, {FS, AS})
 @@ "fs.patch" :> Meta("local_atomic", "op_id_required", {"filesystem.write", "artifact.get"}, {"io.read", "io.write", "artifact.read"}, {FS, AS})
 @@ "fs.move" :> Meta("local_atomic", "op_id_required", {"filesystem.write"}, {"io.metadata"}, {FS})
 @@ "fs.delete" :> Meta("compensatable", "op_id_required", {"filesystem.delete"}, {"io.write", "artifact.write"}, {FS, AS})
 @@ "fs.stat" :> Meta("pure", "safe", {"filesystem.read"}, {"io.metadata"}, {FS})

WorkspaceOps ==
    "workspace.snapshot" :> Meta("local_atomic", "op_id_required", {"workspace.snapshot", "filesystem.read", "artifact.put"}, {"io.scan", "artifact.write"}, {GIT, AS})
 @@ "workspace.diff" :> Meta("pure", "safe", {"workspace.read", "filesystem.read"}, {"io.scan"}, {GIT})
 @@ "workspace.commit" :> Meta("compensatable", "op_id_required", {"workspace.commit", "filesystem.write"}, {"io.scan", "io.write", "artifact.write"}, {GIT, FS, AS})
 @@ "workspace.rollback" :> Meta("compensatable", "op_id_required", {"workspace.rollback", "filesystem.write"}, {"io.scan", "io.write"}, {GIT, FS})

ProcOps ==
    "proc.spawn" :> Meta("external", "op_id_required_no_replay", {"process.spawn"}, Usage, Proc)
 @@ "proc.wait" :> Meta("external", "safe", {"process.inspect"}, Usage, Proc)
 @@ "proc.signal" :> Meta("external", "op_id_required_no_replay", {"process.signal"}, {"pids"}, Proc)
 @@ "proc.inspect" :> Meta("pure", "safe", {"process.inspect"}, {"cpu", "memory", "pids"}, Proc)
 @@ "observe.files" :> Meta("sampled", "safe", {"filesystem.observe"}, {"io.scan"}, {FS})
 @@ "observe.resources" :> Meta("sampled", "safe", {"process.observe_resources"}, Usage, Proc)

ControlOps ==
    "control.status" :> Meta("pure", "safe", {"control.read"}, {"journal.read"}, {JS})
 @@ "control.health" :> Meta("pure", "safe", {"control.read"}, {"journal.read"}, {JS})
 @@ "control.cancel" :> Meta("external", "op_id_required_no_replay", {"control.cancel", "process.signal"}, {"pids", "journal.write"}, {JS} \cup Proc)
 @@ "control.resolve" :> Meta("local_atomic", "op_id_required", {"control.resolve"}, {"journal.write"}, {JS})
 @@ "control.resume" :> Meta("external", "op_id_required_no_replay", {"control.resume"}, {"journal.write", "cpu", "memory", "pids"}, {JS} \cup Proc)

ArtifactOps ==
    "artifact.put" :> Meta("local_atomic", "op_id_required", {"artifact.put"}, {"io.write", "artifact.write"}, {AS})
 @@ "artifact.get" :> Meta("pure", "safe", {"artifact.get"}, {"io.read", "artifact.read"}, {AS})
 @@ "artifact.stream" :> Meta("pure", "safe", {"artifact.get"}, {"io.read", "artifact.read"}, {AS})

ISA_V1_REGISTRY == FsOps @@ WorkspaceOps @@ ProcOps @@ ControlOps @@ ArtifactOps

(***************************************************************************)
(* Arguments: the required and the other allowed keys of every opcode      *)
(***************************************************************************)
Rule(required, optional) == [required |-> required, allowed |-> required \cup optional]

ARG_RULES ==
    "fs.read" :> Rule({"path"}, {"workspace", "range"})
 @@ "fs.write" :> Rule({"path", "content"}, {"workspace", "expectedHash"})
 @@ "fs.patch" :> Rule({"path", "patch"}, {"workspace", "expectedHash"})
 @@ "fs.move" :> Rule({"from", "to"}, {"workspace"})
 @@ "fs.delete" :> Rule({"path"}, {"workspace", "recursive"})
 @@ "fs.stat" :> Rule({"path"}, {"workspace"})
 @@ "workspace.snapshot" :> Rule({"label"}, {"workspace", "roots"})
 @@ "workspace.diff" :> Rule({"from"}, {"workspace", "to"})
 @@ "workspace.commit" :> Rule({"transaction"}, {"workspace"})
 @@ "workspace.rollback" :> Rule({"snapshot"}, {"workspace", "roots"})
 @@ "proc.spawn" :> Rule({"argv", "cwd", "stdio"}, {"env", "secretEnv", "timeoutMs"})
 @@ "proc.wait" :> Rule({"process"}, {"timeoutMs"})
 @@ "proc.signal" :> Rule({"process", "signals"}, {"graceMs"})
 @@ "proc.inspect" :> Rule({"process"}, {})
 @@ "observe.files" :> Rule({"paths"}, {"workspace", "depth"})
 @@ "observe.resources" :> Rule({"process"}, {"intervalMs"})
 @@ "control.status" :> Rule({}, {"program", "instruction", "lease"})
 @@ "control.health" :> Rule({}, {})
 @@ "control.cancel" :> Rule({}, {"program", "instruction", "lease", "graceMs"})
 @@ "control.resolve" :> Rule({"lease", "decision", "reason"}, {"evidence"})
 @@ "control.resume" :> Rule({"resumeToken"}, {})
 @@ "artifact.put" :> Rule({"content"}, {"mediaType", "sensitivity", "ttlMs"})
 @@ "artifact.get" :> Rule({"artifact"}, {"range"})
 @@ "artifact.stream" :> Rule({"artifact"}, {"cursor", "maxBytes"})

\* The keys whose values are not looked at
Unchecked == {"cwd", "reason", "evidence"}

\* c when the condition holds, as a set of issues
When(cond, c) == IF cond THEN {c} ELSE {}

validateArgs(op, args) ==
    LET rule == ARG_RULES[op]
    IN  When(args.keys \ rule.allowed # {}, "unknown_field")
        \cup When(rule.required \ args.keys # {}, "missing_field")
        \cup When((args.keys \cap args.bad) \ Unchecked # {}, "invalid_value")
        \cup When(/\ op \in {"control.status", "control.cancel"}
                  /\ args.keys \cap {"program", "instruction", "lease"} = {}, "missing_field")

PreconditionKinds == {"file_hash", "artifact_hash", "instruction_status", "workspace_revision"}

validatePrecondition(p, ids) ==
    When(p.kind \notin PreconditionKinds, "invalid_value")
    \cup When(p.kind = "instruction_status" /\ p.instruction \notin ids, "unknown_reference")

(***************************************************************************)
(* The program                                                             *)
(***************************************************************************)
\* The highest supported minor of major 1 when the program names none; -1 for none.
negotiateIsa(isa, supported) ==
    LET minors == {v.minor : v \in {w \in supported : w.major = 1}}
    IN  IF isa.major # 1 THEN -1
        ELSE IF isa.minor = -1 THEN Max(minors \cup {-1})
        ELSE IF isa.minor \in minors THEN isa.minor ELSE -1

\* A pattern that ends with * or ** matches what starts with the rest of it.
matchesPath(pattern, value) ==
    pattern = value \/ (Last(pattern) \in {"*", "**"} /\ IsPrefix(Front(pattern), value))

Ids(insts) == {insts[i].id : i \in 1..Len(insts)}
Repeated(insts, field) ==
    \E i, j \in 1..Len(insts) : i < j /\ insts[i][field] # "" /\ insts[i][field] = insts[j][field]

\* Depth first, in the order of the program and of each dependsOn; the dependencies of
\* the last instruction with an id are the ones of that id.
Graph(insts) ==
    [id \in Ids(insts) |->
        LET last == Max({i \in 1..Len(insts) : insts[i].id = id})
        IN  SelectSeq(insts[last].dependsOn, LAMBDA d : d \in Ids(insts))]

RECURSIVE visit(_, _, _)
visit(graph, id, st) ==
    IF st.state[id] = "visiting" THEN [st EXCEPT !.cycle = TRUE]
    ELSE IF st.state[id] = "visited" THEN st
    ELSE LET after == FoldLeft(LAMBDA acc, d : visit(graph, d, acc),
                               [st EXCEPT !.state[id] = "visiting"], graph[id])
         IN  [after EXCEPT !.state[id] = "visited"]

\* Mutant: the search starts at the first instruction only.
detectCyclesFirst(insts) ==
    LET graph == Graph(insts)
    IN  visit(graph, insts[1].id, [state |-> [id \in Ids(insts) |-> "new"], cycle |-> FALSE]).cycle

detectCycles(insts) ==
    LET graph == Graph(insts)
    IN  FoldLeft(LAMBDA acc, i : visit(graph, i.id, acc),
                 [state |-> [id \in Ids(insts) |-> "new"], cycle |-> FALSE], insts).cycle

buildResources(insts) ==
    [instructionCount |-> Len(insts),
     requiredCapabilities |-> UNION {ISA_V1_REGISTRY[insts[i].op].requiredCapabilities : i \in 1..Len(insts)},
     requiresOpId |-> {insts[i].id : i \in {j \in 1..Len(insts) :
                          ISA_V1_REGISTRY[insts[j].op].idempotency # "safe"}}]

\* opts.capability is <<>> or <<cap>>; opts.available is <<>> or <<set of names>>.
checkCapability(prog, insts, resources, opts) ==
    IF opts.capability = <<>> THEN When(opts.requireCapability, "capability_missing")
    ELSE LET cap == opts.capability[1]
             denied(i) ==
                 \/ i.op \notin cap.opcodes
                 \/ \E p \in i.args.paths : ~\E pattern \in cap.paths : matchesPath(pattern, p)
                 \/ ~(i.args.workspaces \subseteq cap.workspaces)
                 \/ ~(i.args.secrets \subseteq cap.secrets)
         IN  When(\/ prog.capability # "" /\ prog.capability # cap.id
                  \/ \E i \in 1..Len(insts) : denied(insts[i])
                  \/ /\ opts.available # <<>>
                     /\ ~(resources.requiredCapabilities \subseteq opts.available[1]), "capability_denied")
             \cup When(cap.expiresAt <= opts.now, "capability_expired")
             \cup When(\/ resources.instructionCount > cap.concurrentOps
                       \/ Cardinality({i \in 1..Len(insts) : insts[i].op = "proc.spawn"}) > cap.processes,
                       "resource_exceeded")

\* MAX_INSTRUCTIONS is opts.maxInstructions, so that a small program reaches it.
validateProgram(prog, opts) ==
    LET raw == prog.instructions
        insts == SelectSeq(raw, LAMBDA i : i.op \in DOMAIN ISA_V1_REGISTRY)
        ids == Ids(raw)
        has(P(_)) == \E i \in 1..Len(insts) : P(insts[i])
        minor == negotiateIsa(prog.isa, opts.supportedIsa)
        resources == buildResources(insts)
        issues ==
            When(minor < 0, "unsupported_isa_minor")
            \cup When(prog.mode \notin {"plan", "transaction", "pipeline"}, "invalid_value")
            \cup When(raw = <<>> \/ Len(raw) > opts.maxInstructions, "invalid_value")
            \cup When(Repeated(raw, "id"), "duplicate_id")
            \cup When(Len(insts) < Len(raw), "unsupported_opcode")
            \cup UNION {validateArgs(insts[i].op, insts[i].args) : i \in 1..Len(insts)}
            \cup When(has(LAMBDA i : ~IsInjective(i.dependsOn)), "invalid_value")
            \cup When(Repeated(insts, "output"), "duplicate_output")
            \cup When(Repeated(insts, "opId"), "duplicate_op_id")
            \cup When(has(LAMBDA i : i.opId = "" /\ i.id \in resources.requiresOpId), "invalid_value")
            \cup UNION {UNION {validatePrecondition(p, ids) : p \in insts[i].pre} : i \in 1..Len(insts)}
            \cup When(has(LAMBDA i : ~(ToSet(i.dependsOn) \subseteq ids)), "unknown_reference")
            \cup When(has(LAMBDA i : i.args.target # "" /\ i.args.target \notin ids), "unknown_reference")
            \cup When(insts # <<>> /\ detectCycles(insts), "dependency_cycle")
            \cup checkCapability(prog, insts, resources, opts)
    IN  [ok |-> issues = {}, issues |-> issues, minor |-> minor, instructions |-> insts]

(***************************************************************************)
(* Plan mode.  opts.drivers is <<>> or <<set of [name, opcodes]>>, opcodes *)
(* {} for all.  Every driver that the registry lists must be there.        *)
(***************************************************************************)
driverChecks(insts, drivers) ==
    [i \in 1..Len(insts) |->
        IF drivers = <<>> THEN "unknown"
        ELSE IF \A name \in ISA_V1_REGISTRY[insts[i].op].drivers :
                  \E d \in drivers[1] : d.name = name /\ (d.opcodes = {} \/ insts[i].op \in d.opcodes)
             THEN "available" ELSE "unsupported"]

classify(issues, checks) ==
    IF issues \cap {"unsupported_isa_minor", "unsupported_opcode"} # {} THEN "unsupported"
    ELSE IF "unsupported" \in ToSet(checks) THEN "unsupported"
    ELSE IF issues # {} THEN "rejected" ELSE "admitted"

planProgram(prog, opts) ==
    LET result == validateProgram(prog, opts)
        checks == driverChecks(result.instructions, opts.drivers)
    IN  IF ~result.ok THEN [status |-> classify(result.issues, <<>>), drivers |-> <<>>]
        ELSE [status |-> classify(When(prog.mode # "plan", "invalid_value"), checks), drivers |-> checks]

(***************************************************************************)
(* Compilers.  spec.given is the set of optional fields of the request.    *)
(***************************************************************************)
opId(programId, label, explicit) ==
    IF explicit # "" THEN explicit ELSE programId \o "." \o label

\* collectInstructionPaths takes "from" and "to" for paths, of a diff too, where they
\* name snapshots.
Inst(id, op, keys, spec, dependsOn, output, oid) ==
    [id |-> id, op |-> op, dependsOn |-> dependsOn,
     pre |-> {[kind |-> "instruction_status", instruction |-> d] : d \in ToSet(dependsOn)},
     output |-> output, opId |-> oid,
     args |-> [keys |-> keys, bad |-> {}, target |-> "",
               paths |-> (IF "roots" \in keys THEN {spec.root} ELSE {})
                         \cup (IF keys \cap {"from", "to"} # {} THEN {spec.snapshot} ELSE {}),
               workspaces |-> IF keys \cap {"workspace", "cwd"} # {} THEN {spec.workspace} ELSE {},
               secrets |-> IF "secretEnv" \in keys THEN {spec.secret} ELSE {}]]

Program(spec, insts) ==
    [isa |-> [major |-> 1, minor |-> -1], mode |-> spec.mode,
     capability |-> IF "capability" \in spec.given THEN spec.capability ELSE "", instructions |-> insts]

compileExecuteProcess(spec) ==
    LET timeout == spec.given \cap {"timeoutMs"}
    IN  Program(spec,
          <<Inst("t.spawn", "proc.spawn",
                 {"argv", "cwd", "stdio"} \cup (spec.given \cap {"env", "secretEnv"}) \cup timeout,
                 spec, <<>>, "t.process", opId(spec.programId, "t.spawn", spec.opId)),
            Inst("t.wait", "proc.wait", {"process"} \cup timeout, spec, <<"t.spawn">>, "t.result",
                 opId(spec.programId, "t.wait", ""))>>)

\* The required and the optional keys of the operations compiled to one instruction
SingleKeys ==
    "workspace.snapshot" :> <<{"label"}, {"workspace", "roots"}>>
 @@ "workspace.diff" :> <<{"from"}, {"workspace", "to"}>>
 @@ "workspace.rollback" :> <<{"snapshot"}, {"workspace", "roots"}>>
 @@ "artifact.put" :> <<{"content"}, {"mediaType", "sensitivity", "ttlMs"}>>
 @@ "artifact.get" :> <<{"artifact"}, {"range"}>>
 @@ "artifact.stream" :> <<{"artifact"}, {"cursor", "maxBytes"}>>

compileSingle(op, spec) ==
    Program(spec, <<Inst(op, op, SingleKeys[op][1] \cup (spec.given \cap SingleKeys[op][2]), spec,
                         <<>>, "out", opId(spec.programId, op, spec.opId))>>)
=============================================================================
