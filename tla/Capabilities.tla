---------------------------- MODULE Capabilities ----------------------------
(***************************************************************************)
(* Capabilities: scopes, attenuation and admission (src/capability,        *)
(* ExecutionDomain.issueCapability, attenuate, checkCapabilityAdmission).  *)
(* Pure operators over a chain of capabilities, caps[i + 1] attenuated from*)
(* caps[i].  Lists whose order nothing depends on are sets.  An optional   *)
(* argument is <<>> or <<value>>.  What throws gives <<>>, else <<value>>. *)
(*                                                                         *)
(* A path is a sequence of segments, already absolute and without "..";    *)
(* one directory of it may be a symbolic link.                             *)
(***************************************************************************)
EXTENDS Integers, Sequences, SequencesExt, FiniteSets

Given(opt) == opt # <<>>
OrElse(opt, default) == IF Given(opt) THEN opt[1] ELSE default

(***************************************************************************)
(* Paths                                                                   *)
(***************************************************************************)
\* The link of the workspace and the directory it leads to
LinkPath == <<"ws", "link">>
LinkTarget == <<"out">>

resolveRealPath(p) ==
    IF IsPrefix(LinkPath, p) THEN LinkTarget \o SubSeq(p, Len(LinkPath) + 1, Len(p)) ELSE p

\* The prefix before a wildcard is resolved and the wildcard put back behind it.
\* Resolving drops the separator at the end of "dir/", so that "dir/*" becomes "dir*".
normalizePathPattern(p) ==
    LET wild == p # <<>> /\ Last(p) = "*"
        prefix == resolveRealPath(IF wild THEN Front(p) ELSE p)
    IN  IF ~wild THEN prefix
        ELSE IF prefix = <<>> THEN <<"*">> ELSE Append(Front(prefix), Last(prefix) \o "*")

isPathContained(parent, child) == IsPrefix(resolveRealPath(parent), resolveRealPath(child))

(***************************************************************************)
(* Scopes.  A requested scope has optional fields.                         *)
(***************************************************************************)
AllOpcodes == {"proc.spawn", "fs.read"}

normalizePaths(paths) == {normalizePathPattern(p) : p \in paths}

normalizeScope(req) ==
    [write      |-> normalizePaths(OrElse(req.write, {})),
     exclusive  |-> OrElse(req.exclusive, {}),
     opcodes    |-> OrElse(req.opcodes, AllOpcodes),
     workspaces |-> OrElse(req.workspaces, {}),
     paths      |-> normalizePaths(OrElse(req.paths, OrElse(req.write, {}))),
     secrets    |-> OrElse(req.secrets, {})]

\* A stored scope has every field.
Renormalized(scope) == normalizeScope([f \in DOMAIN scope |-> <<scope[f]>>])

\* What is not asked for is as the parent has it; paths: those asked for, if any.
NarrowedScope(parent, req, paths) ==
    [write |-> OrElse(paths, parent.write), paths |-> OrElse(paths, parent.paths),
     exclusive |-> OrElse(req.exclusive, parent.exclusive), opcodes |-> OrElse(req.opcodes, parent.opcodes),
     workspaces |-> OrElse(req.workspaces, parent.workspaces), secrets |-> OrElse(req.secrets, parent.secrets)]

\* Mutant: a child may lift the restriction to some workspaces.
IsNarrowerUnrestricted(child, parent, req) ==
    /\ \A c \in child.paths : \E p \in parent.paths : isPathContained(p, c)
    /\ \A f \in {"exclusive", "opcodes", "secrets"} : child[f] \subseteq parent[f]
    /\ parent.workspaces # {} => child.workspaces \subseteq parent.workspaces

IsNarrower(child, parent, req) ==
    /\ \A c \in child.paths : \E p \in parent.paths : isPathContained(p, c)
    /\ \A f \in {"exclusive", "opcodes", "secrets"} : child[f] \subseteq parent[f]
    /\ parent.workspaces # {} => child.workspaces \subseteq parent.workspaces /\ req.workspaces # <<{}>>

validateScopeNarrowing(parentScope, req) ==
    LET parent == Renormalized(parentScope)
        asked == IF Given(req.paths) THEN req.paths ELSE req.write
        child == NarrowedScope(parent, req, IF Given(asked) THEN <<normalizePaths(asked[1])>> ELSE <<>>)
    IN  IF IsNarrower(child, parent, req) THEN <<child>> ELSE <<>>

(***************************************************************************)
(* Limits.  A limit is a natural number; -1 stands for a bad value.        *)
(***************************************************************************)
LimitKeys == {"cpuMs", "concurrentOps", "processes"}
DEFAULT_CAPABILITY_LIMITS == [k \in LimitKeys |-> 9]

normalizeCapabilityLimits(limits) ==
    IF \E k \in LimitKeys : limits[k] < 0 THEN <<>> ELSE <<limits>>

\* asked: a function from some of the keys
narrowCapabilityLimits(parent, asked) ==
    LET child == [k \in LimitKeys |-> IF k \in DOMAIN asked THEN asked[k] ELSE parent[k]]
    IN  IF \E k \in LimitKeys : child[k] > parent[k] THEN <<>>
        ELSE normalizeCapabilityLimits(child)

(***************************************************************************)
(* Issue and attenuate.  Times and epochs are numbers.                     *)
(***************************************************************************)
issueCapability(req, now, epoch) ==
    LET limits == normalizeCapabilityLimits(
                      [k \in LimitKeys |-> IF k \in DOMAIN req.limits THEN req.limits[k]
                                           ELSE DEFAULT_CAPABILITY_LIMITS[k]])
        expiresAt == now + OrElse(req.ttl, 9)
    IN  IF limits = <<>> \/ expiresAt <= now THEN <<>>
        ELSE <<[scope |-> normalizeScope(req.scope), limits |-> limits[1], expiresAt |-> expiresAt,
                epoch |-> epoch, policy |-> req.policy, revoked |-> FALSE]>>

\* The capability and every ancestor of it: not revoked, of this epoch, not expired
Live(cap, now, epoch) == ~cap.revoked /\ cap.epoch = epoch /\ now < cap.expiresAt
ChainLive(caps, now, epoch) == \A i \in 1..Len(caps) : Live(caps[i], now, epoch)

attenuate(caps, req, now, epoch) ==
    LET parent == Last(caps)
        scope == validateScopeNarrowing(parent.scope, req.scope)
        limits == narrowCapabilityLimits(parent.limits, req.limits)
        wish == IF Given(req.ttl) THEN now + req.ttl[1] ELSE parent.expiresAt
    IN  IF ~ChainLive(caps, now, epoch) \/ scope = <<>> \/ limits = <<>> THEN <<>>
        ELSE <<[scope |-> scope[1], limits |-> limits[1],
                expiresAt |-> IF wish < parent.expiresAt THEN wish ELSE parent.expiresAt,
                epoch |-> epoch, policy |-> parent.policy, revoked |-> FALSE]>>

(***************************************************************************)
(* Admission.  ask: what the operation needs; active: how many operations  *)
(* that name this very capability (not one attenuated from it) are not     *)
(* done, and how many of these are processes or services.  Gives the       *)
(* effective resources, roots and limits.                                  *)
(***************************************************************************)
checkCapabilityAdmission(caps, ask, active, now, epoch) ==
    LET cap == Last(caps)
        scope == Renormalized(cap.scope)
        roots == normalizePaths(ask.roots)
    IN  IF /\ ChainLive(caps, now, epoch)
           /\ Given(ask.policy) => ask.policy[1] = cap.policy
           /\ Given(ask.opcode) => ask.opcode[1] \in scope.opcodes
           /\ Given(ask.workspace) /\ scope.workspaces # {} => ask.workspace[1] \in scope.workspaces
           /\ ask.secrets \subseteq scope.secrets
           /\ \A k \in DOMAIN ask.limits : ask.limits[k] <= cap.limits[k]
           /\ active.ops < cap.limits["concurrentOps"]
           /\ ask.opcode = <<"proc.spawn">> => active.processes < cap.limits["processes"]
           /\ ask.resources \subseteq scope.exclusive
           /\ \A r \in roots : \E p \in scope.paths : isPathContained(p, r)
        THEN <<[resources |-> IF ask.resources # {} THEN ask.resources ELSE scope.exclusive,
                roots |-> IF ask.roots # {} THEN roots ELSE scope.paths,
                limits |-> cap.limits]>>
        ELSE <<>>
=============================================================================
