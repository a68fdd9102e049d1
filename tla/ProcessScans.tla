---------------------------- MODULE ProcessScans ----------------------------
(***************************************************************************)
(* What is concluded from process tables: the sampler that the node driver *)
(* asks (src/src/driver/sampler.ts) and the watchdog of a wrapped harness  *)
(* (src/src/gateway/shell-shim.ts).  Pure operators.                       *)
(*                                                                         *)
(* A table is a function from pids to rows [ppid, pgid, z, start]; real is *)
(* the table of the kernel, which kill(pid, 0) asks, and snap the rows     *)
(* that ps gave, which may lack some.                                      *)
(***************************************************************************)
EXTENDS Integers, Sequences, SequencesExt, FiniteSets

InitProc == 1
Running(table) == {p \in DOMAIN table : ~ table[p].z}

\* As many rounds as a closure over S can need.
Steps(S) == [i \in 1..Cardinality(S) |-> i]

\* The processes that are reached from a set by the ppid column.
Below(table, from) ==
    FoldLeft(LAMBDA reached, i : reached \cup {p \in DOMAIN table : table[p].ppid \in reached},
             from, Steps(DOMAIN table))

-----------------------------------------------------------------------------
(* The sampler *)

\* getProcessTree, allDescendants: from the leader and the seeds down, then who
\* else is in the group of the leader.
getProcessTree(snap, leader, seeds) ==
    LET visited == Below(snap, {leader} \cup seeds)
    IN  ((visited \ {leader}) \cap Running(snap))
            \cup {p \in Running(snap) \ visited : snap[p].pgid = leader}

\* runCycle, for one watcher.
runCycle(snap, leader, seeds) == seeds \cup getProcessTree(snap, leader, seeds)

Unknown == [known |-> FALSE, running |-> {}, unreaped |-> {}]

\* Mutant: a pid that ps does not list is gone.
ClassifyListed(snap, real, pids) ==
    [known |-> TRUE, running |-> pids \cap Running(snap), unreaped |-> (pids \cap DOMAIN snap) \ Running(snap)]

\* Nothing is concluded while the kernel knows a pid that ps does not list.
classifyPids(snap, real, pids) ==
    IF (pids \ DOMAIN snap) \cap DOMAIN real # {} THEN Unknown
    ELSE [known |-> TRUE, running |-> pids \cap Running(snap), unreaped |-> (pids \cap DOMAIN snap) \ Running(snap)]

Members(table, pgid) == {p \in DOMAIN table : table[p].pgid = pgid}

\* "yes", "no", or an observation error: an existing group that ps does not list.
isGroupAlive(snap, real, pgid) ==
    CASE Members(real, pgid) = {} -> "no"
      [] Members(real, pgid) # {} /\ Members(snap, pgid) \cap Running(snap) # {} -> "yes"
      [] Members(real, pgid) # {} /\ Members(snap, pgid) = {} -> "error"
      [] OTHER -> "no"

\* terminateWithEvidence: what a look at the table leads to.  At the first one, before
\* it sends a signal, it answers only if the group is empty as well; at the last one it
\* answers whatever it sees.  cumSet is empty once the driver has seen the child close.
StopVerdict(snap, real, leader, cumSet, first) ==
    LET c == classifyPids(snap, real, {leader} \cup cumSet \cup getProcessTree(snap, leader, cumSet))
        group == IF first THEN isGroupAlive(snap, real, leader) ELSE "no"
    IN  CASE ~c.known \/ group = "error" -> "cannot_determine"
          [] c.known /\ group = "no" /\ c.running = {} -> "confirmed_stopped"
          [] OTHER -> IF first THEN "signals" ELSE "cannot_determine"

\* settleTree: with no time left to wait.
SettleVerdict(snap, real, pgid) == IF isGroupAlive(snap, real, pgid) = "yes" THEN "residual" ELSE "unknown"

-----------------------------------------------------------------------------
(* The watchdog: which processes it tracks, and in which groups *)

\* A root is watched: it is taken to lead a group.
Watching(roots) == [roots |-> roots, pids |-> {}, pgids |-> roots, hostPgid |-> 0]

Tracked(w) == {e[1] : e \in w.pids}

\* The roots, the children of what is tracked, and the groups of what is tracked.
Counts(w, row, p, host) ==
    \/ p \in w.roots
    \/ row.ppid > InitProc /\ row.ppid \in Tracked(w)
    \/ row.pgid # w.hostPgid /\ row.pgid \in w.pgids

\* scanProcessTable: until nothing is added.  A pid is tracked once, with the start
\* time it had then; the group of the host is remembered.
scanProcessTable(w, table, host) ==
    LET rows == Running(table) \ {host}
        first == [w EXCEPT !.hostPgid = IF host \in Running(table) THEN table[host].pgid ELSE @]
        grow(v, i) ==
          LET more == {p \in rows \ Tracked(v) : Counts(v, table[p], p, host)}
          IN  [v EXCEPT !.pids = @ \cup {<<p, table[p].start>> : p \in more},
                        !.pgids = @ \cup ({table[p].pgid : p \in more} \ {host, v.hostPgid})]
    IN  FoldLeft(grow, first, Steps(rows))

\* reapAll: one more scan, SIGKILL to every tracked group and to every tracked
\* pid that still has its start time.
reapAll(w, table, host) ==
    LET v == scanProcessTable(w, table, host)
    IN  {p \in Running(table) : table[p].pgid \in v.pgids \ {host, v.hostPgid}}
            \cup {p \in Running(table) : <<p, table[p].start>> \in v.pids}
=============================================================================
