----------------------------- MODULE CausalGraph -----------------------------
(***************************************************************************)
(* The causal graph over the journal (src/workspace/causal-graph.ts): what *)
(* an evidence change invalidates, and why.  Pure operators.               *)
(*                                                                         *)
(* deps is the history: deps[n] is the set of earlier nodes that node n    *)
(* depends on (record() accepts existing nodes only), so that the order of *)
(* the journal is topological.                                             *)
(***************************************************************************)
EXTENDS Integers, Sequences, SequencesExt, FiniteSets, Folds

Upto(n) == [i \in 1..n |-> i]

\* record: the new node must depend on nodes that are there.
recordStep(deps, dependsOn) ==
    IF dependsOn \subseteq 1..Len(deps) THEN Append(deps, dependsOn) ELSE deps

\* From the latest node back, the dependencies of what is needed are needed.
Needed(deps, start, cut) ==
    FoldLeft(LAMBDA need, i : IF i \in need THEN need \cup deps[i] ELSE need, start, Reverse(Upto(cut)))

ancestors(deps, n) == Needed(deps, deps[n], n)

view(deps, heads) ==
    LET cutoff == IF heads = {} THEN 0 ELSE CHOOSE h \in heads : \A g \in heads : g <= h
    IN  Needed(deps, heads, cutoff)

\* In journal order, a node that depends on an invalid one is invalid.
Invalid(deps, nodes, changed) ==
    FoldLeft(LAMBDA inv, n : IF n \in nodes /\ deps[n] \cap inv # {} THEN inv \cup {n} ELSE inv,
             changed, Upto(Len(deps)))

planRecomputation(deps, nodes, changed) ==
    LET invalid == Invalid(deps, nodes, changed)
    IN  [invalidated |-> nodes \cap invalid, unaffected |-> nodes \ invalid]

(***************************************************************************)
(* Breadth first from one changed node, children in journal order; gives   *)
(* the path to every node reached.                                         *)
(***************************************************************************)
RECURSIVE Search(_, _, _, _)
Search(deps, nodes, queue, paths) ==
    IF queue = <<>> THEN paths
    ELSE LET seq == Head(queue)
             new == {c \in nodes : seq \in deps[c] /\ c \notin DOMAIN paths}
         IN  Search(deps, nodes, Tail(queue) \o SetToSortSeq(new, <),
                    [n \in DOMAIN paths \cup new |->
                        IF n \in new THEN Append(paths[seq], n) ELSE paths[n]])

explainRecomputation(deps, nodes, changed) ==
    LET invalidated == planRecomputation(deps, nodes, changed).invalidated
    IN  [seed \in changed |-> Search(deps, invalidated, <<seed>>, [n \in {seed} |-> <<seed>>])]
=============================================================================
