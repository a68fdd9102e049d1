--------------------------- MODULE AtomicWorkspace ---------------------------
(***************************************************************************)
(* What workspace transactions promise (docs: "workspace transactions",    *)
(* src/src/workspace/transactions.ts): a transaction starts from a state   *)
(* the workspace had, and its writes arrive in one step, over paths nobody *)
(* has changed since.  There are no forks, journals, leases, partial       *)
(* copies or crashes here.                                                 *)
(***************************************************************************)


CONSTANTS Tx, Path, Value

VARIABLES
    ws,        \* the workspace
    start,     \* the state each transaction started from
    replayed,  \* the states on which its observations were found to hold again
    phase      \* of each transaction

awvars == <<ws, start, replayed, phase>>

Contents == [Path -> Value]

Init ==
    /\ ws \in Contents
    /\ start = [t \in Tx |-> ws]
    /\ replayed = [t \in Tx |-> {}]
    /\ phase = [t \in Tx |-> "none"]

\* A transaction starts from the present state or from that of another one.
Begin(t) ==
    /\ phase[t] = "none"
    /\ phase' = [phase EXCEPT ![t] = "open"]
    /\ \E from \in {ws} \cup {start[u] : u \in Tx} :
          start' = [start EXCEPT ![t] = from]
    /\ UNCHANGED <<ws, replayed>>

\* Its observations are repeated on the present state.
Replay(t) ==
    /\ phase[t] = "open"
    /\ replayed' = [replayed EXCEPT ![t] = {ws}]
    /\ UNCHANGED <<ws, start, phase>>

\* All writes at once, each over a path that is as the transaction or its replay
\* found it.
Commit(t) ==
    /\ phase[t] = "open"
    /\ \E found \in {start[t]} \cup replayed[t], W \in SUBSET Path :
          /\ \A p \in W : ws[p] = found[p]
          /\ \E new \in [W -> Value] : ws' = [p \in Path |-> IF p \in W THEN new[p] ELSE ws[p]]
    /\ phase' = [phase EXCEPT ![t] = "over"]
    /\ UNCHANGED <<start, replayed>>

\* Conflicts that are final, aborts, losses; an unfinished replay is forgotten.
Close ==
    /\ \E S \in SUBSET {t \in Tx : phase[t] = "open"} :
          phase' = [t \in Tx |-> IF t \in S THEN "over" ELSE phase[t]]
    /\ \E F \in SUBSET Tx :
          replayed' = [t \in Tx |-> IF t \in F THEN {} ELSE replayed[t]]
    /\ UNCHANGED <<ws, start>>

\* A write that is not part of a transaction.
Outside ==
    /\ \E p \in Path, v \in Value : ws' = [ws EXCEPT ![p] = v]
    /\ UNCHANGED <<start, replayed, phase>>

Next ==
    \/ Outside \/ Close
    \/ \E t \in Tx : Begin(t) \/ Replay(t) \/ Commit(t)

Spec == Init /\ [][Next]_awvars
=============================================================================
