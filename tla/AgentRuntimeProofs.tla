------------------------ MODULE AgentRuntimeProofs ------------------------
(***************************************************************************)
(* Proofs about AgentRuntime, for any tree of agents and any budgets: the  *)
(* types and the room of the scheduler, the budgets, that a broken task is *)
(* told to stop and a task completed as a whole, and that an interruption  *)
(* covers the work of its task.                                            *)
(***************************************************************************)
EXTENDS AgentRuntime, FiniteSetTheorems, WellFoundedInduction, TLAPS

States == [status : Status, cancel : BOOLEAN, pause : BOOLEAN]

\* Types of the journal and of the memory.
JournalOK ==
    /\ st \in [Agent -> States] /\ steps \in [Agent -> Nat]
    /\ runOpen \in BOOLEAN /\ calls \in Nat /\ crashes \in Nat
QuantaOK ==
    /\ quantum \in [Agent -> Place] /\ cmds \in [Agent -> Nat]
    /\ aborted \in SUBSET Agent /\ failed \in SUBSET Agent
    /\ outcome \in [Agent -> {"none", "ready", "completed", "throws"}]
MemoryOK ==
    /\ recov \in SUBSET Agent /\ gaveUp \in SUBSET Agent /\ prev \in [Agent -> States]
    /\ barriers \in SUBSET Agent
    /\ sched \in {"off", "wake", "race", "recov"}
    /\ phase \in {"open", "stopping", "fenced", "closed"}

\* The scheduler keeps to its room.
RoomInv == Cardinality(Active) <= MaxConcurrent

\* A step that is validated can still be paid by the agent.
BudgetInv ==
    /\ BudgetsHold
    /\ \A a \in Agent : quantum[a] = "checking" => steps[a] < MaxSteps[a]

\* The journal and the maps in memory agree on who is at work.
PlaceInv ==
    \A a \in Agent :
        /\ quantum[a] = "queued" => st[a].status \in {"ready", "paused", "interrupted"}
        /\ quantum[a] = "checking" <=> st[a].status = "checking"
        /\ quantum[a] \in {"stepping", "closing"} <=> st[a].status = "running"
        /\ cmds[a] > 0 => quantum[a] \in {"stepping", "closing"}
        /\ a \in recov <=> st[a].status = "recovering"
        /\ a \in recov => prev[a].status \in {"paused", "interrupted"}

\* Who is cancelled is at work or has ended.
Cancelled == {"interrupted", "failed", "checking", "running", "recovering"}
CancelInv ==
    \A a \in Agent : /\ st[a].cancel => st[a].status \in Cancelled
                     /\ prev[a].cancel => prev[a].status = "interrupted"

\* A parent is there before its children.
CreatedInv == \A a \in Created : Parent[a] # NoAgent => Parent[a] \in Created

\* A quantum of a broken task has been told, or will not begin, or a recovery was
\* given up and the scheduler has not turned since.
GivenUp(r) == \E b \in gaveUp : RootOf(b) = r
FenceInv ==
    \A a \in Active : RootOf(a) \in BrokenScopes(st) =>
        \/ GivenUp(RootOf(a))
        \/ quantum[a] = "queued" /\ st[a].status = "interrupted"
        \/ quantum[a] # "queued" /\ a \in aborted

\* Behind the barrier of an interruption nobody is ready, and who is at work is told.
BarrierInv ==
    \A r \in barriers :
        /\ r \in Created /\ Parent[r] = NoAgent
        /\ \A a \in Agent : RootOf(a) = r =>
              st[a].status # "ready" /\ (a \in Active => a \in aborted)

\* The inductive invariant.
Types == JournalOK /\ QuantaOK /\ MemoryOK
IInv ==
    /\ Types
    /\ RoomInv /\ BudgetInv /\ PlaceInv /\ CancelInv /\ CreatedInv /\ FenceInv /\ BarrierInv
    /\ CompletedMeansAll

-----------------------------------------------------------------------------
\* Sums over a finite set, as MapThenSumSet makes them.

\* Every set of natural numbers that is not empty has a least element.
LEMMA LeastNat ==
  ASSUME NEW T \in SUBSET Nat, T # {}
  PROVE  \E n \in T : \A m \in T : n <= m
<1>1. PICK n \in T : \A m \in T : <<m, n>> \notin OpToRel(<, Nat)
  BY NatLessThanWellFounded, WFMin
<1>2. \A m \in T : ~(m < n)
  BY <1>1 DEF OpToRel
<1> QED
  BY <1>2

\* The element that a fold takes next, and what is left.
Pick(s) == CHOOSE x \in s : TRUE
Rest(s) == s \ {Pick(s)}

\* What is left is smaller.
LEMMA RestSmaller ==
  ASSUME NEW s, IsFiniteSet(s), s # {}
  PROVE  /\ Pick(s) \in s /\ IsFiniteSet(Rest(s))
         /\ Cardinality(s) \in Nat /\ Cardinality(Rest(s)) \in Nat
         /\ Cardinality(Rest(s)) = Cardinality(s) - 1
<1>1. Pick(s) \in s
  BY DEF Pick
<1> QED
  BY <1>1, FS_RemoveElement, FS_CardinalityType DEF Rest

\* Induction over the subsets of a finite set, in the order of the fold.
LEMMA SubsetInduction ==
  ASSUME NEW S, IsFiniteSet(S), NEW B, {} \in B,
         \A s \in SUBSET S : s # {} /\ Rest(s) \in B => s \in B
  PROVE  SUBSET S \subseteq B
<1> DEFINE Bad == {s \in SUBSET S : s \notin B}
           Sizes == {Cardinality(s) : s \in Bad}
<1> SUFFICES ASSUME Bad # {} PROVE FALSE
  OBVIOUS
<1>1. \A s \in SUBSET S : IsFiniteSet(s) /\ Cardinality(s) \in Nat
  BY FS_Subset, FS_CardinalityType
<1>2. Sizes \in SUBSET Nat /\ Sizes # {}
  BY <1>1
<1> HIDE DEF Sizes
<1>3. PICK n \in Sizes : \A m \in Sizes : n <= m
  BY <1>2, LeastNat
<1>4. PICK s \in Bad : n = Cardinality(s)
  BY DEF Sizes
<1>5. s # {} /\ IsFiniteSet(s)
  BY <1>1
<1>6. /\ Cardinality(s) \in Nat /\ Cardinality(Rest(s)) \in Nat
      /\ Cardinality(Rest(s)) = Cardinality(s) - 1
  BY <1>5, RestSmaller
<1>7. Rest(s) \in B
  <2>1. Rest(s) \in SUBSET S
    BY DEF Rest
  <2>2. Rest(s) \in Bad => Cardinality(Rest(s)) \in Sizes
    BY DEF Sizes
  <2>3. Cardinality(Rest(s)) \notin Sizes
    BY <1>3, <1>4, <1>6
  <2> QED
    BY <2>1, <2>2, <2>3
<1> QED
  BY <1>5, <1>7

\* g sums up f over the sets of D.
Sums(f, D, g) == g = [s \in D |-> IF s = {} THEN 0 ELSE f[Pick(s)] + g[Rest(s)]]

\* There is such a function for all subsets of a finite set.
LEMMA SumsExist ==
  ASSUME NEW f, NEW S, IsFiniteSet(S)
  PROVE  \E g : Sums(f, SUBSET S, g)
<1> DEFINE Level(n) == {s \in SUBSET S : Cardinality(s) <= n}
           Bad == {n \in Nat : ~\E g : Sums(f, Level(n), g)}
<1>1. \A s \in SUBSET S : IsFiniteSet(s) /\ Cardinality(s) \in Nat
                           /\ Cardinality(s) <= Cardinality(S)
  BY FS_Subset, FS_CardinalityType
<1>2. Bad = {}
  <2> SUFFICES ASSUME Bad # {} PROVE FALSE
    OBVIOUS
  <2>1. PICK n \in Bad : \A m \in Bad : n <= m
    BY LeastNat
  <2>2. CASE n = 0
    <3>1. \A s \in Level(n) : s = {}
      BY <1>1, <2>2, FS_EmptySet
    <3>2. Sums(f, Level(n), [s \in Level(n) |-> 0])
      BY <3>1 DEF Sums
    <3> QED
      BY <2>1, <3>2
  <2>3. CASE n # 0
    <3>1. n \in Nat /\ n - 1 \in Nat
      BY <2>1, <2>3
    <3>2. n - 1 \notin Bad
      <4> HIDE DEF Bad
      <4> QED
        BY <2>1, <3>1
    <3>3. PICK g : Sums(f, Level(n - 1), g)
      BY <3>1, <3>2
    <3> DEFINE h == [s \in Level(n) |-> IF s = {} THEN 0 ELSE f[Pick(s)] + g[Rest(s)]]
    <3>4. ASSUME NEW s \in Level(n), s # {} PROVE g[Rest(s)] = h[Rest(s)]
      <4>1. Rest(s) \in SUBSET S /\ Cardinality(Rest(s)) <= n - 1
            /\ Cardinality(Rest(s)) \in Nat
        BY <1>1, <3>4, RestSmaller DEF Rest
      <4>2. Rest(s) \in Level(n - 1) /\ Rest(s) \in Level(n)
        BY <4>1
      <4> QED
        BY <3>3, <4>2 DEF Sums
    <3>5. Sums(f, Level(n), h)
      BY <3>4 DEF Sums
    <3> QED
      BY <2>1, <3>5
  <2> QED
    BY <2>2, <2>3
<1>3. Cardinality(S) \in Nat /\ Level(Cardinality(S)) = SUBSET S
  BY <1>1
<1> QED
  BY <1>2, <1>3

\* The total is what such a function says of the whole set.
LEMMA TotalSums ==
  ASSUME NEW f, NEW S, IsFiniteSet(S)
  PROVE  \E g : Sums(f, SUBSET S, g) /\ Total(f, S) = g[S]
<1>1. Total(f, S) = (CHOOSE g : Sums(f, SUBSET S, g))[S]
  BY DEF Total, MapThenSumSet, MapThenFoldSet, Sums, Pick, Rest
<1>2. Sums(f, SUBSET S, CHOOSE g : Sums(f, SUBSET S, g))
  BY SumsExist
<1> QED
  BY <1>1, <1>2

\* One step of it.
LEMMA SumsStep ==
  ASSUME NEW f, NEW S, NEW g, Sums(f, SUBSET S, g)
  PROVE  /\ g[{}] = 0
         /\ \A s \in SUBSET S : s # {} => g[s] = f[Pick(s)] + g[Rest(s)]
  BY DEF Sums

\* The total of natural numbers is one, of zeros it is zero.
LEMMA TotalNat ==
  ASSUME NEW S, IsFiniteSet(S), NEW f \in [S -> Nat]
  PROVE  Total(f, S) \in Nat
<1>1. PICK g : Sums(f, SUBSET S, g) /\ Total(f, S) = g[S]
  BY TotalSums
<1> DEFINE B == {s \in SUBSET S : g[s] \in Nat}
<1>2. {} \in B
  BY <1>1, SumsStep
<1>3. ASSUME NEW s \in SUBSET S, s # {}, Rest(s) \in B PROVE s \in B
  <2>1. Pick(s) \in S /\ f[Pick(s)] \in Nat
    BY <1>3 DEF Pick
  <2>2. g[s] = f[Pick(s)] + g[Rest(s)]
    BY <1>1, <1>3, SumsStep
  <2> QED
    BY <1>3, <2>1, <2>2
<1>4. SUBSET S \subseteq B
  <2> HIDE DEF B
  <2> QED
    BY <1>2, <1>3, SubsetInduction
<1> QED
  BY <1>1, <1>4

\* The total of zeros is zero.
LEMMA TotalZero ==
  ASSUME NEW S, IsFiniteSet(S)
  PROVE  Total([a \in S |-> 0], S) = 0
<1> DEFINE f == [a \in S |-> 0]
<1>1. PICK g : Sums(f, SUBSET S, g) /\ Total(f, S) = g[S]
  BY TotalSums
<1> DEFINE B == {s \in SUBSET S : g[s] = 0}
<1>2. {} \in B
  BY <1>1, SumsStep
<1>3. ASSUME NEW s \in SUBSET S, s # {}, Rest(s) \in B PROVE s \in B
  <2>1. Pick(s) \in S /\ f[Pick(s)] = 0
    BY <1>3 DEF Pick
  <2>2. g[s] = f[Pick(s)] + g[Rest(s)]
    BY <1>1, <1>3, SumsStep
  <2> QED
    BY <1>3, <2>1, <2>2
<1>4. SUBSET S \subseteq B
  <2> HIDE DEF B
  <2> QED
    BY <1>2, <1>3, SubsetInduction
<1> QED
  BY <1>1, <1>4

\* What one of them gets more, the total gets more.
LEMMA TotalAdd ==
  ASSUME NEW S, IsFiniteSet(S), NEW f \in [S -> Nat], NEW a \in S
  PROVE  Total([f EXCEPT ![a] = f[a] + 1], S) = Total(f, S) + 1
<1> DEFINE f1 == [f EXCEPT ![a] = f[a] + 1]
<1>1. PICK g : Sums(f, SUBSET S, g) /\ Total(f, S) = g[S]
  BY TotalSums
<1>2. PICK g1 : Sums(f1, SUBSET S, g1) /\ Total(f1, S) = g1[S]
  BY TotalSums
<1> HIDE DEF f1
<1> DEFINE B == {s \in SUBSET S : /\ g[s] \in Nat /\ g1[s] \in Nat
                                  /\ g1[s] = IF a \in s THEN g[s] + 1 ELSE g[s]}
<1>3. {} \in B
  BY <1>1, <1>2, SumsStep
<1>4. ASSUME NEW s \in SUBSET S, s # {}, Rest(s) \in B PROVE s \in B
  <2>1. Pick(s) \in s /\ Pick(s) \in S
    BY <1>4 DEF Pick
  <2>2. f[Pick(s)] \in Nat /\ f1[Pick(s)] = IF Pick(s) = a THEN f[Pick(s)] + 1 ELSE f[Pick(s)]
    BY <2>1 DEF f1
  <2>3. g[s] = f[Pick(s)] + g[Rest(s)] /\ g1[s] = f1[Pick(s)] + g1[Rest(s)]
    BY <1>1, <1>2, <1>4, SumsStep
  <2>4. a \in Rest(s) <=> a \in s /\ a # Pick(s)
    BY DEF Rest
  <2> QED
    BY <1>4, <2>1, <2>2, <2>3, <2>4
<1>5. SUBSET S \subseteq B
  <2> HIDE DEF B
  <2> QED
    BY <1>3, <1>4, SubsetInduction
<1>6. S \in B
  BY <1>5
<1>7. g1[S] = g[S] + 1
  BY <1>6
<1> QED
  BY <1>1, <1>2, <1>7 DEF f1

-----------------------------------------------------------------------------
\* The chain of parents.

Closed(S) == \A c \in S : Parent[c] # NoAgent => Parent[c] \in S

\* It holds the agent and is closed under parents, and is the least such set.
LEMMA Chain ==
  ASSUME NEW a \in Agent
  PROVE  /\ Ancestors(a) \in SUBSET Agent /\ a \in Ancestors(a) /\ Closed(Ancestors(a))
         /\ \A S \in SUBSET Agent : a \in S /\ Closed(S) => Ancestors(a) \subseteq S
<1>1. Ancestors(a) = {b \in Agent : \A S \in SUBSET Agent : a \in S /\ Closed(S) => b \in S}
  BY DEF Ancestors, AncestorSets, Closed
<1>2. Closed(Ancestors(a))
  BY <1>1, AgentAssumption DEF Closed
<1> QED
  BY <1>1, <1>2

\* Ancestors of an ancestor are ancestors.
LEMMA ChainTransitive ==
  ASSUME NEW a \in Agent, NEW b \in Ancestors(a)
  PROVE  b \in Agent /\ Ancestors(b) \subseteq Ancestors(a)
<1>1. b \in Agent /\ Ancestors(a) \in SUBSET Agent /\ Closed(Ancestors(a))
  BY Chain
<1> QED
  BY Chain

\* The chain is the agent and the chain of its parent.
LEMMA ChainStep ==
  ASSUME NEW a \in Agent
  PROVE  /\ Parent[a] = NoAgent => Ancestors(a) = {a}
         /\ Parent[a] # NoAgent => /\ Parent[a] \in Agent
                                   /\ Ancestors(a) = {a} \cup Ancestors(Parent[a])
<1>1. CASE Parent[a] = NoAgent
  <2>1. Closed({a})
    BY <1>1 DEF Closed
  <2> QED
    BY <1>1, <2>1, Chain
<1>2. CASE Parent[a] # NoAgent
  <2>1. Parent[a] \in Agent
    BY <1>2, AgentAssumption
  <2>2. Parent[a] \in Ancestors(a) /\ a \in Ancestors(a)
    BY <1>2, Chain DEF Closed
  <2>3. Ancestors(Parent[a]) \subseteq Ancestors(a)
    BY <2>2, ChainTransitive
  <2>4. Closed({a} \cup Ancestors(Parent[a]))
    BY <2>1, Chain DEF Closed
  <2>5. Ancestors(a) \subseteq {a} \cup Ancestors(Parent[a])
    BY <2>1, <2>4, Chain
  <2> QED
    BY <1>2, <2>1, <2>2, <2>3, <2>5
<1> QED
  BY <1>1, <1>2

\* It has one root.
LEMMA OneRoot ==
  ASSUME NEW a \in Agent, NEW b \in Ancestors(a), NEW c \in Ancestors(a),
         Parent[b] = NoAgent, Parent[c] = NoAgent
  PROVE  b = c
<1> DEFINE S == {d \in Ancestors(a) : b \in Ancestors(d)}
<1>1. Ancestors(a) \in SUBSET Agent /\ a \in S
  BY Chain
<1>2. Closed(S)
  <2> SUFFICES ASSUME NEW d \in S, Parent[d] # NoAgent PROVE Parent[d] \in S
    BY DEF Closed
  <2>1. d \in Agent /\ Parent[d] \in Ancestors(a)
    BY Chain DEF Closed
  <2>2. b \in Ancestors(Parent[d])
    BY <2>1, ChainStep
  <2> QED
    BY <2>1, <2>2
<1>3. S \in SUBSET Agent
  BY <1>1
<1>4. b \in Ancestors(c) /\ c \in Agent
  BY <1>2, Chain
<1> QED
  BY <1>4, ChainStep

\* The root is on the chain, and the same all along it.
LEMMA RootOnChain ==
  ASSUME NEW a \in Agent
  PROVE  /\ RootOf(a) \in Ancestors(a) /\ RootOf(a) \in Agent /\ Parent[RootOf(a)] = NoAgent
         /\ \A b \in Ancestors(a) : b \in Agent /\ RootOf(b) = RootOf(a)
         /\ \A b \in Ancestors(a) : Parent[b] = NoAgent => b = RootOf(a)
<1>1. \A c \in Agent : RootOf(c) \in Ancestors(c) /\ Parent[RootOf(c)] = NoAgent
  BY ChainsEnd DEF RootOf, Roots, Ancestors
<1>2. \A b \in Ancestors(a) : b \in Agent /\ RootOf(b) \in Ancestors(a) /\ Parent[RootOf(b)] = NoAgent
  BY <1>1, ChainTransitive
<1> QED
  BY <1>1, <1>2, OneRoot

\* Who is below another has a child of it on its chain.
LEMMA ChildOnChain ==
  ASSUME NEW c \in Agent, NEW a \in Ancestors(c), c # a
  PROVE  \E d \in Ancestors(c) : Parent[d] = a
<1> SUFFICES ASSUME \A d \in Ancestors(c) : Parent[d] # a PROVE FALSE
  OBVIOUS
<1>1. Ancestors(c) \in SUBSET Agent /\ Closed(Ancestors(c)) /\ c \in Ancestors(c)
  BY Chain
<1>2. Closed(Ancestors(c) \ {a})
  BY <1>1 DEF Closed
<1>3. Ancestors(c) \subseteq Ancestors(c) \ {a}
  BY <1>2, Chain
<1> QED
  BY <1>3

\* Whoever is there has its whole chain there.
LEMMA ChainCreated ==
  ASSUME CreatedInv, NEW a \in Created
  PROVE  a \in Agent /\ Ancestors(a) \subseteq Created
<1>1. Created \in SUBSET Agent /\ a \in Agent
  BY DEF Created
<1>2. Closed(Created)
  BY DEF CreatedInv, Closed
<1> QED
  BY <1>1, <1>2, Chain

\* The members of a task are those with its root.
LEMMA ScopeOfRoot ==
  ASSUME NEW r \in Agent, Parent[r] = NoAgent
  PROVE  Scope(r) = {b \in Created : RootOf(b) = r}
<1>1. \A b \in Created : b \in Agent
  BY DEF Created
<1> QED
  BY <1>1, RootOnChain DEF Scope

\* The scope of a member is in the scope, and of the same task.
LEMMA ScopeBelow ==
  ASSUME NEW a \in Agent, NEW b \in Scope(a)
  PROVE  b \in Created /\ b \in Agent /\ Scope(b) \subseteq Scope(a) /\ RootOf(b) = RootOf(a)
<1>1. b \in Created /\ b \in Agent /\ a \in Ancestors(b)
  BY DEF Scope, Created
<1>2. \A c \in Scope(b) : c \in Created /\ c \in Agent /\ b \in Ancestors(c)
  BY DEF Scope, Created
<1>3. \A c \in Scope(b) : a \in Ancestors(c)
  BY <1>1, <1>2, ChainTransitive
<1> QED
  BY <1>1, <1>3, RootOnChain DEF Scope

\* Without children there is nobody below.
LEMMA NoChildren ==
  ASSUME CreatedInv, NEW a \in Agent, Children(a) = {}
  PROVE  Scope(a) \subseteq {a}
<1> SUFFICES ASSUME NEW c \in Scope(a), c # a PROVE FALSE
  OBVIOUS
<1>1. c \in Created /\ c \in Agent /\ a \in Ancestors(c)
  BY DEF Scope, Created
<1>2. PICK d \in Ancestors(c) : Parent[d] = a
  BY <1>1, ChildOnChain
<1>3. d \in Created
  BY <1>1, ChainCreated
<1> QED
  BY <1>2, <1>3 DEF Children

-----------------------------------------------------------------------------
\* cancelScope and reconcileScopes, agent by agent.

Over == {"completed", "failed", "interrupted"}
OverKept == \A b \in Agent : st[b].status \in Over => st'[b] = st[b]

\* What cancelScope makes of an agent.
Halted(s, b) ==
    IF s[b].cancel \/ s[b].status \in Over THEN s[b]
    ELSE [status |-> IF (s[b].status \in {"checking", "running"} /\ b \in Active)
                          \/ (s[b].status = "recovering" /\ b \in recov)
                     THEN s[b].status ELSE "interrupted",
          cancel |-> TRUE, pause |-> FALSE]

\* A state of the journal that agrees with what is in flight.
Agrees(s) ==
    /\ s \in [Agent -> States]
    /\ \A b \in Agent :
          /\ s[b].status \in {"checking", "running"} => b \in Active
          /\ s[b].status = "recovering" => b \in recov
          /\ s[b].cancel => s[b].status \in Cancelled
          /\ s[b].status # "none" <=> b \in Created

\* Who is at work or has ended keeps its status, all others are interrupted.
LEMMA HaltedIs ==
  ASSUME NEW s, Agrees(s), NEW b \in Agent, s[b].status # "none"
  PROVE  /\ Halted(s, b) \in States
         /\ s[b].status \in Over => Halted(s, b) = s[b]
         /\ Halted(s, b).status = IF s[b].status \in {"ready", "paused", "waiting"}
                                  THEN "interrupted" ELSE s[b].status
         /\ Halted(s, b).cancel => Halted(s, b).status \in Cancelled
<1>1. s[b] \in States
  BY DEF Agrees
<1> QED
  BY DEF Agrees, Halted, States, Status, Over, Cancelled

\* Fenced halts the members of a task.
LEMMA FencedIs ==
  ASSUME NEW s, NEW r \in Agent, Parent[r] = NoAgent
  PROVE  /\ DOMAIN Fenced(s, r) = Agent
         /\ Fenced(s, r) = [b \in Agent |-> IF b \in Created /\ RootOf(b) = r
                                            THEN Halted(s, b) ELSE s[b]]
<1>1. \A b \in Agent : b \in Scope(r) <=> b \in Created /\ RootOf(b) = r
  BY ScopeOfRoot
<1>2. \A b \in Agent : Fenced(s, r)[b] = IF b \in Created /\ RootOf(b) = r
                                          THEN Halted(s, b) ELSE s[b]
  BY <1>1 DEF Fenced, Halted, Over
<1> QED
  BY <1>2 DEF Fenced

\* Reconciled halts the broken tasks and completes who waits for nobody.
Waited(s, b) ==
    s[b].status = "waiting" /\ \A c \in Scope(b) : s[c].status \in {"completed", "waiting"}
\* reconcileScopes, agent by agent.
LEMMA ReconciledIs ==
  ASSUME NEW s
  PROVE  Reconciled(s) =
           [b \in Agent |->
              IF RootOf(b) \in BrokenScopes(s) THEN IF b \in Created THEN Halted(s, b) ELSE s[b]
              ELSE IF Waited(s, b) THEN Fresh("completed") ELSE s[b]]
<1>1. \A b \in Agent : Fenced(s, RootOf(b))[b] = IF b \in Created THEN Halted(s, b) ELSE s[b]
  BY FencedIs, RootOnChain
<1> QED
  BY <1>1 DEF Reconciled, Waited

\* It never breaks a task.
LEMMA ReconciledBreaksNone ==
  ASSUME NEW s
  PROVE  BrokenScopes(Reconciled(s)) \subseteq BrokenScopes(s)
<1> SUFFICES ASSUME NEW c \in Agent, RootOf(c) \notin BrokenScopes(s),
                    Reconciled(s)[c].cancel \/ Reconciled(s)[c].status \in {"interrupted", "failed"}
             PROVE  FALSE
  BY DEF BrokenScopes
<1>1. Reconciled(s)[c] = IF Waited(s, c) THEN Fresh("completed") ELSE s[c]
  BY ReconciledIs
<1>2. ~s[c].cancel /\ s[c].status \notin {"interrupted", "failed"}
  BY DEF BrokenScopes
<1> QED
  BY <1>1, <1>2 DEF Fresh

\* What it does to one agent.
LEMMA ReconciledOne ==
  ASSUME NEW s, Agrees(s), NEW b \in Agent
  PROVE  LET t == Reconciled(s)[b] IN
         /\ t \in States
         /\ s[b].status \in Over => t = s[b]
         /\ t.status = s[b].status
              \/ (s[b].status \in {"ready", "paused", "waiting"} /\ t.status = "interrupted")
              \/ (s[b].status = "waiting" /\ t.status = "completed")
         /\ t.cancel => t.status \in Cancelled
         /\ RootOf(b) \in BrokenScopes(s) => t.status \notin {"ready", "paused", "waiting"}
<1>1. s[b] \in States /\ (s[b].cancel => s[b].status \in Cancelled)
  BY DEF Agrees
<1>2. CASE RootOf(b) \in BrokenScopes(s)
  <2>1. CASE b \in Created
    <3>1. Reconciled(s)[b] = Halted(s, b) /\ s[b].status # "none"
      BY <1>2, <2>1, ReconciledIs DEF Agrees
    <3> QED
      BY <3>1, HaltedIs
  <2>2. CASE b \notin Created
    <3>1. Reconciled(s)[b] = s[b] /\ s[b].status = "none"
      BY <1>2, <2>2, ReconciledIs DEF Agrees
    <3> QED
      BY <1>1, <3>1
  <2> QED
    BY <2>1, <2>2
<1>3. CASE RootOf(b) \notin BrokenScopes(s)
  <2>1. Reconciled(s)[b] = IF Waited(s, b) THEN Fresh("completed") ELSE s[b]
    BY <1>3, ReconciledIs
  <2>2. Fresh("completed") \in States /\ Fresh("completed").status = "completed"
        /\ ~Fresh("completed").cancel
    BY DEF Fresh, States, Status
  <2> QED
    BY <1>1, <1>3, <2>1, <2>2 DEF Waited, Over
<1> QED
  BY <1>2, <1>3

\* A task is completed from the leaves up.
Whole(s) ==
    \A a \in Created : s[a].status = "completed" =>
        \A b \in Scope(a) : s[b].status = "completed"
\* reconcileScopes completes a parent only with all that is below it.
LEMMA ReconciledWhole ==
  ASSUME NEW s, Agrees(s), Whole(s)
  PROVE  Whole(Reconciled(s))
<1> DEFINE t == Reconciled(s)
<1> SUFFICES ASSUME NEW a \in Created, t[a].status = "completed", NEW b \in Scope(a)
             PROVE  t[b].status = "completed"
  BY DEF Whole
<1>1. a \in Agent /\ b \in Agent /\ b \in Created /\ Scope(b) \subseteq Scope(a)
      /\ RootOf(b) = RootOf(a)
  BY ScopeBelow DEF Created
<1>2. CASE s[a].status = "completed"
  <2>1. s[b].status = "completed"
    BY <1>2 DEF Whole
  <2> QED
    BY <1>1, <2>1, ReconciledOne
<1>3. CASE s[a].status # "completed"
  <2>1. s[a].status = "waiting" /\ RootOf(a) \notin BrokenScopes(s)
    <3>1. s[a].status = "waiting"
      BY <1>1, <1>3, ReconciledOne
    <3>2. RootOf(a) \in BrokenScopes(s) => t[a] = Halted(s, a)
      BY <1>1, ReconciledIs
    <3>3. Halted(s, a).status = "interrupted"
      BY <1>1, <3>1, HaltedIs
    <3> QED
      BY <3>1, <3>2, <3>3
  <2>2. Waited(s, a)
    BY <1>1, <2>1, ReconciledIs
  <2>3. CASE s[b].status = "completed"
    BY <1>1, <2>3, ReconciledOne
  <2>4. CASE s[b].status = "waiting"
    <3>1. Waited(s, b)
      BY <1>1, <2>2, <2>4 DEF Waited
    <3>2. t[b] = Fresh("completed")
      BY <1>1, <2>1, <3>1, ReconciledIs
    <3> QED
      BY <3>2 DEF Fresh
  <2> QED
    BY <2>2, <2>3, <2>4 DEF Waited
<1> QED
  BY <1>2, <1>3

-----------------------------------------------------------------------------
\* Pieces of a step.

\* What the Run has used and what is pending are totals.
LEMMA Totals ==
  /\ RunUsed = Total(steps, Agent) /\ Pending = Total(cmds, Agent)
  /\ RunUsed' = Total(steps', Agent) /\ Pending' = Total(cmds', Agent)
  BY DEF RunUsed, Pending

\* The parts of the invariant, and that the journal agrees with what is in flight.
LEMMA Basics ==
  ASSUME IInv
  PROVE  /\ Types /\ JournalOK /\ QuantaOK /\ MemoryOK /\ RoomInv /\ BudgetInv /\ PlaceInv
         /\ CancelInv /\ CreatedInv /\ FenceInv /\ BarrierInv /\ CompletedMeansAll
         /\ Agrees(st) /\ Whole(st)
<1>1. Types /\ PlaceInv /\ CancelInv /\ CompletedMeansAll
  BY DEF IInv
<1>2. Agrees(st)
  BY <1>1 DEF Types, JournalOK, PlaceInv, CancelInv, Agrees, Active, Created
<1>3. Whole(st)
  BY <1>1 DEF CompletedMeansAll, Whole
<1> QED
  BY <1>2, <1>3 DEF IInv, Types

\* Where scope is open, no barrier is up.
LEMMA OpenScope ==
  ASSUME NEW a \in Agent, NEW restoring, ScopeOpen(a, restoring)
  PROVE  RootOf(a) \notin barriers
  BY RootOnChain DEF ScopeOpen

\* A task is broken only by who becomes broken.
LEMMA BrokenShrinks ==
  ASSUME NEW s, NEW t,
         \A c \in Agent : t[c].cancel \/ t[c].status \in {"interrupted", "failed"} =>
                              s[c].cancel \/ s[c].status \in {"interrupted", "failed"}
  PROVE  BrokenScopes(t) \subseteq BrokenScopes(s)
  BY DEF BrokenScopes

\* Fewer quanta fit as well.
LEMMA RoomShrinks ==
  ASSUME RoomInv, Active' \subseteq Active
  PROVE  RoomInv'
<1>1. IsFiniteSet(Active)
  BY AgentAssumption, FS_Subset DEF Active
<1>2. Cardinality(Active') <= Cardinality(Active) /\ Cardinality(Active') \in Nat
      /\ Cardinality(Active) \in Nat
  BY <1>1, FS_Subset, FS_CardinalityType
<1> QED
  BY <1>2, AgentAssumption DEF RoomInv

\* Who is there stays there: so do the scopes, and with the completed agents the
\* completed tasks.
LEMMA ScopesStay ==
  ASSUME Created' = Created
  PROVE  /\ \A a : Scope(a)' = Scope(a)
         /\ CreatedInv => CreatedInv'
         /\ Whole(st') => CompletedMeansAll'
  BY DEF Scope, CreatedInv, Whole, CompletedMeansAll

\* A step that completes nobody leaves the completed tasks whole.
LEMMA WholeStays ==
  ASSUME Whole(st), Created' = Created,
         \A b \in Agent : st'[b].status = "completed" <=> st[b].status = "completed"
  PROVE  CompletedMeansAll'
<1>1. \A a \in Created : a \in Agent /\ \A b \in Scope(a) : b \in Agent
  BY DEF Scope, Created
<1>2. Whole(st')
  BY <1>1 DEF Whole
<1> QED
  BY <1>2, ScopesStay

\* What reconcileScopes leaves of the journal.
LEMMA ReconcileFrame ==
  ASSUME NEW s, Agrees(s), Whole(s), CreatedInv, st' = Reconciled(s)
  PROVE  st' \in [Agent -> States] /\ Created' = Created /\ CreatedInv' /\ CompletedMeansAll'
<1>1. \A b \in Agent : st'[b] \in States /\ (st'[b].status # "none" <=> s[b].status # "none")
  BY ReconciledOne
<1>2. st' \in [Agent -> States]
  BY <1>1 DEF Reconciled
<1>3. Created' = Created
  BY <1>1 DEF Created, Agrees
<1> QED
  BY <1>2, <1>3, ScopesStay, ReconciledWhole

\* The quantum of a leaves quietly.
Leaves(a, v) ==
    /\ quantum[a] # "none" /\ cmds[a] = 0
    /\ v \in States
    /\ \/ v = st[a] /\ quantum[a] = "queued"
       \/ /\ st[a].status \in {"ready", "checking", "running"}
          /\ v.status \in {"ready", "paused", "waiting", "completed"} /\ ~v.cancel
          /\ v.status = "ready" => a \notin aborted
          /\ v.status = "completed" => Scope(a) \subseteq {a}
    /\ st' = [st EXCEPT ![a] = v]
    /\ SettledAnd(a, {})

\* It ends with a failure or an interruption that breaks its task.
Breaks(a, v) ==
    /\ quantum[a] # "none" /\ cmds[a] = 0
    /\ st[a].status \in {"ready", "checking", "running"}
    /\ v \in States /\ v.status \in {"failed", "interrupted"}
    /\ SettledBroken(a, v)

NotOfQuanta == <<steps, runOpen, cmds, recoveries, barriers, phase, calls, crashes>>

\* What the end of a quantum leaves of the memory.
LEMMA SettledFrame ==
  ASSUME IInv, NEW a \in Agent, NEW told \in SUBSET Agent, SettledAnd(a, told), UNCHANGED NotOfQuanta
  PROVE  /\ QuantaOK' /\ MemoryOK' /\ RoomInv' /\ BudgetInv'
         /\ Active' = Active \ {a}
         /\ \A b \in Agent : quantum'[b] = IF b = a THEN "none" ELSE quantum[b]
<1>1. QuantaOK /\ MemoryOK /\ RoomInv /\ BudgetInv
  BY Basics
<1>2. \A b \in Agent : quantum'[b] = IF b = a THEN "none" ELSE quantum[b]
  BY <1>1 DEF SettledAnd, QuantaOK
<1>3. Active' = Active \ {a}
  BY <1>2 DEF Active
<1>4. QuantaOK'
  BY <1>1 DEF SettledAnd, QuantaOK, NotOfQuanta, Place
<1>5. MemoryOK'
  BY <1>1 DEF SettledAnd, MemoryOK, NotOfQuanta, recoveries
<1>6. RoomInv'
  BY <1>1, <1>3, RoomShrinks
<1>7. BudgetInv'
  BY <1>1, <1>2, Totals DEF BudgetInv, BudgetsHold, NotOfQuanta
<1> QED
  BY <1>2, <1>3, <1>4, <1>5, <1>6, <1>7

\* A quantum that ends quietly keeps the invariant and who is over.
LEMMA LeavesKeeps ==
  ASSUME IInv, NEW a \in Agent, NEW v, Leaves(a, v), UNCHANGED NotOfQuanta
  PROVE  IInv' /\ OverKept
<1>0. /\ JournalOK /\ QuantaOK /\ MemoryOK /\ PlaceInv /\ CancelInv /\ CreatedInv /\ FenceInv
      /\ BarrierInv /\ CompletedMeansAll /\ Whole(st)
  BY Basics
<1>1. /\ QuantaOK' /\ MemoryOK' /\ RoomInv' /\ BudgetInv'
      /\ Active' = Active \ {a}
      /\ \A b \in Agent : quantum'[b] = IF b = a THEN "none" ELSE quantum[b]
  BY SettledFrame DEF Leaves
<1>2. /\ \A b \in Agent : st'[b] = IF b = a THEN v ELSE st[b]
      /\ aborted' = aborted \ {a}
      /\ UNCHANGED <<recov, prev, gaveUp, barriers, cmds>>
  BY <1>0 DEF Leaves, JournalOK, SettledAnd, NotOfQuanta, recoveries
<1>3. st[a].status \in {"ready", "paused", "interrupted", "checking", "running"}
      /\ v.status \notin {"none", "checking", "running", "recovering"}
  BY <1>0 DEF Leaves, PlaceInv
<1>4. JournalOK'
  BY <1>0 DEF Leaves, JournalOK, NotOfQuanta
<1>5. PlaceInv'
  BY <1>0, <1>1, <1>2 DEF PlaceInv, Leaves
<1>6. CancelInv'
  BY <1>0, <1>2 DEF CancelInv, Leaves
<1>7. Created' = Created
  BY <1>2, <1>3 DEF Created
<1>8. BrokenScopes(st') \subseteq BrokenScopes(st)
  BY <1>2, BrokenShrinks DEF Leaves
<1>9. FenceInv'
  BY <1>0, <1>1, <1>2, <1>8 DEF FenceInv, GivenUp, Active
<1>10. BarrierInv'
  BY <1>0, <1>1, <1>2, <1>7 DEF BarrierInv, Leaves, Active
<1>11. CompletedMeansAll'
  <2>1. Whole(st')
    <3> SUFFICES ASSUME NEW x \in Created, st'[x].status = "completed", NEW b \in Scope(x)
                 PROVE  st'[b].status = "completed"
      BY DEF Whole
    <3>1. x \in Agent /\ b \in Agent
      BY DEF Scope, Created
    <3>2. CASE x = a
      BY <1>3, <3>1, <3>2 DEF Leaves
    <3>3. CASE x # a
      BY <1>0, <1>2, <1>3, <3>1, <3>3 DEF Whole
    <3> QED
      BY <3>2, <3>3
  <2> QED
    BY <1>7, <2>1, ScopesStay
<1>12. OverKept
  BY DEF OverKept, Leaves, Over
<1> QED
  BY <1>0, <1>1, <1>4, <1>5, <1>6, <1>7, <1>9, <1>10, <1>11, <1>12, ScopesStay DEF IInv,
     Types

\* So does one that breaks its task: all that is at work in it is told.
LEMMA BreaksKeeps ==
  ASSUME IInv, NEW a \in Agent, NEW v, Breaks(a, v), UNCHANGED NotOfQuanta
  PROVE  IInv' /\ OverKept
<1> DEFINE s == [st EXCEPT ![a] = v]
<1>0. /\ JournalOK /\ QuantaOK /\ MemoryOK /\ PlaceInv /\ CancelInv /\ CreatedInv /\ FenceInv
      /\ BarrierInv /\ CompletedMeansAll /\ Agrees(st) /\ Whole(st)
  BY Basics
<1>1. AbortedBy(s) \in SUBSET Agent
  BY DEF AbortedBy, Active
<1>2. /\ QuantaOK' /\ MemoryOK' /\ RoomInv' /\ BudgetInv'
      /\ Active' = Active \ {a}
      /\ \A b \in Agent : quantum'[b] = IF b = a THEN "none" ELSE quantum[b]
  BY <1>1, SettledFrame DEF Breaks, SettledBroken
<1>3. /\ \A b \in Agent : s[b] = IF b = a THEN v ELSE st[b]
      /\ st' = Reconciled(s) /\ aborted' = (aborted \cup AbortedBy(s)) \ {a}
      /\ UNCHANGED <<recov, prev, gaveUp, barriers, cmds>>
  BY <1>0 DEF Breaks, JournalOK, SettledBroken, SettledAnd, NotOfQuanta, recoveries
<1>4. Agrees(s)
  BY <1>0 DEF Agrees, Breaks, Cancelled
<1>5. Whole(s)
  <2>1. \A x \in Created : x \in Agent /\ \A b \in Scope(x) : b \in Agent
    BY DEF Scope, Created
  <2> QED
    BY <1>0, <2>1 DEF Whole, Breaks
<1> HIDE DEF s
<1>6. st' \in [Agent -> States] /\ Created' = Created /\ CreatedInv' /\ CompletedMeansAll'
  BY <1>0, <1>3, <1>4, <1>5, ReconcileFrame
<1>7. \A b \in Agent :
        /\ s[b].status \in Over => st'[b] = s[b]
        /\ st'[b].status = s[b].status
              \/ (s[b].status \in {"ready", "paused", "waiting"} /\ st'[b].status = "interrupted")
              \/ (s[b].status = "waiting" /\ st'[b].status = "completed")
        /\ st'[b].cancel => st'[b].status \in Cancelled
        /\ RootOf(b) \in BrokenScopes(s) => st'[b].status \notin {"ready", "paused", "waiting"}
  BY <1>3, <1>4, ReconciledOne
<1>8. JournalOK'
  BY <1>0, <1>6 DEF JournalOK, NotOfQuanta
<1>9. PlaceInv'
  BY <1>0, <1>2, <1>3, <1>7 DEF PlaceInv, Breaks
<1>10. CancelInv'
  BY <1>0, <1>3, <1>7 DEF CancelInv
<1>11. BrokenScopes(st') \subseteq BrokenScopes(s)
  BY <1>3, ReconciledBreaksNone
<1>12. FenceInv'
  <2> SUFFICES ASSUME NEW b \in Active', RootOf(b) \in BrokenScopes(st')
               PROVE  \/ quantum'[b] = "queued" /\ st'[b].status = "interrupted"
                      \/ quantum'[b] # "queued" /\ b \in aborted'
    BY DEF FenceInv
  <2>1. b \in Agent /\ b \in Active /\ b # a /\ RootOf(b) \in BrokenScopes(s)
    BY <1>2, <1>11 DEF Active
  <2>2. b \in aborted'
    BY <1>3, <2>1 DEF AbortedBy
  <2>3. quantum[b] = "queued" => st'[b].status = "interrupted"
    BY <1>0, <1>3, <1>7, <2>1 DEF PlaceInv
  <2> QED
    BY <1>2, <2>1, <2>2, <2>3
<1>13. BarrierInv'
  BY <1>0, <1>2, <1>3, <1>6, <1>7 DEF BarrierInv, Breaks
<1>14. OverKept
  BY <1>3, <1>7 DEF OverKept, Breaks, Over
<1> QED
  BY <1>2, <1>6, <1>8, <1>9, <1>10, <1>12, <1>13, <1>14 DEF IInv, Types

-----------------------------------------------------------------------------
\* The initial states.

\* The runtime starts with nobody there.
LEMMA InvInit == Init => IInv
<1> SUFFICES ASSUME Init PROVE IInv
  OBVIOUS
<1>1. Fresh("none") \in States /\ ~Fresh("none").cancel /\ Fresh("none").status = "none"
  BY DEF Fresh, States, Status
<1>2. \A a \in Agent : st[a] = Fresh("none") /\ prev[a] = Fresh("none") /\ quantum[a] = "none"
                       /\ steps[a] = 0 /\ cmds[a] = 0
  BY DEF Init
<1>3. Active = {} /\ Created = {}
  BY <1>1, <1>2 DEF Active, Created
<1>4. Types
  BY <1>1 DEF Init, Types, JournalOK, QuantaOK, MemoryOK, Place
<1>5. RoomInv
  BY <1>3, FS_EmptySet, AgentAssumption DEF RoomInv
<1>6. BudgetInv
  <2>1. RunUsed = 0 /\ Pending = 0
    BY TotalZero, AgentAssumption DEF Init, RunUsed, Pending
  <2> QED
    BY <1>2, <2>1, AgentAssumption DEF BudgetInv, BudgetsHold
<1>7. PlaceInv /\ CancelInv
  BY <1>1 DEF Init, PlaceInv, CancelInv
<1>8. CreatedInv /\ FenceInv /\ BarrierInv /\ CompletedMeansAll
  BY <1>3 DEF Init, CreatedInv, FenceInv, BarrierInv, CompletedMeansAll
<1> QED
  BY <1>4, <1>5, <1>6, <1>7, <1>8 DEF IInv

-----------------------------------------------------------------------------
\* The other shapes of a step.

\* Calls and turns that leave the journal, the quanta and the recoveries alone.
LEMMA QuietKeeps ==
  ASSUME IInv, UNCHANGED <<journal, quanta, recoveries, crashes>>, barriers' \in SUBSET barriers,
         runOpen' \in BOOLEAN, calls' \in Nat, sched' \in {"off", "wake", "race", "recov"},
         phase' \in {"open", "stopping", "fenced", "closed"}
  PROVE  IInv'
<1>1. UNCHANGED <<st, steps, quantum, aborted, cmds, failed, outcome, recov, prev, gaveUp, crashes>>
  BY DEF journal, quanta, recoveries
<1>2. Active' = Active /\ Created' = Created /\ BrokenScopes(st') = BrokenScopes(st)
  BY <1>1 DEF Active, Created, BrokenScopes
<1>3. RunUsed' = RunUsed /\ Pending' = Pending
  BY <1>1 DEF RunUsed, Pending
<1>4. Types'
  BY <1>1, Basics DEF Types, JournalOK, QuantaOK, MemoryOK
<1>5. RoomInv' /\ BudgetInv' /\ PlaceInv' /\ CancelInv'
  BY <1>1, <1>2, <1>3, Basics DEF RoomInv, BudgetInv, BudgetsHold, PlaceInv, CancelInv
<1>6. FenceInv' /\ BarrierInv'
  BY <1>1, <1>2, Basics DEF FenceInv, GivenUp, BarrierInv
<1>7. CreatedInv' /\ CompletedMeansAll'
  BY <1>1, <1>2, Basics, ScopesStay
<1> QED
  BY <1>4, <1>5, <1>6, <1>7 DEF IInv

\* One agent moves, no quantum does.
Breaking(v) == v.cancel \/ v.status \in {"interrupted", "failed"}
Moves(a, v) ==
    /\ v \in States /\ st' = [st EXCEPT ![a] = v]
    /\ {st[a].status, v.status} \cap {"none", "completed"} = {}
    /\ v.cancel => v.status \in Cancelled
    /\ v.status = "ready" => RootOf(a) \notin barriers
    /\ Breaking(v) => Breaking(st[a]) \/ a \in gaveUp'
    /\ a \in Active => st[a].status # "interrupted"
    /\ quantum[a] = "queued" => v.status \in {"ready", "paused", "interrupted"}
    /\ quantum[a] = "checking" <=> v.status = "checking"
    /\ quantum[a] \in {"stepping", "closing"} <=> v.status = "running"
    /\ a \in recov' <=> v.status = "recovering"
    /\ a \in recov' => prev'[a].status \in {"paused", "interrupted"}
    /\ prev'[a].cancel => prev'[a].status = "interrupted"
    /\ \A b \in Agent \ {a} : prev'[b] = prev[b] /\ (b \in recov' <=> b \in recov)
    /\ recov' \in SUBSET Agent /\ prev' \in [Agent -> States]
    /\ gaveUp \subseteq gaveUp' /\ gaveUp' \in SUBSET Agent
    /\ UNCHANGED <<steps, runOpen, quanta, barriers, sched, phase, crashes>> /\ calls' \in Nat

\* Such a move keeps the invariant: it breaks a task only as a recovery given up.
LEMMA MovesKeeps ==
  ASSUME IInv, NEW a \in Agent, NEW v, Moves(a, v)
  PROVE  IInv'
<1>1. UNCHANGED <<steps, runOpen, quantum, aborted, cmds, failed, outcome, barriers, sched, phase, crashes>>
  BY DEF Moves, quanta
<1>2. \A b \in Agent : st'[b] = IF b = a THEN v ELSE st[b]
  BY Basics DEF Moves, JournalOK
<1>3. Active' = Active /\ Created' = Created
  BY <1>1, <1>2 DEF Active, Created, Moves
<1>4. RunUsed' = RunUsed /\ Pending' = Pending
  BY <1>1 DEF RunUsed, Pending
<1>5. Types'
  BY <1>1, Basics DEF Types, JournalOK, QuantaOK, MemoryOK, Moves
<1>6. RoomInv' /\ BudgetInv'
  BY <1>1, <1>3, <1>4, Basics DEF RoomInv, BudgetInv, BudgetsHold
<1>7. PlaceInv'
  BY <1>1, <1>2, Basics DEF PlaceInv, Moves
<1>8. CancelInv'
  BY Basics DEF CancelInv, Moves
<1>9. FenceInv'
  <2> SUFFICES ASSUME NEW b \in Active', RootOf(b) \in BrokenScopes(st'), ~GivenUp(RootOf(b))'
               PROVE  \/ quantum'[b] = "queued" /\ st'[b].status = "interrupted"
                      \/ quantum'[b] # "queued" /\ b \in aborted'
    BY DEF FenceInv
  <2>1. PICK c \in Agent : RootOf(c) = RootOf(b) /\ Breaking(st'[c])
    BY DEF BrokenScopes, Breaking
  <2>2. c \notin gaveUp'
    BY <2>1 DEF GivenUp
  <2>3. Breaking(st[c])
    BY <2>1, <2>2 DEF Moves
  <2>4. RootOf(b) \in BrokenScopes(st)
    BY <2>1, <2>3 DEF BrokenScopes, Breaking
  <2>5. ~GivenUp(RootOf(b))
    BY DEF GivenUp, Moves
  <2>6. b \in Active /\ b \in Agent
    BY <1>3 DEF Active
  <2> QED
    BY <1>1, <2>4, <2>5, <2>6, Basics DEF FenceInv, Moves
<1>10. BarrierInv'
  BY <1>1, <1>3, Basics DEF BarrierInv, Moves
<1>11. CreatedInv' /\ CompletedMeansAll'
  BY <1>2, <1>3, Basics, ScopesStay, WholeStays DEF Moves
<1> QED
  BY <1>5, <1>6, <1>7, <1>8, <1>9, <1>10, <1>11 DEF IInv

\* Tasks are fenced: what they have at work is told, the others are interrupted
\* and, at the end of the runtime, who is ready elsewhere is paused.
Fences(hit) ==
    /\ hit \in SUBSET Created /\ \A r \in hit : Parent[r] = NoAgent
    /\ st' \in [Agent -> States]
    /\ \A b \in Agent : IF b \in Created /\ RootOf(b) \in hit THEN st'[b] = Halted(st, b)
                        ELSE \/ st'[b] = st[b]
                             \/ st[b].status = "ready" /\ st'[b] = Fresh("paused")
    /\ barriers' = barriers \cup hit
    /\ aborted' = aborted \cup {b \in Active : RootOf(b) \in hit}
    /\ UNCHANGED <<steps, runOpen, quantum, cmds, failed, outcome, recoveries, sched, crashes>>
    /\ phase' \in {"open", "stopping", "fenced", "closed"} /\ calls' \in Nat

\* A fence keeps the invariant and who is over.
LEMMA FencesKeeps ==
  ASSUME IInv, NEW hit, Fences(hit)
  PROVE  IInv' /\ OverKept
<1>1. UNCHANGED <<steps, runOpen, quantum, cmds, failed, outcome, recov, prev, gaveUp, sched, crashes>>
  BY DEF Fences, recoveries
<1>2. hit \in SUBSET Agent /\ \A b \in Active : b \in Agent /\ b \in Created
  <2>1. \A b \in Agent : quantum[b] # "none" => st[b].status # "none"
    BY Basics DEF PlaceInv, QuantaOK, Place
  <2> QED
    BY <2>1 DEF Fences, Created, Active
<1>3. \A b \in Agent :
        /\ st[b].status \in Over => st'[b] = st[b]
        /\ st'[b].status = st[b].status
             \/ (st[b].status \in {"ready", "paused", "waiting"} /\ st'[b].status = "interrupted")
             \/ (st[b].status = "ready" /\ st'[b].status = "paused")
        /\ st'[b].cancel => st'[b].status \in Cancelled
        /\ RootOf(b) \in hit => st'[b].status \notin {"ready", "paused", "waiting"}
        /\ RootOf(b) \notin hit /\ Breaking(st'[b]) => Breaking(st[b])
  <2> SUFFICES ASSUME NEW b \in Agent
               PROVE  /\ st[b].status \in Over => st'[b] = st[b]
                      /\ st'[b].status = st[b].status
                           \/ (st[b].status \in {"ready", "paused", "waiting"}
                                 /\ st'[b].status = "interrupted")
                           \/ (st[b].status = "ready" /\ st'[b].status = "paused")
                      /\ st'[b].cancel => st'[b].status \in Cancelled
                      /\ RootOf(b) \in hit => st'[b].status \notin {"ready", "paused", "waiting"}
                      /\ RootOf(b) \notin hit /\ Breaking(st'[b]) => Breaking(st[b])
    OBVIOUS
  <2>1. CASE b \in Created /\ RootOf(b) \in hit
    <3>1. st'[b] = Halted(st, b) /\ st[b].status # "none"
      BY <2>1 DEF Fences, Created
    <3> QED
      BY <2>1, <3>1, Basics, HaltedIs
  <2>2. CASE b \notin Created
    <3>1. st'[b] = st[b] /\ st[b].status = "none"
      BY <2>2 DEF Fences, Created
    <3> QED
      BY <3>1, Basics DEF CancelInv
  <2>3. CASE b \in Created /\ RootOf(b) \notin hit
    <3>1. st'[b] = st[b] \/ (st[b].status = "ready" /\ st'[b] = Fresh("paused"))
      BY <2>3 DEF Fences
    <3> QED
      BY <2>3, <3>1, Basics DEF CancelInv, Fresh, Breaking, Over
  <2> QED
    BY <2>1, <2>2, <2>3
<1>4. Active' = Active /\ Created' = Created
  BY <1>1, <1>3 DEF Active, Created
<1>5. RunUsed' = RunUsed /\ Pending' = Pending
  BY <1>1 DEF RunUsed, Pending
<1>6. aborted' \in SUBSET Agent /\ aborted \subseteq aborted'
  BY <1>2, Basics DEF Fences, QuantaOK
<1>7. Types'
  BY <1>1, <1>2, <1>6, Basics DEF Types, JournalOK, QuantaOK, MemoryOK, Fences
<1>8. RoomInv' /\ BudgetInv'
  BY <1>1, <1>4, <1>5, Basics DEF RoomInv, BudgetInv, BudgetsHold
<1>9. PlaceInv'
  BY <1>1, <1>3, Basics DEF PlaceInv
<1>10. CancelInv'
  BY <1>1, <1>3, Basics DEF CancelInv
<1>11. FenceInv'
  <2> SUFFICES ASSUME NEW b \in Active', RootOf(b) \in BrokenScopes(st'), ~GivenUp(RootOf(b))'
               PROVE  \/ quantum'[b] = "queued" /\ st'[b].status = "interrupted"
                      \/ quantum'[b] # "queued" /\ b \in aborted'
    BY DEF FenceInv
  <2>1. b \in Active /\ b \in Agent /\ ~GivenUp(RootOf(b))
    BY <1>1, <1>2, <1>4 DEF GivenUp
  <2>2. CASE RootOf(b) \in hit
    <3>1. b \in aborted'
      BY <2>1, <2>2 DEF Fences
    <3>2. quantum[b] = "queued" => st'[b].status = "interrupted"
      BY <1>3, <2>1, <2>2, Basics DEF PlaceInv
    <3> QED
      BY <1>1, <3>1, <3>2
  <2>3. CASE RootOf(b) \notin hit
    <3>1. PICK c \in Agent : RootOf(c) = RootOf(b) /\ Breaking(st'[c])
      BY DEF BrokenScopes, Breaking
    <3>2. RootOf(b) \in BrokenScopes(st)
      BY <1>3, <2>3, <3>1 DEF BrokenScopes, Breaking
    <3>3. st[b].status = "interrupted" => st'[b].status = "interrupted"
      BY <1>3, <2>1
    <3> QED
      BY <1>1, <1>6, <2>1, <3>2, <3>3, Basics DEF FenceInv
  <2> QED
    BY <2>2, <2>3
<1>12. BarrierInv'
  <2> SUFFICES ASSUME NEW r \in barriers'
               PROVE  /\ r \in Created /\ Parent[r] = NoAgent
                      /\ \A b \in Agent : RootOf(b) = r =>
                            st'[b].status # "ready" /\ (b \in Active => b \in aborted')
    BY <1>4 DEF BarrierInv
  <2>1. CASE r \in barriers
    BY <1>3, <1>6, <2>1, Basics DEF BarrierInv
  <2>2. CASE r \in hit
    BY <1>3, <2>2 DEF Fences
  <2> QED
    BY <2>1, <2>2 DEF Fences
<1>13. CreatedInv' /\ CompletedMeansAll'
  BY <1>3, <1>4, Basics, ScopesStay, WholeStays
<1> QED
  BY <1>3, <1>7, <1>8, <1>9, <1>10, <1>11, <1>12, <1>13 DEF IInv, OverKept

-----------------------------------------------------------------------------
\* Every action keeps the invariant.

\* a is of its own scope.
LEMMA OwnScope ==
  ASSUME NEW a \in Agent, st[a].status # "none"
  PROVE  a \in Created /\ a \in Scope(a)
  BY Chain DEF Created, Scope

\* create: the chain of parents is there and none of it is over.
LEMMA CreateKeeps ==
  ASSUME IInv, NEW a \in Agent, Create(a)
  PROVE  IInv'
<1>1. UNCHANGED <<steps, runOpen, quantum, aborted, cmds, failed, outcome, recov, prev, gaveUp,
                  barriers, sched, phase, calls, crashes>>
  BY DEF Create, memory, quanta, recoveries
<1>2. \A b \in Agent : st'[b] = IF b = a THEN Fresh("ready") ELSE st[b]
  BY Basics DEF Create, JournalOK
<1>3. /\ Fresh("ready") \in States /\ Fresh("ready").status = "ready" /\ ~Fresh("ready").cancel
      /\ st[a].status = "none"
  BY DEF Create, Fresh, States, Status
<1>4. Active' = Active /\ Created' = Created \cup {a} /\ a \notin Created
  BY <1>1, <1>2, <1>3 DEF Active, Created
<1>5. RunUsed' = RunUsed /\ Pending' = Pending
  BY <1>1 DEF RunUsed, Pending
<1>6. st' \in [Agent -> States]
  BY <1>3, Basics DEF Create, JournalOK
<1>7. Types'
  BY <1>1, <1>6, Basics DEF Types, JournalOK, QuantaOK, MemoryOK
<1>8. RoomInv' /\ BudgetInv'
  BY <1>1, <1>4, <1>5, Basics DEF RoomInv, BudgetInv, BudgetsHold
<1>9. quantum[a] = "none" /\ a \notin recov
  BY <1>3, Basics DEF PlaceInv, QuantaOK, Place
<1>10. PlaceInv'
  <2>1. ~(cmds[a] > 0)
    BY <1>9, Basics DEF PlaceInv
  <2> QED
    BY <1>1, <1>2, <1>3, <1>9, <2>1, Basics DEF PlaceInv
<1>11. CancelInv'
  BY <1>1, <1>2, <1>3, Basics DEF CancelInv
<1>12. Parent[a] # NoAgent => Parent[a] \in Created /\ Parent[a] \in Agent /\ ScopeOpen(Parent[a], FALSE)
  BY AgentAssumption DEF Create, Created
<1>13. CreatedInv'
  BY <1>4, <1>12, Basics DEF CreatedInv
<1>14. FenceInv'
  <2>1. BrokenScopes(st') \subseteq BrokenScopes(st)
    BY <1>2, <1>3, BrokenShrinks
  <2>2. \A b \in Active : b \in Agent /\ b # a
    BY <1>9 DEF Active
  <2> QED
    BY <1>1, <1>2, <1>4, <2>1, <2>2, Basics DEF FenceInv, GivenUp
<1>15. BarrierInv'
  <2>1. RootOf(a) \notin barriers
    <3>1. CASE Parent[a] = NoAgent
      <4>1. RootOf(a) = a
        BY <3>1, ChainStep, RootOnChain
      <4> QED
        BY <1>4, <4>1, Basics DEF BarrierInv
    <3>2. CASE Parent[a] # NoAgent
      <4>1. Parent[a] \in Ancestors(a)
        BY <3>2, ChainStep
      <4>2. RootOf(Parent[a]) = RootOf(a)
        BY <4>1, RootOnChain
      <4> QED
        BY <1>12, <3>2, <4>2, OpenScope
    <3> QED
      BY <3>1, <3>2
  <2> QED
    BY <1>1, <1>2, <1>4, <2>1, Basics DEF BarrierInv
<1>16. CompletedMeansAll'
  <2> SUFFICES ASSUME NEW x \in Created', st'[x].status = "completed", NEW b \in Scope(x)'
               PROVE  st'[b].status = "completed"
    BY DEF CompletedMeansAll
  <2>1. x \in Agent /\ x # a /\ x \in Created /\ st[x].status = "completed"
    BY <1>2, <1>3 DEF Created
  <2>2. b \in Created' /\ b \in Agent /\ x \in Ancestors(b)
    BY DEF Scope, Created
  <2>3. b # a
    <3> SUFFICES ASSUME b = a PROVE FALSE
      OBVIOUS
    <3>1. Parent[a] # NoAgent /\ x \in Ancestors(Parent[a])
      BY <2>1, <2>2, ChainStep
    <3> QED
      BY <1>12, <2>1, <3>1 DEF ScopeOpen
  <2>4. b \in Scope(x)
    BY <1>4, <2>2, <2>3 DEF Scope
  <2> QED
    BY <1>2, <2>1, <2>2, <2>3, <2>4, Basics DEF Whole
<1> QED
  BY <1>7, <1>8, <1>10, <1>11, <1>13, <1>14, <1>15, <1>16 DEF IInv

\* pause: of who is at work the status stays.
LEMMA PauseKeeps ==
  ASSUME IInv, NEW a \in Agent, Pause(a)
  PROVE  IInv'
<1> DEFINE active == st[a].status \in {"running", "checking", "recovering"}
           v == [status |-> IF active THEN st[a].status ELSE "paused", cancel |-> FALSE, pause |-> active]
<1>1. v \in States /\ st' = [st EXCEPT ![a] = v] /\ st[a].status \in {"running", "checking", "recovering", "ready", "paused"}
  BY DEF Pause, States, Status
<1>2. v.status = IF active THEN st[a].status ELSE "paused"
  OBVIOUS
<1>3. ~v.cancel
  OBVIOUS
<1> HIDE DEF v
<1>4. UNCHANGED <<steps, runOpen, quanta, recov, prev, gaveUp, barriers, sched, phase, crashes>>
      /\ calls' \in Nat
  BY Basics DEF Pause, Call, memory, recoveries, JournalOK
<1>5. /\ quantum[a] = "queued" => st[a].status \in {"ready", "paused", "interrupted"}
      /\ quantum[a] = "checking" <=> st[a].status = "checking"
      /\ quantum[a] \in {"stepping", "closing"} <=> st[a].status = "running"
      /\ a \in recov <=> st[a].status = "recovering"
      /\ a \in recov => prev[a].status \in {"paused", "interrupted"}
      /\ prev[a].cancel => prev[a].status = "interrupted"
      /\ recov \in SUBSET Agent /\ prev \in [Agent -> States] /\ gaveUp \in SUBSET Agent
  BY Basics DEF PlaceInv, CancelInv, MemoryOK
<1>6. Moves(a, v)
  BY <1>1, <1>2, <1>3, <1>4, <1>5 DEF Moves, Breaking
<1> QED
  BY <1>6, MovesKeeps

\* resume: nobody becomes ready behind a barrier.
LEMMA ResumeKeeps ==
  ASSUME IInv, NEW a \in Agent, Resume(a)
  PROVE  IInv'
<1> DEFINE v == Fresh("ready")
<1>1. v \in States /\ st' = [st EXCEPT ![a] = v] /\ st[a].status = "paused"
  BY DEF Resume, Fresh, States, Status
<1>2. v.status = "ready" /\ ~v.cancel
  BY DEF Fresh
<1>3. RootOf(a) \notin barriers
  BY OpenScope DEF Resume
<1> HIDE DEF v
<1>4. UNCHANGED <<steps, runOpen, quanta, recov, prev, gaveUp, barriers, sched, phase, crashes>>
      /\ calls' \in Nat
  BY Basics DEF Resume, Call, memory, recoveries, JournalOK
<1>5. /\ quantum[a] = "queued" => st[a].status \in {"ready", "paused", "interrupted"}
      /\ quantum[a] = "checking" <=> st[a].status = "checking"
      /\ quantum[a] \in {"stepping", "closing"} <=> st[a].status = "running"
      /\ a \in recov <=> st[a].status = "recovering"
      /\ a \in recov => prev[a].status \in {"paused", "interrupted"}
      /\ prev[a].cancel => prev[a].status = "interrupted"
      /\ recov \in SUBSET Agent /\ prev \in [Agent -> States] /\ gaveUp \in SUBSET Agent
  BY Basics DEF PlaceInv, CancelInv, MemoryOK
<1>6. Moves(a, v)
  BY <1>1, <1>2, <1>3, <1>4, <1>5 DEF Moves, Breaking
<1> QED
  BY <1>6, MovesKeeps

\* restoreCheckpoint: nothing of the scope is at work.
LEMMA RestoreKeeps ==
  ASSUME IInv, NEW a \in Agent, Restore(a)
  PROVE  IInv'
<1> DEFINE v == Fresh("paused")
<1>1. v \in States /\ st' = [st EXCEPT ![a] = v] /\ st[a].status \in {"paused", "interrupted"}
  BY DEF Restore, Fresh, States, Status
<1>2. v.status = "paused" /\ ~v.cancel
  BY DEF Fresh
<1>3. a \notin Active
  BY OwnScope DEF Restore, ScopeOpen
<1> HIDE DEF v
<1>4. UNCHANGED <<steps, runOpen, quanta, recov, prev, gaveUp, barriers, sched, phase, crashes>>
      /\ calls' \in Nat
  BY Basics DEF Restore, Call, memory, recoveries, JournalOK
<1>5. /\ quantum[a] = "queued" => st[a].status \in {"ready", "paused", "interrupted"}
      /\ quantum[a] = "checking" <=> st[a].status = "checking"
      /\ quantum[a] \in {"stepping", "closing"} <=> st[a].status = "running"
      /\ a \in recov <=> st[a].status = "recovering"
      /\ a \in recov => prev[a].status \in {"paused", "interrupted"}
      /\ prev[a].cancel => prev[a].status = "interrupted"
      /\ recov \in SUBSET Agent /\ prev \in [Agent -> States] /\ gaveUp \in SUBSET Agent
  BY Basics DEF PlaceInv, CancelInv, MemoryOK
<1>6. Moves(a, v)
  BY <1>1, <1>2, <1>3, <1>4, <1>5 DEF Moves, Breaking
<1> QED
  BY <1>6, MovesKeeps

\* recoverCheckpoint, its begin.
LEMMA RecoverBeginKeeps ==
  ASSUME IInv, NEW a \in Agent, RecoverBegin(a)
  PROVE  IInv'
<1> DEFINE v == Fresh("recovering")
<1>1. v \in States /\ st' = [st EXCEPT ![a] = v] /\ st[a].status \in {"paused", "interrupted"}
  BY DEF RecoverBegin, Fresh, States, Status
<1>2. v.status = "recovering" /\ ~v.cancel
  BY DEF Fresh
<1>3. a \notin Active /\ quantum[a] = "none"
  BY OwnScope DEF RecoverBegin, ScopeOpen, Active
<1>4. /\ \A b \in Agent : prev'[b] = IF b = a THEN st[a] ELSE prev[b]
      /\ prev' \in [Agent -> States] /\ recov' = recov \cup {a} /\ recov' \in SUBSET Agent
  BY Basics DEF RecoverBegin, JournalOK, MemoryOK
<1>5. st[a].cancel => st[a].status = "interrupted"
  BY <1>1, Basics DEF CancelInv, Cancelled
<1>6. UNCHANGED <<steps, runOpen, quanta, gaveUp, barriers, sched, phase, crashes>>
      /\ calls' \in Nat /\ gaveUp \in SUBSET Agent
  BY Basics DEF RecoverBegin, Call, JournalOK, MemoryOK
<1> HIDE DEF v
<1>7. Moves(a, v)
  BY <1>1, <1>2, <1>3, <1>4, <1>5, <1>6 DEF Moves, Breaking
<1> QED
  BY <1>7, MovesKeeps

\* recoverCheckpoint, its end: who falls back to interrupted is remembered.
LEMMA RecoverEndsKeeps ==
  ASSUME IInv, NEW a \in Agent, RecoverEnds(a)
  PROVE  IInv'
<1> DEFINE v == st'[a]
           halt == [status |-> "interrupted", cancel |-> TRUE, pause |-> FALSE]
<1>1. /\ halt \in States /\ halt.status = "interrupted" /\ halt.cancel
      /\ Fresh("paused") \in States /\ Fresh("paused").status = "paused" /\ ~Fresh("paused").cancel
      /\ Fresh("none") \in States /\ ~Fresh("none").cancel
  BY DEF Fresh, States, Status
<1>2. /\ a \in recov /\ st[a].status = "recovering" /\ prev[a] \in States
      /\ prev[a].status \in {"paused", "interrupted"}
      /\ prev[a].cancel => prev[a].status = "interrupted"
  BY Basics DEF RecoverEnds, PlaceInv, CancelInv, MemoryOK
<1>3. \E w \in {halt, Fresh("paused"), prev[a]} :
         st' = [st EXCEPT ![a] = w] /\ (w = halt => st[a].cancel \/ w = prev[a])
  <2>1. CASE st[a].cancel /\ st' = [st EXCEPT ![a] = halt]
    BY <2>1
  <2>2. CASE st' = [st EXCEPT ![a] = Fresh("paused")]
    BY <1>1, <2>2
  <2>3. CASE st' = [st EXCEPT ![a] = prev[a]]
    BY <2>3
  <2> QED
    BY <2>1, <2>2, <2>3 DEF RecoverEnds
<1>4. /\ st' = [st EXCEPT ![a] = v] /\ v \in States
      /\ v.status \in {"paused", "interrupted"} /\ (v.cancel => v.status = "interrupted")
      /\ v.status = "interrupted" => Breaking(st[a]) \/ a \in gaveUp'
  BY <1>1, <1>2, <1>3, Basics DEF JournalOK, RecoverEnds, Breaking
<1>5. quantum[a] = "none"
  BY <1>2, Basics DEF PlaceInv, QuantaOK, Place
<1>6. /\ \A b \in Agent : prev'[b] = IF b = a THEN Fresh("none") ELSE prev[b]
      /\ prev' \in [Agent -> States] /\ recov' = recov \ {a} /\ recov' \in SUBSET Agent
      /\ gaveUp \subseteq gaveUp' /\ gaveUp' \in SUBSET Agent
  BY <1>1, Basics DEF RecoverEnds, Unregistered, MemoryOK
<1>7. UNCHANGED <<steps, runOpen, quanta, barriers, sched, phase, crashes>> /\ calls' \in Nat
  BY Basics DEF RecoverEnds, JournalOK
<1> HIDE DEF v
<1>8. Moves(a, v)
  BY <1>1, <1>2, <1>4, <1>5, <1>6, <1>7 DEF Moves, Breaking, Cancelled
<1> QED
  BY <1>8, MovesKeeps

\* interrupt fences one task.
LEMMA InterruptKeeps ==
  ASSUME IInv, NEW a \in Agent, Interrupt(a)
  PROVE  Fences({RootOf(a)})
<1>1. a \in Created /\ RootOf(a) \in Created /\ RootOf(a) \in Agent /\ Parent[RootOf(a)] = NoAgent
  BY Basics, ChainCreated, RootOnChain DEF Interrupt, Created
<1>2. \A b \in Agent : st'[b] = IF b \in Created /\ RootOf(b) = RootOf(a)
                                 THEN Halted(st, b) ELSE st[b]
  BY <1>1, FencedIs DEF Interrupt
<1>3. st' \in [Agent -> States]
  <2>1. \A b \in Agent : st'[b] \in States
    BY <1>2, Basics, HaltedIs DEF JournalOK, Created
  <2> QED
    BY <2>1, FencedIs DEF Interrupt, Fenced
<1>4. \A b \in Active : b \in Created
  <2>1. \A b \in Agent : quantum[b] # "none" => st[b].status # "none"
    BY Basics DEF PlaceInv, QuantaOK, Place
  <2> QED
    BY <2>1 DEF Created, Active
<1>5. aborted' = aborted \cup {b \in Active : RootOf(b) \in {RootOf(a)}}
  BY <1>1, <1>4, ScopeOfRoot DEF Interrupt
<1> QED
  BY <1>1, <1>2, <1>3, <1>5, Basics DEF Interrupt, Call, Fences, JournalOK, MemoryOK

\* settleShutdown fences the tasks at work.
LEMMA ShutdownFenceKeeps ==
  ASSUME IInv, ShutdownFence
  PROVE  \E hit : Fences(hit)
<1> DEFINE hit == {RootOf(a) : a \in {b \in Agent : st[b].status \in {"checking", "running", "waiting"}}}
<1>1. hit \in SUBSET Created /\ hit \in SUBSET Agent /\ \A r \in hit : Parent[r] = NoAgent
  BY Basics, ChainCreated, RootOnChain DEF Created
<1>2. /\ st' = [a \in Agent |-> IF RootOf(a) \in hit THEN Fenced(st, RootOf(a))[a]
                               ELSE IF st[a].status = "ready" THEN Fresh("paused") ELSE st[a]]
      /\ barriers' = barriers \cup hit
      /\ aborted' = aborted \cup {b \in Active : RootOf(b) \in hit}
  BY DEF ShutdownFence
<1> HIDE DEF hit
<1>3. \A b \in Agent : Fenced(st, RootOf(b))[b] = IF b \in Created THEN Halted(st, b) ELSE st[b]
  BY FencedIs, RootOnChain
<1>4. \A b \in Agent : IF b \in Created /\ RootOf(b) \in hit THEN st'[b] = Halted(st, b)
                        ELSE \/ st'[b] = st[b]
                             \/ st[b].status = "ready" /\ st'[b] = Fresh("paused")
  BY <1>2, <1>3
<1>5. st' \in [Agent -> States]
  <2>1. Fresh("paused") \in States
    BY DEF Fresh, States, Status
  <2>2. \A b \in Agent : st'[b] \in States
    BY <1>4, <2>1, Basics, HaltedIs DEF JournalOK, Created
  <2> QED
    BY <1>2, <2>2
<1> QED
  BY <1>1, <1>2, <1>4, <1>5, Basics DEF ShutdownFence, Fences, JournalOK

\* A quantum goes on: what is at work stays told, nobody is launched.
GoesOn(a, place, status) ==
    /\ place # "queued" /\ status \notin {"none", "ready", "completed", "failed", "interrupted"}
    /\ st' = [st EXCEPT ![a].status = status]
    /\ quantum' = [quantum EXCEPT ![a] = place]
    /\ UNCHANGED <<runOpen, aborted, outcome, recoveries, barriers, sched, phase, calls, crashes>>
\* A quantum that goes on keeps the invariant and who is over.
LEMMA GoesOnKeeps ==
  ASSUME IInv, NEW a \in Agent, NEW place \in Place \ {"none"}, NEW status \in Status,
         GoesOn(a, place, status), quantum[a] # "none",
         st[a].status \in {"ready", "checking", "running"},
         QuantaOK', BudgetInv', steps' \in [Agent -> Nat],
         st[a].cancel => status \in Cancelled,
         quantum[a] = "queued" => RootOf(a) \notin barriers,
         quantum[a] = "queued" => RootOf(a) \notin BrokenScopes(st) \/ GivenUp(RootOf(a)),
         place = "checking" <=> status = "checking",
         place \in {"stepping", "closing"} <=> status = "running",
         status # "recovering",
         \A b \in Agent : cmds'[b] > 0 => quantum'[b] \in {"stepping", "closing"}
  PROVE  IInv' /\ OverKept
<1> DEFINE v == [st[a] EXCEPT !.status = status]
<1>1. UNCHANGED <<runOpen, aborted, outcome, recov, prev, gaveUp, barriers, sched, phase, calls, crashes>>
  BY DEF GoesOn, recoveries
<1>2. \A b \in Agent :
        /\ quantum'[b] = IF b = a THEN place ELSE quantum[b]
        /\ st'[b] = IF b = a THEN v ELSE st[b]
  BY Basics DEF GoesOn, JournalOK, QuantaOK
<1>3. v \in States /\ v.status = status /\ v.cancel = st[a].cancel
  BY Basics DEF JournalOK, States
<1>4. st' \in [Agent -> States]
  BY <1>3, Basics DEF JournalOK, GoesOn
<1> HIDE DEF v
<1>5. Active' = Active /\ Created' = Created
  BY DEF Active, Created, GoesOn
<1>6. Types'
  BY <1>1, <1>4, Basics DEF Types, JournalOK, MemoryOK
<1>7. RoomInv'
  BY <1>5, Basics DEF RoomInv
<1>8. PlaceInv'
  BY <1>1, <1>2, <1>3, Basics DEF PlaceInv, GoesOn
<1>9. CancelInv'
  BY <1>1, <1>2, <1>3, Basics DEF CancelInv
<1>10. BrokenScopes(st') \subseteq BrokenScopes(st)
  <2>1. status \notin {"interrupted", "failed"}
    BY DEF GoesOn
  <2> QED
    BY <1>2, <1>3, <2>1, BrokenShrinks
<1>11. FenceInv'
  <2> SUFFICES ASSUME NEW b \in Active', RootOf(b) \in BrokenScopes(st'), ~GivenUp(RootOf(b))'
               PROVE  \/ quantum'[b] = "queued" /\ st'[b].status = "interrupted"
                      \/ quantum'[b] # "queued" /\ b \in aborted'
    BY DEF FenceInv
  <2>1. b \in Active /\ b \in Agent /\ ~GivenUp(RootOf(b)) /\ RootOf(b) \in BrokenScopes(st)
    BY <1>1, <1>5, <1>10 DEF GivenUp, Active
  <2> QED
    BY <2>1, Basics DEF FenceInv, GoesOn
<1>12. BarrierInv'
  BY <1>5, Basics DEF BarrierInv, GoesOn
<1>13. CreatedInv' /\ CompletedMeansAll'
  BY <1>5, Basics, ScopesStay, WholeStays DEF GoesOn
<1>14. OverKept
  BY <1>2 DEF OverKept, Over
<1> QED
  BY <1>6, <1>7, <1>8, <1>9, <1>11, <1>12, <1>13, <1>14 DEF IInv

\* Who is queued and ready is of a task that is whole, or that a recovery given up
\* has broken since the last turn.
LEMMA ReadyIsWhole ==
  ASSUME IInv, NEW a \in Agent, quantum[a] = "queued", st[a].status = "ready"
  PROVE  RootOf(a) \notin BrokenScopes(st) \/ GivenUp(RootOf(a))
  BY Basics DEF FenceInv, Active

\* What an agent has before its step.
LEMMA NoCommands ==
  ASSUME IInv, NEW a \in Agent, quantum[a] \in {"none", "queued", "checking"}
  PROVE  cmds[a] = 0
  BY Basics DEF PlaceInv, QuantaOK

\* advance: not ready any more, not affordable, checking, or failed.
LEMMA AdvanceKeeps ==
  ASSUME IInv, NEW a \in Agent, Advance(a)
  PROVE  IInv' /\ OverKept
<1>1. quantum[a] = "queued" /\ cmds[a] = 0 /\ st[a] \in States
      /\ UNCHANGED NotOfQuanta
  BY NoCommands, Basics DEF Advance, NotOfQuanta, JournalOK
<1>2. CASE Settled(a) /\ st' = st
  <2>1. Leaves(a, st[a])
    BY <1>1, <1>2, Basics DEF Leaves, Settled, JournalOK
  <2> QED
    BY <1>1, <2>1, LeavesKeeps
<1>3. CASE st[a].status = "ready" /\ Settled(a) /\ st' = [st EXCEPT ![a].status = "paused"]
  <2> DEFINE v == [st[a] EXCEPT !.status = "paused"]
  <2>1. v \in States /\ v.status = "paused" /\ ~v.cancel
    BY <1>1, <1>3, Basics DEF States, Status, CancelInv, Cancelled
  <2>2. st' = [st EXCEPT ![a] = v]
    BY <1>3
  <2> HIDE DEF v
  <2>3. Leaves(a, v)
    BY <1>1, <1>3, <2>1, <2>2 DEF Leaves, Settled
  <2> QED
    BY <1>1, <2>3, LeavesKeeps
<1>4. CASE /\ st[a].status = "ready" /\ steps[a] < MaxSteps[a] /\ ScopeOpen(a, FALSE)
           /\ st' = [st EXCEPT ![a].status = "checking"]
           /\ quantum' = [quantum EXCEPT ![a] = "checking"]
           /\ UNCHANGED <<aborted, failed, outcome, sched>>
  <2>1. GoesOn(a, "checking", "checking")
    BY <1>1, <1>4 DEF GoesOn, NotOfQuanta
  <2>2. RootOf(a) \notin barriers /\ (RootOf(a) \notin BrokenScopes(st) \/ GivenUp(RootOf(a)))
    BY <1>1, <1>4, OpenScope, ReadyIsWhole
  <2>3. \A b \in Agent : quantum'[b] = IF b = a THEN "checking" ELSE quantum[b]
    BY <1>4, Basics DEF QuantaOK
  <2>4. QuantaOK' /\ steps' \in [Agent -> Nat]
    BY <1>1, <1>4, Basics DEF QuantaOK, JournalOK, NotOfQuanta, Place
  <2>5. BudgetInv'
    BY <1>1, <1>4, <2>3, Basics, Totals DEF BudgetInv, BudgetsHold, NotOfQuanta
  <2>6. \A b \in Agent : cmds'[b] > 0 => quantum'[b] \in {"stepping", "closing"}
    BY <1>1, <2>3, Basics DEF PlaceInv, NotOfQuanta
  <2> QED
    BY <1>1, <1>4, <2>1, <2>2, <2>4, <2>5, <2>6, GoesOnKeeps DEF Place, Status,
       Cancelled
<1>5. CASE st[a].status = "ready" /\ SettledBroken(a, [st[a] EXCEPT !.status = "failed"])
  <2> DEFINE v == [st[a] EXCEPT !.status = "failed"]
  <2>1. v \in States /\ v.status = "failed"
    BY <1>1 DEF States, Status
  <2>2. SettledBroken(a, v)
    BY <1>5
  <2> HIDE DEF v
  <2>3. Breaks(a, v)
    BY <1>1, <1>5, <2>1, <2>2 DEF Breaks
  <2> QED
    BY <1>1, <2>3, BreaksKeeps
<1> QED
  BY <1>2, <1>3, <1>4, <1>5 DEF Advance

\* After validate: interrupted, failed, paused, or charged and running.
LEMMA ValidateKeeps ==
  ASSUME IInv, NEW a \in Agent, Validate(a)
  PROVE  IInv' /\ OverKept
<1>1. /\ quantum[a] = "checking" /\ cmds[a] = 0 /\ st[a] \in States /\ st[a].status = "checking"
      /\ UNCHANGED <<runOpen, cmds, recoveries, barriers, phase, calls, crashes>>
  BY NoCommands, Basics DEF Validate, JournalOK, PlaceInv
<1>2. ASSUME steps' = steps, NEW v \in States, v.status \in {"failed", "interrupted"}, SettledBroken(a, v)
      PROVE  IInv' /\ OverKept
  <2>1. Breaks(a, v) /\ UNCHANGED NotOfQuanta
    BY <1>1, <1>2 DEF Breaks, NotOfQuanta
  <2> QED
    BY <2>1, BreaksKeeps
<1>3. CASE steps' = steps /\ SettledBroken(a, [status |-> "interrupted", cancel |-> TRUE, pause |-> FALSE])
  <2> DEFINE v == [status |-> "interrupted", cancel |-> TRUE, pause |-> FALSE]
  <2>1. v \in States /\ v.status = "interrupted" /\ SettledBroken(a, v)
    BY <1>3 DEF States, Status
  <2> HIDE DEF v
  <2> QED
    BY <1>2, <1>3, <2>1
<1>4. CASE steps' = steps /\ SettledBroken(a, Fresh("failed"))
  <2>1. Fresh("failed") \in States /\ Fresh("failed").status = "failed"
    BY DEF Fresh, States, Status
  <2> QED
    BY <1>2, <1>4, <2>1
<1>5. CASE steps' = steps /\ Settled(a) /\ st' = [st EXCEPT ![a] = Fresh("paused")]
  <2>1. Fresh("paused") \in States /\ Fresh("paused").status = "paused" /\ ~Fresh("paused").cancel
    BY DEF Fresh, States, Status
  <2>2. Leaves(a, Fresh("paused")) /\ UNCHANGED NotOfQuanta
    BY <1>1, <1>5, <2>1 DEF Leaves, Settled, NotOfQuanta
  <2> QED
    BY <2>2, LeavesKeeps
<1>6. CASE /\ Affordable
           /\ st' = [st EXCEPT ![a].status = "running"]
           /\ steps' = [steps EXCEPT ![a] = @ + 1]
           /\ quantum' = [quantum EXCEPT ![a] = "stepping"]
           /\ UNCHANGED <<aborted, failed, outcome, sched>>
  <2>1. GoesOn(a, "stepping", "running")
    BY <1>1, <1>6 DEF GoesOn
  <2>2. \A b \in Agent : quantum'[b] = IF b = a THEN "stepping" ELSE quantum[b]
    BY <1>6, Basics DEF QuantaOK
  <2>3. QuantaOK' /\ steps' \in [Agent -> Nat]
    BY <1>1, <1>6, Basics DEF QuantaOK, JournalOK, Place
  <2>4. RunUsed' = RunUsed + 1 /\ RunUsed \in Nat
    BY <1>6, Basics, TotalAdd, TotalNat, AgentAssumption DEF JournalOK, RunUsed
  <2>5. \A b \in Agent : steps'[b] <= MaxSteps[b] /\ (quantum'[b] = "checking" => steps'[b] < MaxSteps[b])
    BY <1>1, <1>6, <2>2, Basics, AgentAssumption DEF BudgetInv, BudgetsHold, JournalOK
  <2>6. BudgetInv'
    BY <1>1, <1>6, <2>4, <2>5, Basics, Totals, AgentAssumption DEF BudgetInv,
       BudgetsHold, Affordable
  <2>7. \A b \in Agent : cmds'[b] > 0 => quantum'[b] \in {"stepping", "closing"}
    BY <1>1, <2>2, Basics DEF PlaceInv
  <2> QED
    BY <1>1, <2>1, <2>3, <2>6, <2>7, GoesOnKeeps DEF Place, Status, Cancelled
<1> QED
  BY <1>3, <1>4, <1>5, <1>6 DEF Validate

\* executeProcess of a step takes a slot or fails.
LEMMA CommandKeeps ==
  ASSUME IInv, NEW a \in Agent, Command(a)
  PROVE  IInv'
<1>1. /\ UNCHANGED <<st, steps, runOpen, quantum, aborted, outcome, recov, prev, gaveUp, barriers,
                     sched, phase, calls, crashes>>
      /\ quantum[a] = "stepping"
  BY DEF Command, journal, recoveries
<1>2. cmds' = cmds \/ (cmds' = [cmds EXCEPT ![a] = cmds[a] + 1] /\ Pending < MaxCommands)
  BY DEF Command
<1>3. cmds' \in [Agent -> Nat] /\ failed' \in SUBSET Agent
  <2>1. cmds' \in [Agent -> Nat]
    BY <1>2, Basics DEF QuantaOK
  <2>2. failed' = failed \/ failed' = failed \cup {a}
    BY DEF Command
  <2> QED
    BY <2>1, <2>2, Basics DEF QuantaOK
<1>4. Pending' <= MaxCommands
  <2>1. Pending \in Nat /\ Pending <= MaxCommands
    BY Basics, TotalNat, AgentAssumption DEF BudgetInv, BudgetsHold, QuantaOK, Pending
  <2>2. CASE cmds' = cmds
    BY <2>1, <2>2 DEF Pending
  <2>3. CASE cmds' = [cmds EXCEPT ![a] = cmds[a] + 1] /\ Pending < MaxCommands
    <3>1. Pending' = Pending + 1
      BY <2>3, Basics, TotalAdd, AgentAssumption DEF QuantaOK, Pending
    <3> QED
      BY <2>1, <2>3, <3>1, AgentAssumption
  <2> QED
    BY <1>2, <2>2, <2>3
<1>5. Active' = Active /\ Created' = Created /\ BrokenScopes(st') = BrokenScopes(st)
  BY <1>1 DEF Active, Created, BrokenScopes
<1>6. Types'
  BY <1>1, <1>3, Basics DEF Types, JournalOK, QuantaOK, MemoryOK
<1>7. RoomInv' /\ BudgetInv' /\ CancelInv'
  BY <1>1, <1>4, <1>5, Basics DEF RoomInv, BudgetInv, BudgetsHold, CancelInv, RunUsed
<1>8. PlaceInv'
  BY <1>1, <1>2, Basics DEF PlaceInv, QuantaOK
<1>9. FenceInv' /\ BarrierInv'
  BY <1>1, <1>5, Basics DEF FenceInv, GivenUp, BarrierInv
<1>10. CreatedInv' /\ CompletedMeansAll'
  BY <1>1, <1>5, Basics, ScopesStay
<1> QED
  BY <1>6, <1>7, <1>8, <1>9, <1>10 DEF IInv

\* A command that ends gives its slot back.
LEMMA CommandEndsKeeps ==
  ASSUME IInv, NEW a \in Agent, CommandEnds(a)
  PROVE  IInv'
<1>1. /\ UNCHANGED <<st, steps, runOpen, quantum, aborted, outcome, recov, prev, gaveUp, barriers,
                     sched, phase, calls, crashes>>
      /\ cmds[a] > 0 /\ cmds' = [cmds EXCEPT ![a] = cmds[a] - 1]
  BY DEF CommandEnds, journal, recoveries
<1>2. cmds' \in [Agent -> Nat] /\ failed' \in SUBSET Agent
  BY Basics DEF CommandEnds, QuantaOK
<1>3. Pending' <= MaxCommands
  <2>1. cmds = [cmds' EXCEPT ![a] = cmds'[a] + 1]
    <3>1. cmds \in [Agent -> Nat]
      BY Basics DEF QuantaOK
    <3>2. cmds'[a] + 1 = cmds[a] /\ \A b \in Agent \ {a} : cmds'[b] = cmds[b]
      BY <1>1, <3>1
    <3> QED
      BY <1>2, <3>1, <3>2
  <2>2. Total(cmds, Agent) = Total(cmds', Agent) + 1 /\ Total(cmds', Agent) \in Nat
    BY <1>2, <2>1, TotalAdd, TotalNat, AgentAssumption
  <2> QED
    BY <2>2, Basics, AgentAssumption DEF BudgetInv, BudgetsHold, Pending
<1>4. Active' = Active /\ Created' = Created /\ BrokenScopes(st') = BrokenScopes(st)
  BY <1>1 DEF Active, Created, BrokenScopes
<1>5. Types'
  BY <1>1, <1>2, Basics DEF Types, JournalOK, QuantaOK, MemoryOK
<1>6. RoomInv' /\ BudgetInv' /\ CancelInv'
  BY <1>1, <1>3, <1>4, Basics DEF RoomInv, BudgetInv, BudgetsHold, CancelInv, RunUsed
<1>7. PlaceInv'
  BY <1>1, Basics DEF PlaceInv
<1>8. FenceInv' /\ BarrierInv'
  BY <1>1, <1>4, Basics DEF FenceInv, GivenUp, BarrierInv
<1>9. CreatedInv' /\ CompletedMeansAll'
  BY <1>1, <1>4, Basics, ScopesStay
<1> QED
  BY <1>5, <1>6, <1>7, <1>8, <1>9 DEF IInv

\* A step that returns waits for its commands.
LEMMA StepReturnsKeeps ==
  ASSUME IInv, NEW a \in Agent, StepReturns(a)
  PROVE  IInv'
<1>1. /\ UNCHANGED <<st, steps, runOpen, aborted, cmds, failed, recov, prev, gaveUp, barriers,
                     sched, phase, calls, crashes>>
      /\ quantum[a] = "stepping"
  BY DEF StepReturns, journal, recoveries
<1>2. \A b \in Agent : quantum'[b] = IF b = a THEN "closing" ELSE quantum[b]
  BY Basics DEF StepReturns, QuantaOK
<1>3. Active' = Active /\ Created' = Created /\ BrokenScopes(st') = BrokenScopes(st)
  BY <1>1, <1>2 DEF Active, Created, BrokenScopes
<1>4. Types'
  BY <1>1, Basics DEF StepReturns, Types, JournalOK, QuantaOK, MemoryOK, Place
<1>5. RoomInv' /\ BudgetInv' /\ CancelInv'
  BY <1>1, <1>2, <1>3, Basics, Totals DEF RoomInv, BudgetInv, BudgetsHold, CancelInv
<1>6. PlaceInv'
  BY <1>1, <1>2, Basics DEF PlaceInv
<1>7. FenceInv' /\ BarrierInv'
  BY <1>1, <1>2, <1>3, Basics DEF FenceInv, GivenUp, BarrierInv, Active
<1>8. CreatedInv' /\ CompletedMeansAll'
  BY <1>1, <1>3, Basics, ScopesStay
<1> QED
  BY <1>4, <1>5, <1>6, <1>7, <1>8 DEF IInv

\* A step that settles breaks its task or leaves its result.
LEMMA StepSettlesKeeps ==
  ASSUME IInv, NEW a \in Agent, StepSettles(a)
  PROVE  IInv' /\ OverKept
<1>1. quantum[a] = "closing" /\ cmds[a] = 0 /\ st[a].status = "running" /\ UNCHANGED NotOfQuanta
  BY Basics DEF StepSettles, NotOfQuanta, PlaceInv
<1>2. CASE SettledBroken(a, [status |-> "interrupted", cancel |-> a \in aborted, pause |-> FALSE])
  <2> DEFINE v == [status |-> "interrupted", cancel |-> a \in aborted, pause |-> FALSE]
  <2>1. v \in States /\ v.status = "interrupted" /\ SettledBroken(a, v)
    BY <1>2 DEF States, Status
  <2> HIDE DEF v
  <2>2. Breaks(a, v)
    BY <1>1, <2>1 DEF Breaks
  <2> QED
    BY <1>1, <2>2, BreaksKeeps
<1>3. CASE a \notin aborted /\ Settled(a) /\ st' = [st EXCEPT ![a] = StepResult(a)]
  <2>1. /\ StepResult(a) \in States /\ ~StepResult(a).cancel
        /\ StepResult(a).status \in {"ready", "paused", "waiting", "completed"}
        /\ StepResult(a).status = "completed" => Children(a) = {}
    BY DEF StepResult, Fresh, States, Status
  <2>2. StepResult(a).status = "completed" => Scope(a) \subseteq {a}
    BY <2>1, Basics, NoChildren
  <2>3. Leaves(a, StepResult(a))
    BY <1>1, <1>3, <2>1, <2>2 DEF Leaves, Settled
  <2> QED
    BY <1>1, <2>3, LeavesKeeps
<1> QED
  BY <1>2, <1>3 DEF StepSettles

\* schedule: broken tasks are fenced first, so who is launched is of a whole task.
LEMMA ScheduleKeeps ==
  ASSUME IInv, Schedule
  PROVE  IInv' /\ OverKept
<1> DEFINE s == Reconciled(st)
           ready == IF phase = "open" THEN {a \in Agent : s[a].status = "ready"} ELSE {}
           free == MaxConcurrent - Cardinality(Active)
<1>1. PICK launch \in SUBSET ready :
        /\ Cardinality(launch) = IF Cardinality(ready) < free THEN Cardinality(ready) ELSE free
        /\ st' = s
        /\ quantum' = [a \in Agent |-> IF a \in launch THEN "queued" ELSE quantum[a]]
        /\ aborted' = aborted \cup AbortedBy(st)
        /\ sched' \in {"race", "recov", "off"}
  BY DEF Schedule
<1>2. /\ gaveUp' = {}
      /\ UNCHANGED <<steps, runOpen, cmds, failed, outcome, recov, prev, barriers, phase, calls, crashes>>
  BY DEF Schedule
<1>3. /\ \A b \in launch : b \in Agent /\ st'[b].status = "ready"
      /\ \A b \in Agent : quantum'[b] = IF b \in launch THEN "queued" ELSE quantum[b]
  BY <1>1
<1>4. \A b \in Agent :
        /\ st[b].status \in Over => st'[b] = st[b]
        /\ st'[b].status = st[b].status
              \/ (st[b].status \in {"ready", "paused", "waiting"} /\ st'[b].status = "interrupted")
              \/ (st[b].status = "waiting" /\ st'[b].status = "completed")
        /\ st'[b].cancel => st'[b].status \in Cancelled
        /\ RootOf(b) \in BrokenScopes(st) => st'[b].status \notin {"ready", "paused", "waiting"}
  BY <1>1, Basics, ReconciledOne
<1>5. st' \in [Agent -> States] /\ Created' = Created /\ CreatedInv' /\ CompletedMeansAll'
  BY <1>1, Basics, ReconcileFrame
<1>6. BrokenScopes(st') \subseteq BrokenScopes(st)
  BY <1>1, ReconciledBreaksNone
<1>7. Active' = Active \cup launch
  BY <1>3 DEF Active
<1>8. RoomInv'
  <2>1. IsFiniteSet(Active) /\ IsFiniteSet(ready) /\ IsFiniteSet(launch)
    BY AgentAssumption, FS_Subset DEF Active
  <2>2. Cardinality(Active) \in Nat /\ Cardinality(ready) \in Nat /\ Cardinality(launch) \in Nat
        /\ Cardinality(Active \cap launch) \in Nat
    BY <2>1, FS_CardinalityType, FS_Intersection
  <2>3. Cardinality(Active') = Cardinality(Active) + Cardinality(launch) - Cardinality(Active \cap launch)
    BY <1>7, <2>1, FS_Union
  <2>4. Cardinality(launch) <= MaxConcurrent - Cardinality(Active)
    <3> HIDE DEF ready
    <3> QED
      BY <1>1, <2>2, AgentAssumption
  <2> QED
    BY <2>2, <2>3, <2>4, AgentAssumption DEF RoomInv
<1> HIDE DEF s, ready, free
<1>9. quantum' \in [Agent -> Place] /\ aborted' \in SUBSET Agent
  BY <1>1, Basics DEF QuantaOK, Place, AbortedBy, Active
<1>10. Types'
  BY <1>1, <1>2, <1>5, <1>9, Basics DEF Types, JournalOK, QuantaOK, MemoryOK
<1>11. BudgetInv'
  BY <1>2, <1>3, Basics, Totals DEF BudgetInv, BudgetsHold
<1>12. \A b \in launch : st[b].status = "ready" /\ quantum[b] \in {"none", "queued"}
  BY <1>3, <1>4, Basics DEF PlaceInv, QuantaOK, Place
<1>13. PlaceInv'
  BY <1>2, <1>3, <1>4, <1>12, Basics DEF PlaceInv
<1>14. CancelInv'
  BY <1>2, <1>4, Basics DEF CancelInv
<1>15. FenceInv'
  <2> SUFFICES ASSUME NEW b \in Active', RootOf(b) \in BrokenScopes(st')
               PROVE  \/ quantum'[b] = "queued" /\ st'[b].status = "interrupted"
                      \/ quantum'[b] # "queued" /\ b \in aborted'
    BY DEF FenceInv
  <2>1. b \in Agent /\ RootOf(b) \in BrokenScopes(st) /\ b \notin launch /\ b \in Active
    BY <1>3, <1>4, <1>6, <1>7 DEF Active
  <2>2. b \in aborted'
    BY <1>1, <2>1 DEF AbortedBy
  <2>3. quantum[b] = "queued" => st'[b].status = "interrupted"
    BY <1>4, <2>1, Basics DEF PlaceInv
  <2> QED
    BY <1>3, <2>1, <2>2, <2>3
<1>16. BarrierInv'
  BY <1>1, <1>2, <1>3, <1>4, <1>5, <1>7, Basics DEF BarrierInv
<1> QED
  BY <1>4, <1>5, <1>8, <1>10, <1>11, <1>13, <1>14, <1>15, <1>16 DEF IInv, OverKept

\* The constructor leaves nobody at work.
LEMMA CrashKeeps ==
  ASSUME IInv, Crash
  PROVE  /\ IInv' /\ OverKept
         /\ \A b \in Agent : st[b].status = "running" => st'[b].status = "interrupted"
<1> DEFINE s == Restarted(st)
           broken == BrokenScopes(s)
           halt == [status |-> "interrupted", cancel |-> TRUE, pause |-> FALSE]
<1>1. \A b \in Agent :
        /\ s[b] \in States
        /\ s[b].status \notin {"ready", "checking", "running", "recovering"}
        /\ s[b].status # "none" <=> b \in Created
        /\ s[b].cancel => s[b].status \in {"interrupted", "failed"}
        /\ st[b].status \in Over \cup {"waiting"} => s[b] = st[b]
        /\ st[b].status = "running" => s[b].status = "interrupted"
        /\ s[b].status \in {"completed", "waiting"} => st[b] = s[b]
  <2> SUFFICES ASSUME NEW b \in Agent
               PROVE  /\ s[b] \in States
                      /\ s[b].status \notin {"ready", "checking", "running", "recovering"}
                      /\ s[b].status # "none" <=> b \in Created
                      /\ s[b].cancel => s[b].status \in {"interrupted", "failed"}
                      /\ st[b].status \in Over \cup {"waiting"} => s[b] = st[b]
                      /\ st[b].status = "running" => s[b].status = "interrupted"
                      /\ s[b].status \in {"completed", "waiting"} => st[b] = s[b]
    OBVIOUS
  <2>1. st[b] \in States /\ (st[b].cancel => st[b].status \in Cancelled)
        /\ (b \in Created <=> st[b].status # "none")
    BY Basics DEF JournalOK, CancelInv, Created
  <2> DEFINE hold == [Fresh("interrupted") EXCEPT !.pause = st[b].pause]
             wait == [Fresh("paused") EXCEPT !.pause = st[b].pause]
  <2>2. hold \in States /\ hold.status = "interrupted" /\ ~hold.cancel
        /\ wait \in States /\ wait.status = "paused" /\ ~wait.cancel
    BY <2>1 DEF Fresh, States, Status
  <2>3. s[b] = IF st[b].status \in {"running", "recovering"} \/ (st[b].status = "checking" /\ st[b].cancel)
               THEN hold ELSE IF st[b].status \in {"checking", "ready"} THEN wait ELSE st[b]
    BY DEF Restarted
  <2> HIDE DEF s, hold, wait
  <2> QED
    BY <2>1, <2>2, <2>3 DEF Over, Cancelled
<1>2. halt \in States /\ halt.status = "interrupted" /\ halt.cancel
      /\ Fresh("completed") \in States /\ Fresh("completed").status = "completed"
      /\ ~Fresh("completed").cancel
      /\ Fresh("none") \in States /\ ~Fresh("none").cancel /\ Fresh("none").status = "none"
  BY DEF Fresh, States, Status
<1>3. st' = [b \in Agent |->
               IF RootOf(b) \in broken
               THEN IF s[b].cancel \/ s[b].status \in {"none", "completed", "failed", "interrupted"} THEN s[b]
                    ELSE halt
               ELSE IF Waited(s, b) THEN Fresh("completed") ELSE s[b]]
  BY DEF Crash, Waited
<1> HIDE DEF s, broken, halt
<1>4. \A b \in Agent :
        /\ st'[b] \in States
        /\ st'[b].status \notin {"ready", "checking", "running", "recovering"}
        /\ st'[b].status # "none" <=> b \in Created
        /\ st'[b].cancel => st'[b].status \in {"interrupted", "failed"}
        /\ st[b].status \in Over => st'[b] = st[b]
        /\ st[b].status = "running" => st'[b].status = "interrupted"
  BY <1>1, <1>2, <1>3 DEF Waited, Over
<1>5. /\ quantum' = [a \in Agent |-> "none"] /\ aborted' = {} /\ cmds' = [a \in Agent |-> 0]
      /\ failed' = {} /\ outcome' = [a \in Agent |-> "none"]
      /\ recov' = {} /\ prev' = [a \in Agent |-> Fresh("none")] /\ gaveUp' = {}
      /\ barriers' = {} /\ sched' = "off" /\ phase' = "open"
      /\ UNCHANGED <<steps, runOpen, calls>> /\ crashes' = crashes + 1
  BY DEF Crash
<1>6. Active' = {} /\ Created' = Created
  BY <1>4, <1>5 DEF Active, Created
<1>7. Types'
  <2>1. st' \in [Agent -> States]
    BY <1>3, <1>4
  <2> QED
    BY <1>2, <1>5, <2>1, Basics DEF Types, JournalOK, QuantaOK, MemoryOK, Place
<1>8. RoomInv'
  BY <1>6, FS_EmptySet, AgentAssumption DEF RoomInv
<1>9. BudgetInv'
  <2>1. Pending' = 0 /\ RunUsed' = RunUsed
    BY <1>5, TotalZero, AgentAssumption DEF Pending, RunUsed
  <2>2. \A a \in Agent : quantum'[a] = "none"
    BY <1>5
  <2> QED
    BY <1>5, <2>1, <2>2, Basics, AgentAssumption DEF BudgetInv, BudgetsHold
<1>10. PlaceInv' /\ CancelInv'
  <2>1. \A a \in Agent : quantum'[a] = "none" /\ cmds'[a] = 0 /\ prev'[a] = Fresh("none")
    BY <1>5
  <2> QED
    BY <1>2, <1>4, <1>5, <2>1 DEF PlaceInv, CancelInv, Cancelled
<1>11. FenceInv' /\ BarrierInv'
  BY <1>5, <1>6 DEF FenceInv, BarrierInv
<1>12. Whole(st')
  <2> SUFFICES ASSUME NEW a \in Created, st'[a].status = "completed", NEW b \in Scope(a)
               PROVE  st'[b].status = "completed"
    BY DEF Whole
  <2>1. a \in Agent /\ b \in Agent /\ b \in Created /\ Scope(b) \subseteq Scope(a)
        /\ RootOf(b) = RootOf(a)
    BY ScopeBelow DEF Created
  <2>2. CASE s[a].status = "completed"
    <3>1. st[b].status = "completed"
      BY <1>1, <2>1, <2>2, Basics DEF Whole
    <3> QED
      BY <1>4, <2>1, <3>1 DEF Over
  <2>3. CASE s[a].status # "completed"
    <3>1. RootOf(a) \notin broken /\ Waited(s, a)
      BY <1>2, <1>3, <2>1, <2>3
    <3>2. s[b].status = "waiting" => Waited(s, b)
      BY <2>1, <3>1 DEF Waited
    <3>3. s[b].status \in {"completed", "waiting"}
      BY <3>1 DEF Waited
    <3> QED
      BY <1>3, <2>1, <3>1, <3>2, <3>3
  <2> QED
    BY <2>2, <2>3
<1>13. CreatedInv' /\ CompletedMeansAll'
  BY <1>6, <1>12, Basics, ScopesStay
<1> QED
  BY <1>4, <1>7, <1>8, <1>9, <1>10, <1>11, <1>13 DEF IInv, OverKept

\* The invariant is inductive.
LEMMA InvNext ==
  ASSUME IInv, [Next]_vars
  PROVE  IInv'
<1>1. ASSUME NEW a \in Agent,
             Create(a) \/ Pause(a) \/ Resume(a) \/ Restore(a) \/ RecoverBegin(a) \/ RecoverEnds(a)
      PROVE  IInv'
  BY <1>1, CreateKeeps, PauseKeeps, ResumeKeeps, RestoreKeeps, RecoverBeginKeeps,
     RecoverEndsKeeps
<1>2. ASSUME NEW a \in Agent, Interrupt(a) PROVE IInv'
  BY <1>2, InterruptKeeps, FencesKeeps
<1>3. ASSUME NEW a \in Agent, Command(a) \/ Work(a) PROVE IInv'
  BY <1>3, CommandKeeps, AdvanceKeeps, ValidateKeeps, CommandEndsKeeps,
     StepReturnsKeeps,
     StepSettlesKeeps DEF Work
<1>4. CASE Schedule \/ Crash
  BY <1>4, ScheduleKeeps, CrashKeeps
<1>5. CASE ShutdownFence
  BY <1>5, ShutdownFenceKeeps, FencesKeeps
<1>6. ASSUME NEW a \in Agent, InterruptSettles(a) PROVE IInv'
  BY <1>6, Basics, QuietKeeps DEF InterruptSettles, JournalOK, MemoryOK
<1>7. CASE RunEnds
  <2>1. /\ UNCHANGED <<journal, quanta, recoveries, crashes, barriers, sched, phase>>
        /\ runOpen' = FALSE /\ calls' = calls + 1
    BY <1>7 DEF RunEnds, Call, memory
  <2>2. calls' \in Nat /\ sched \in {"off", "wake", "race", "recov"}
        /\ phase \in {"open", "stopping", "fenced", "closed"}
    BY <2>1, Basics DEF JournalOK, MemoryOK
  <2> QED
    BY <2>1, <2>2, QuietKeeps
<1>8. CASE Drain \/ DrainRejects \/ Shutdown \/ ShutdownSettles \/ Close
  BY <1>8, Basics, QuietKeeps DEF Drain, DrainRejects, Shutdown, ShutdownSettles, Close,
     JournalOK, MemoryOK
<1>9. CASE UNCHANGED vars
  BY <1>9, Basics, QuietKeeps DEF vars, memory, JournalOK, MemoryOK
<1> QED
  BY <1>1, <1>2, <1>3, <1>4, <1>5, <1>6, <1>7, <1>8, <1>9 DEF Next

-----------------------------------------------------------------------------
\* The invariant holds.

\* The inductive invariant of the scheduler.
THEOREM Invariant == Spec => []IInv
<1>1. Init => IInv
  BY InvInit
<1>2. IInv /\ [Next]_vars => IInv'
  BY InvNext
<1> QED
  BY <1>1, <1>2, PTL DEF Spec

\* advance() and executeProcess: whatever runs at the same time, neither an agent
\* nor the Run is charged more steps than it has, nor are more commands pending.
THEOREM BudgetsKept == Spec => []BudgetsHold
<1>1. IInv => BudgetsHold
  BY DEF IInv, BudgetInv
<1> QED
  BY <1>1, Invariant, PTL

\* reconcileScopes, cancelScope: the scheduler keeps to its room, what is at work in
\* a broken task has been told to stop, and a parent is completed after its children.
THEOREM TasksEndTogether == Spec => []TaskEndsTogether
<1>1. IInv => TaskEndsTogether
  <2> SUFFICES ASSUME IInv PROVE TaskEndsTogether
    OBVIOUS
  <2>1. TypeOK
    BY Basics DEF JournalOK, QuantaOK, MemoryOK, RoomInv, TypeOK, States
  <2>2. BrokenTaskIsStopped
    BY Basics DEF FenceInv, GivenUp, BrokenTaskIsStopped
  <2> QED
    BY <2>1, <2>2, Basics DEF TaskEndsTogether
<1> QED
  BY <1>1, Invariant, PTL

-----------------------------------------------------------------------------
\* What a step may never do.

Covered ==
    \A r \in Agent : (r \in barriers /\ r \notin barriers' /\ crashes' = crashes) =>
        \A a \in Scope(r) : cmds'[a] = 0
            /\ st'[a].status \notin {"ready", "checking", "running", "recovering"}
NotRetried ==
    \A a \in Agent :
        /\ st[a].status \in {"completed", "failed"} => st'[a] = st[a]
        /\ st[a].status = "interrupted" /\ st'[a].status # "interrupted" =>
              a \in recov' \/ (calls' > calls /\ st'[a].status = "paused")
        /\ crashes' > crashes /\ st[a].status = "running" =>
              st'[a].status = "interrupted"

\* Only the settling of an interruption and a restart take a barrier away.
LEMMA BarriersStay ==
  ASSUME IInv, [Next]_vars, NEW r \in Agent, r \in barriers, r \notin barriers', crashes' = crashes
  PROVE  InterruptSettles(r)
<1>1. crashes \in Nat
  BY Basics DEF JournalOK
<1>2. ~Crash
  BY <1>1 DEF Crash
<1>3. ASSUME NEW a \in Agent, Work(a) PROVE FALSE
  BY <1>3 DEF Work, Advance, Validate, CommandEnds, StepReturns, StepSettles
<1>4. ASSUME NEW a \in Agent,
             Create(a) \/ Pause(a) \/ Resume(a) \/ Restore(a) \/ RecoverBegin(a) \/ RecoverEnds(a)
               \/ Interrupt(a) \/ Command(a)
      PROVE  FALSE
  BY <1>4 DEF Create, Pause, Resume, Restore, RecoverBegin, RecoverEnds, Interrupt,
     Command, memory
<1>5. CASE RunEnds \/ Drain \/ Schedule \/ DrainRejects \/ Shutdown \/ ShutdownFence
             \/ ShutdownSettles \/ Close
  BY <1>5 DEF RunEnds, Drain, Schedule, DrainRejects, Shutdown, ShutdownFence,
     ShutdownSettles,
     Close, memory
<1>6. ~UNCHANGED vars
  BY DEF vars, memory
<1>7. PICK a \in Agent : InterruptSettles(a)
  BY <1>2, <1>3, <1>4, <1>5, <1>6 DEF Next
<1> QED
  BY <1>7 DEF InterruptSettles

\* A step that takes a barrier away leaves nothing of its task at work.
LEMMA CoveredNext ==
  ASSUME IInv, [Next]_vars
  PROVE  Covered
<1> SUFFICES ASSUME NEW r \in Agent, r \in barriers, r \notin barriers', crashes' = crashes,
                    NEW a \in Scope(r)
             PROVE  cmds'[a] = 0 /\ st'[a].status \notin {"ready", "checking", "running", "recovering"}
  BY DEF Covered
<1>1. InterruptSettles(r)
  BY BarriersStay
<1>2. UNCHANGED <<st, cmds>> /\ a \notin Active /\ a \notin recov
  BY <1>1 DEF InterruptSettles, journal, quanta
<1>3. Parent[r] = NoAgent /\ \A b \in Agent : RootOf(b) = r => st[b].status # "ready"
  BY Basics DEF BarrierInv
<1>4. a \in Agent /\ RootOf(a) = r
  BY <1>3, ScopeOfRoot DEF Created
<1>5. quantum[a] = "none"
  BY <1>2, <1>4 DEF Active
<1>6. cmds[a] = 0
  BY <1>4, <1>5, NoCommands
<1> QED
  BY <1>2, <1>3, <1>4, <1>5, <1>6, Basics DEF PlaceInv

\* Where who is over is left alone and the runtime is not restarted, nothing is retried.
LEMMA OverIsEnough ==
  ASSUME IInv, crashes' = crashes, OverKept
  PROVE  NotRetried
<1>1. crashes \in Nat
  BY Basics DEF JournalOK
<1> QED
  BY <1>1 DEF NotRetried, OverKept, Over

\* No step brings back what is over, but a restore or a recovery.
LEMMA NotRetriedNext ==
  ASSUME IInv, [Next]_vars
  PROVE  NotRetried
<1>1. ASSUME NEW a \in Agent, Create(a) \/ Pause(a) \/ Resume(a) \/ RecoverEnds(a) PROVE NotRetried
  <2>1. st[a].status \notin Over /\ \A b \in Agent \ {a} : st'[b] = st[b]
    <3>1. st[a].status \notin Over
      BY <1>1, Basics DEF Create, Pause, Resume, RecoverEnds, PlaceInv, Over
    <3>2. \E v : st' = [st EXCEPT ![a] = v]
      BY <1>1 DEF Create, Pause, Resume, RecoverEnds
    <3> QED
      BY <3>1, <3>2
  <2>2. OverKept /\ crashes' = crashes
    BY <1>1, <2>1 DEF OverKept, Create, Pause, Resume, RecoverEnds
  <2> QED
    BY <2>2, OverIsEnough
<1>2. ASSUME NEW a \in Agent, Restore(a) \/ RecoverBegin(a) PROVE NotRetried
  <2>1. /\ calls' > calls /\ crashes' = crashes /\ crashes \in Nat
        /\ st[a].status \in {"paused", "interrupted"}
    <3>1. calls' = calls + 1 /\ crashes' = crashes /\ st[a].status \in {"paused", "interrupted"}
      BY <1>2 DEF Restore, RecoverBegin, Call
    <3>2. calls \in Nat /\ crashes \in Nat
      BY Basics DEF JournalOK
    <3> QED
      BY <3>1, <3>2
  <2>2. \A b \in Agent \ {a} : st'[b] = st[b]
    BY <1>2, Basics DEF Restore, RecoverBegin, JournalOK
  <2>3. st'[a].status = "paused" \/ a \in recov'
    <3>1. CASE Restore(a)
      <4>1. st'[a] = Fresh("paused")
        BY <3>1, Basics DEF Restore, JournalOK
      <4> QED
        BY <4>1 DEF Fresh
    <3>2. CASE RecoverBegin(a)
      BY <3>2 DEF RecoverBegin
    <3> QED
      BY <1>2, <3>1, <3>2
  <2> QED
    BY <2>1, <2>2, <2>3 DEF NotRetried
<1>3. ASSUME NEW a \in Agent, Interrupt(a) PROVE NotRetried
  <2>1. crashes' = crashes
    BY <1>3 DEF Interrupt
  <2> QED
    BY <1>3, <2>1, InterruptKeeps, FencesKeeps, OverIsEnough
<1>4. ASSUME NEW a \in Agent, Advance(a) \/ Validate(a) \/ StepSettles(a) PROVE NotRetried
  <2>1. crashes' = crashes
    BY <1>4 DEF Advance, Validate, StepSettles
  <2> QED
    BY <1>4, <2>1, AdvanceKeeps, ValidateKeeps, StepSettlesKeeps, OverIsEnough
<1>5. CASE Schedule \/ ShutdownFence
  <2>1. crashes' = crashes
    BY <1>5 DEF Schedule, ShutdownFence
  <2> QED
    BY <1>5, <2>1, ScheduleKeeps, ShutdownFenceKeeps, FencesKeeps, OverIsEnough
<1>6. CASE Crash
  BY <1>6, CrashKeeps DEF NotRetried, OverKept, Over
<1>7. ASSUME NEW a \in Agent,
             InterruptSettles(a) \/ Command(a) \/ CommandEnds(a) \/ StepReturns(a)
      PROVE  NotRetried
  <2>1. crashes' = crashes /\ st' = st
    BY <1>7 DEF InterruptSettles, Command, CommandEnds, StepReturns, journal
  <2> QED
    BY <2>1, OverIsEnough DEF OverKept
<1>8. CASE RunEnds \/ Drain \/ DrainRejects \/ Shutdown \/ ShutdownSettles \/ Close \/ UNCHANGED vars
  <2>1. crashes' = crashes /\ st' = st
    BY <1>8 DEF RunEnds, Drain, DrainRejects, Shutdown, ShutdownSettles, Close, vars,
       journal
  <2> QED
    BY <2>1, OverIsEnough DEF OverKept
<1> QED
  BY <1>1, <1>2, <1>3, <1>4, <1>5, <1>6, <1>7, <1>8 DEF Next, Work

\* interrupt(), restoreCheckpoint and the constructor: an interruption ends only when
\* nothing of its task runs or can begin, and a step that was charged and cut off
\* comes back only through a restore or a recovery.
THEOREM InterruptionFenced == Spec => InterruptionIsFenced
<1>1. IInv /\ [Next]_vars => [Covered]_vars /\ [NotRetried]_vars
  BY CoveredNext, NotRetriedNext
<1>2. Spec => [][Covered]_vars /\ [][NotRetried]_vars
  BY <1>1, Invariant, PTL DEF Spec
<1> QED
  BY <1>2 DEF InterruptionIsFenced, BarrierCoversWork, NoSilentRetry, Covered,
     NotRetried
====
