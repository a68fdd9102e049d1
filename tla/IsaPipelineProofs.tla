------------------------- MODULE IsaPipelineProofs -------------------------
(***************************************************************************)
(* Proofs about IsaPipeline, for any programs, submissions and concurrency: *)
(* the coordinator excludes and leaks nothing, an operation takes effect    *)
(* once and after what it depends on, success is durable, and admission     *)
(* and binding are those of the moment an operation begins.                 *)
(***************************************************************************)
EXTENDS IsaPipeline, SequenceTheorems, WellFoundedInduction, TLAPS

Exec == Sub \X Id
Inside == {"checking", "probing", "executing", "effected"}
Held == Inside \cup {"queued"}
Owning == Held \cup {"acquiring"}
Places == Owning \cup {"pending", "joined", "done", "lost"}
Outcomes == {"succeeded", "failed", "partial", "cancelled", "indeterminate", "rolled_back"}
Results == Outcomes \cup {None}
Good == {"succeeded", "rolled_back"}
Durable == {"succeeded", "restored"}
Rows == {"none", "open", "succeeded", "failed", "restored", "indeterminate"}
Phases == {"idle", "running", "lost", "rejected", "succeeded", "failed", "partial", "indeterminate"}
Injective(q) == \A m, n \in 1..Len(q) : q[m] = q[n] => m = n
InQueue(e, q) == \E n \in 1..Len(q) : q[n] = e

\* Types of the journal, of the host and of the memory.
DurableTypes ==
    /\ kernel \in BOOLEAN /\ DOMAIN bound = OpId
    /\ row \in [OpId -> Rows] /\ effects \in [OpId -> Nat] /\ begunBy \in [OpId -> Exec \cup {None}]
HostTypes == root \in Root /\ capOK \in BOOLEAN /\ barred \subseteq OpId
MemoryTypes ==
    /\ phase \in [Sub -> Phases] /\ dig \in [Sub -> [Id -> Root \cup {None}]]
    /\ commitTail \in Seq(Exec) /\ aborted \subseteq Sub /\ wake \subseteq Sub

\* What a turn of the loop may change: places, results, joins, locks, flights.
PlacesInv(a) ==
    /\ a \in [Sub -> [Id -> Places]]
    /\ \A s \in Sub, i \in Id : a[s][i] \in Owning \cup {"joined"} =>
          i \in Ids(s) /\ phase[s] = "running"
ResultsInv(a, r) ==
    /\ r \in [Sub -> [Id -> Results]]
    /\ \A s \in Sub, i \in Id : a[s][i] = "done" => r[s][i] \in Outcomes
    /\ \A s \in Sub, i \in Id : kernel /\ i \in Ids(s) /\ r[s][i] \in Good /\ Ins(s, i).opId # None =>
          row[Ins(s, i).opId] \in {"succeeded", "restored"}
JoinsInv(a, j) ==
    /\ j \in [Sub -> [Id -> Exec \cup {None}]]
    /\ \A s \in Sub, i \in Id : a[s][i] = "joined" =>
          /\ j[s][i] \in Exec /\ j[s][i][2] \in Ids(j[s][i][1])
          /\ Ins(j[s][i][1], j[s][i][2]) = Ins(s, i)
LocksInv(a, w, h) ==
    /\ w \in Seq(Exec) /\ h \subseteq Exec
    /\ Injective(w)
    /\ \A n \in 1..Len(w) : a[w[n][1]][w[n][2]] = "acquiring" /\ w[n] \notin h
    /\ \A e \in h : a[e[1]][e[2]] \in Owning
    /\ \A s \in Sub, i \in Id : a[s][i] \in Held => <<s, i>> \in h
    /\ \A e, f \in h : e # f => ResourcesOf(e) \cap ResourcesOf(f) = {}
FlightsInv(a, f) ==
    /\ f \subseteq Exec
    /\ \A e \in f : a[e[1]][e[2]] \in Owning
    /\ \A d, e \in f : KeyOf(d[1], d[2]) = KeyOf(e[1], e[2]) => d = e
StartedInv(a) ==
    \A s \in Sub, i \in Id : kernel /\ a[s][i] \in Owning \cup {"joined"} => Ready(s, i)

\* The commit queue holds the writers, and who is past it is its head.
CommitInv(a, c) ==
    /\ Injective(c)
    /\ \A n \in 1..Len(c) : a[c[n][1]][c[n][2]] \in Held
    /\ \A s \in Sub, i \in Id : a[s][i] \in Held /\ Commits(Ins(s, i).op) => InQueue(<<s, i>>, c)
    /\ \A s \in Sub, i \in Id : a[s][i] \in Inside /\ Commits(Ins(s, i).op) => c[1] = <<s, i>>
    /\ \A n \in 1..Len(c) : Commits(Ins(c[n][1], c[n][2]).op)

\* An operation belongs to the execution that began it.
OperationsInv(a) ==
    /\ \A s \in Sub, i \in Id : a[s][i] \in {"probing", "effected"} => kernel
    /\ \A s \in Sub, i \in Id : kernel /\ a[s][i] \in Inside =>
          /\ a[s][i] # "checking" /\ Ins(s, i).opId \in OpId
          /\ a[s][i] \in {"executing", "effected"} =>
                row[Ins(s, i).opId] = "open" /\ begunBy[Ins(s, i).opId] = <<s, i>>
    /\ \A o \in OpId : row[o] # "none" => 
          /\ begunBy[o] \in Exec /\ begunBy[o][2] \in Ids(begunBy[o][1])
          /\ a[begunBy[o][1]][begunBy[o][2]] \in {"executing", "effected", "done", "lost"}
EffectsInv(a) ==
    /\ EffectOnce
    /\ \A o \in OpId : row[o] = "none" => effects[o] = 0
    /\ \A s \in Sub, i \in Id : kernel /\ a[s][i] = "executing" => effects[Ins(s, i).opId] = 0

\* The binding was there when the executor was called, with the same root.
BoundInv(a) ==
    /\ \A o \in OpId : row[o] # "none" => bound[o] # None
    /\ RunsOnBoundRoot
    /\ \A s \in Sub, i \in Id : a[s][i] = "probing" =>
          bound[Ins(s, i).opId] # None /\ dig[s][i] = bound[Ins(s, i).opId][3]
BarredInv(a) ==
    \A o \in barred :
        /\ ~capOK /\ row[o] = "none"
        /\ \A s \in Sub, i \in Id : a[s][i] = "probing" => Ins(s, i).opId # o

AwakeInv == \A s \in wake : phase[s] = "running"

\* The inductive invariant.
Types == DurableTypes /\ HostTypes /\ MemoryTypes
TurnInv(a, r, j, w, h, f) ==
    PlacesInv(a) /\ ResultsInv(a, r) /\ JoinsInv(a, j) /\ LocksInv(a, w, h) /\ FlightsInv(a, f) /\ StartedInv(a)
KernelInv(a) == OperationsInv(a) /\ EffectsInv(a) /\ BoundInv(a) /\ BarredInv(a)
IInv ==
    /\ Types /\ AwakeInv /\ DurableOrder /\ SuccessIsComplete
    /\ TurnInv(at, res, joinedTo, waiters, holders, inFlight)
    /\ CommitInv(at, commitTail) /\ KernelInv(at)

-----------------------------------------------------------------------------
(* Folds *)

\* What a turn begins with.
Now == [at |-> at, res |-> res, joinedTo |-> joinedTo, waiters |-> waiters,
        holders |-> holders, inFlight |-> inFlight]
Before(s) == IF s \in aborted THEN CancelPending(Now, s) ELSE Now

\* Every set of natural numbers that is not empty has a least element.
LEMMA LeastNat ==
  ASSUME NEW T \in SUBSET Nat, T # {}
  PROVE  \E n \in T : \A m \in T : n <= m
<1>1. PICK n \in T : \A m \in T : <<m, n>> \notin OpToRel(<, Nat)
  BY NatLessThanWellFounded, WFMin
<1>2. \A m \in T : ~(m < n)
  BY <1>1 DEF OpToRel
<1> QED
  BY <1>2

\* Induction up to L.
LEMMA UpTo ==
  ASSUME NEW L \in Nat, NEW T, 0 \in T, \A n \in 1..L : n - 1 \in T => n \in T
  PROVE  \A n \in 0..L : n \in T
<1> DEFINE Bad == {n \in 0..L : n \notin T}
<1> SUFFICES ASSUME Bad # {} PROVE FALSE
  OBVIOUS
<1>1. Bad \in SUBSET Nat
  OBVIOUS
<1>2. PICK n \in Bad : \A m \in Bad : n <= m
  BY <1>1, LeastNat
<1>3. n \in 1..L /\ n - 1 \in 0..L /\ ~(n <= n - 1)
  OBVIOUS
<1> QED
  BY <1>2, <1>3

\* drainWaiters goes through the waiters one after the other.
LEMMA DrainIs ==
  ASSUME NEW ws, NEW hs, Len(ws) \in Nat
  PROVE  \E f : /\ f[0] = [waiters |-> <<>>, holders |-> hs]
                /\ \A n \in 1..Len(ws) : f[n] = serve(f[n - 1], ws[n])
                /\ drainWaiters(ws, hs) = f[Len(ws)]
<1> DEFINE L == Len(ws)
           a == [waiters |-> <<>>, holders |-> hs]
           Upto(k, f) == /\ f = [n \in 0..k |-> f[n]]
                         /\ f[0] = a
                         /\ \A n \in 1..k : f[n] = serve(f[n - 1], ws[n])
           T == {k \in 0..L : \E f : Upto(k, f)}
           F(f) == [n \in 0..L |-> IF n = 0 THEN a
                                   ELSE CHOOSE r \in {serve(x, ws[n]) : x \in {f[n - 1]}} : TRUE]
           c == CHOOSE f : f = F(f)
<1>0. L \in Nat
  OBVIOUS
<1> HIDE DEF a, L
<1>1. 0 \in T
  <2>1. Upto(0, [n \in 0..0 |-> a])
    OBVIOUS
  <2> HIDE DEF Upto
  <2> QED
    BY <1>0, <2>1
<1>2. ASSUME NEW k \in 1..L, k - 1 \in T PROVE k \in T
  <2>1. PICK f : Upto(k - 1, f)
    BY <1>2
  <2> DEFINE g == [n \in 0..k |-> IF n = k THEN serve(f[k - 1], ws[k]) ELSE f[n]]
  <2>2. /\ \A n \in 0..(k - 1) : g[n] = f[n]
        /\ g[k] = serve(f[k - 1], ws[k])
    BY <1>0
  <2>3. \A n \in 1..k : g[n] = serve(g[n - 1], ws[n])
    <3> HIDE DEF g
    <3> TAKE n \in 1..k
    <3>1. CASE n = k
      BY <1>0, <2>2, <3>1
    <3>2. CASE n # k
      <4>1. n \in 1..(k - 1) /\ n \in 0..(k - 1) /\ n - 1 \in 0..(k - 1)
        BY <1>0, <3>2
      <4>2. f[n] = serve(f[n - 1], ws[n])
        BY <2>1, <4>1
      <4>3. g[n] = f[n] /\ g[n - 1] = f[n - 1]
        BY <2>2, <4>1
      <4> QED
        BY <4>2, <4>3
    <3> QED
      BY <3>1, <3>2
  <2>4. g[0] = a /\ g = [n \in 0..k |-> g[n]]
    BY <1>0, <2>1, <2>2
  <2>5. Upto(k, g)
    <3> HIDE DEF g
    <3> QED
      BY <2>3, <2>4
  <2> HIDE DEF Upto
  <2> QED
    BY <2>5
<1>3. L \in T
  <2>1. \A n \in 1..L : n - 1 \in T => n \in T
    BY <1>2
  <2> HIDE DEF T
  <2> QED
    BY <1>0, <1>1, <2>1, UpTo
<1>4. PICK f : Upto(L, f)
  BY <1>3
<1>5. f = F(f)
  <2>1. \A n \in 1..L : F(f)[n] = serve(f[n - 1], ws[n])
    BY <1>0
  <2>2. F(f)[0] = a
    BY <1>0
  <2>3. f[0] = a /\ \A n \in 1..L : f[n] = serve(f[n - 1], ws[n])
    BY <1>4
  <2>4. \A n \in 0..L : F(f)[n] = f[n]
    <3> HIDE DEF F, Upto
    <3> QED
      BY <1>0, <2>1, <2>2, <2>3
  <2>5. f = [n \in 0..L |-> f[n]]
    BY <1>4
  <2>6. F(f) = [n \in 0..L |-> F(f)[n]]
    OBVIOUS
  <2> HIDE DEF F, Upto
  <2> QED
    BY <2>4, <2>5, <2>6
<1>6. c = F(c)
  <2> HIDE DEF F
  <2> QED
    BY <1>5
<1>7. /\ c[0] = a
      /\ \A n \in 1..L : c[n] = serve(c[n - 1], ws[n])
  <2> HIDE DEF c
  <2>1. F(c)[0] = a /\ \A n \in 1..L : F(c)[n] = serve(c[n - 1], ws[n])
    BY <1>0
  <2> HIDE DEF F
  <2> QED
    BY <1>6, <2>1
<1>8. drainWaiters(ws, hs) = c[L]
  BY DEF drainWaiters, Once, a, L
<1> QED
  BY <1>7, <1>8 DEF a, L

\* AdmitAll admits the instructions one after the other.
LEMMA AdmitIs ==
  ASSUME NEW s, Len(Prog(s)) \in Nat
  PROVE  \E f : /\ f[0] = [ok |-> TRUE, bound |-> bound]
                /\ \A n \in 1..Len(Prog(s)) : f[n] = AdmitOne(f[n - 1], s, Prog(s)[n].id)
                /\ AdmitAll(s) = f[Len(Prog(s))]
<1> DEFINE L == Len(Prog(s))
           a == [ok |-> TRUE, bound |-> bound]
           Upto(k, f) == /\ f = [n \in 0..k |-> f[n]]
                         /\ f[0] = a
                         /\ \A n \in 1..k : f[n] = AdmitOne(f[n - 1], s, Prog(s)[n].id)
           T == {k \in 0..L : \E f : Upto(k, f)}
           F(f) == [n \in 0..L |-> IF n = 0 THEN a
                                   ELSE CHOOSE r \in {AdmitOne(x, s, Prog(s)[n].id) : x \in {f[n - 1]}} : TRUE]
           c == CHOOSE f : f = F(f)
<1>0. L \in Nat
  OBVIOUS
<1> HIDE DEF a, L
<1>1. 0 \in T
  <2>1. Upto(0, [n \in 0..0 |-> a])
    OBVIOUS
  <2> HIDE DEF Upto
  <2> QED
    BY <1>0, <2>1
<1>2. ASSUME NEW k \in 1..L, k - 1 \in T PROVE k \in T
  <2>1. PICK f : Upto(k - 1, f)
    BY <1>2
  <2> DEFINE g == [n \in 0..k |-> IF n = k THEN AdmitOne(f[k - 1], s, Prog(s)[k].id) ELSE f[n]]
  <2>2. /\ \A n \in 0..(k - 1) : g[n] = f[n]
        /\ g[k] = AdmitOne(f[k - 1], s, Prog(s)[k].id)
    BY <1>0
  <2>3. \A n \in 1..k : g[n] = AdmitOne(g[n - 1], s, Prog(s)[n].id)
    <3> HIDE DEF g
    <3> TAKE n \in 1..k
    <3>1. CASE n = k
      BY <1>0, <2>2, <3>1
    <3>2. CASE n # k
      <4>1. n \in 1..(k - 1) /\ n \in 0..(k - 1) /\ n - 1 \in 0..(k - 1)
        BY <1>0, <3>2
      <4>2. f[n] = AdmitOne(f[n - 1], s, Prog(s)[n].id)
        BY <2>1, <4>1
      <4>3. g[n] = f[n] /\ g[n - 1] = f[n - 1]
        BY <2>2, <4>1
      <4> QED
        BY <4>2, <4>3
    <3> QED
      BY <3>1, <3>2
  <2>4. g[0] = a /\ g = [n \in 0..k |-> g[n]]
    BY <1>0, <2>1, <2>2
  <2>5. Upto(k, g)
    <3> HIDE DEF g
    <3> QED
      BY <2>3, <2>4
  <2> HIDE DEF Upto
  <2> QED
    BY <2>5
<1>3. L \in T
  <2>1. \A n \in 1..L : n - 1 \in T => n \in T
    BY <1>2
  <2> HIDE DEF T
  <2> QED
    BY <1>0, <1>1, <2>1, UpTo
<1>4. PICK f : Upto(L, f)
  BY <1>3
<1>5. f = F(f)
  <2>1. \A n \in 1..L : F(f)[n] = AdmitOne(f[n - 1], s, Prog(s)[n].id)
    BY <1>0
  <2>2. F(f)[0] = a
    BY <1>0
  <2>3. f[0] = a /\ \A n \in 1..L : f[n] = AdmitOne(f[n - 1], s, Prog(s)[n].id)
    BY <1>4
  <2>4. \A n \in 0..L : F(f)[n] = f[n]
    <3> HIDE DEF F, Upto
    <3> QED
      BY <1>0, <2>1, <2>2, <2>3
  <2>5. f = [n \in 0..L |-> f[n]]
    BY <1>4
  <2>6. F(f) = [n \in 0..L |-> F(f)[n]]
    OBVIOUS
  <2> HIDE DEF F, Upto
  <2> QED
    BY <2>4, <2>5, <2>6
<1>6. c = F(c)
  <2> HIDE DEF F
  <2> QED
    BY <1>5
<1>7. /\ c[0] = a
      /\ \A n \in 1..L : c[n] = AdmitOne(c[n - 1], s, Prog(s)[n].id)
  <2> HIDE DEF c
  <2>1. F(c)[0] = a /\ \A n \in 1..L : F(c)[n] = AdmitOne(c[n - 1], s, Prog(s)[n].id)
    BY <1>0
  <2> HIDE DEF F
  <2> QED
    BY <1>6, <2>1
<1>8. AdmitAll(s) = c[L]
  BY DEF AdmitAll, Once, a, L
<1> QED
  BY <1>7, <1>8 DEF a, L

\* A turn launches the instructions one after the other.
LEMMA TurnIs ==
  ASSUME NEW s, Len(Prog(s)) \in Nat
  PROVE  \E f : /\ f[0] = Before(s)
                /\ \A n \in 1..Len(Prog(s)) : f[n] = Launch(f[n - 1], s, Prog(s)[n].id)
                /\ AfterTurn(s) = f[Len(Prog(s))]
<1> DEFINE L == Len(Prog(s))
           a == Before(s)
           Upto(k, f) == /\ f = [n \in 0..k |-> f[n]]
                         /\ f[0] = a
                         /\ \A n \in 1..k : f[n] = Launch(f[n - 1], s, Prog(s)[n].id)
           T == {k \in 0..L : \E f : Upto(k, f)}
           F(f) == [n \in 0..L |-> IF n = 0 THEN a
                                   ELSE CHOOSE r \in {Launch(x, s, Prog(s)[n].id) : x \in {f[n - 1]}} : TRUE]
           c == CHOOSE f : f = F(f)
<1>0. L \in Nat
  OBVIOUS
<1> HIDE DEF a, L
<1>1. 0 \in T
  <2>1. Upto(0, [n \in 0..0 |-> a])
    OBVIOUS
  <2> HIDE DEF Upto
  <2> QED
    BY <1>0, <2>1
<1>2. ASSUME NEW k \in 1..L, k - 1 \in T PROVE k \in T
  <2>1. PICK f : Upto(k - 1, f)
    BY <1>2
  <2> DEFINE g == [n \in 0..k |-> IF n = k THEN Launch(f[k - 1], s, Prog(s)[k].id) ELSE f[n]]
  <2>2. /\ \A n \in 0..(k - 1) : g[n] = f[n]
        /\ g[k] = Launch(f[k - 1], s, Prog(s)[k].id)
    BY <1>0
  <2>3. \A n \in 1..k : g[n] = Launch(g[n - 1], s, Prog(s)[n].id)
    <3> HIDE DEF g
    <3> TAKE n \in 1..k
    <3>1. CASE n = k
      BY <1>0, <2>2, <3>1
    <3>2. CASE n # k
      <4>1. n \in 1..(k - 1) /\ n \in 0..(k - 1) /\ n - 1 \in 0..(k - 1)
        BY <1>0, <3>2
      <4>2. f[n] = Launch(f[n - 1], s, Prog(s)[n].id)
        BY <2>1, <4>1
      <4>3. g[n] = f[n] /\ g[n - 1] = f[n - 1]
        BY <2>2, <4>1
      <4> QED
        BY <4>2, <4>3
    <3> QED
      BY <3>1, <3>2
  <2>4. g[0] = a /\ g = [n \in 0..k |-> g[n]]
    BY <1>0, <2>1, <2>2
  <2>5. Upto(k, g)
    <3> HIDE DEF g
    <3> QED
      BY <2>3, <2>4
  <2> HIDE DEF Upto
  <2> QED
    BY <2>5
<1>3. L \in T
  <2>1. \A n \in 1..L : n - 1 \in T => n \in T
    BY <1>2
  <2> HIDE DEF T
  <2> QED
    BY <1>0, <1>1, <2>1, UpTo
<1>4. PICK f : Upto(L, f)
  BY <1>3
<1>5. f = F(f)
  <2>1. \A n \in 1..L : F(f)[n] = Launch(f[n - 1], s, Prog(s)[n].id)
    BY <1>0
  <2>2. F(f)[0] = a
    BY <1>0
  <2>3. f[0] = a /\ \A n \in 1..L : f[n] = Launch(f[n - 1], s, Prog(s)[n].id)
    BY <1>4
  <2>4. \A n \in 0..L : F(f)[n] = f[n]
    <3> HIDE DEF F, Upto
    <3> QED
      BY <1>0, <2>1, <2>2, <2>3
  <2>5. f = [n \in 0..L |-> f[n]]
    BY <1>4
  <2>6. F(f) = [n \in 0..L |-> F(f)[n]]
    OBVIOUS
  <2> HIDE DEF F, Upto
  <2> QED
    BY <2>4, <2>5, <2>6
<1>6. c = F(c)
  <2> HIDE DEF F
  <2> QED
    BY <1>5
<1>7. /\ c[0] = a
      /\ \A n \in 1..L : c[n] = Launch(c[n - 1], s, Prog(s)[n].id)
  <2> HIDE DEF c
  <2>1. F(c)[0] = a /\ \A n \in 1..L : F(c)[n] = Launch(c[n - 1], s, Prog(s)[n].id)
    BY <1>0
  <2> HIDE DEF F
  <2> QED
    BY <1>6, <2>1
<1>8. AfterTurn(s) = c[L]
  BY DEF AfterTurn, Before, Now, Once, a, L
<1> QED
  BY <1>7, <1>8 DEF a, L

-----------------------------------------------------------------------------
(* Programs and the coordinator *)

\* The tables of a program.
LEMMA Tables ==
  ASSUME NEW s \in Sub, kernel \in BOOLEAN
  PROVE  /\ Len(Prog(s)) \in Nat
         /\ \A n \in 1..Len(Prog(s)) : Prog(s)[n].id \in Ids(s)
         /\ Ids(s) \subseteq Id
         /\ \A i \in Ids(s) : /\ Ins(s, i).opId \in OpId \cup {None}
                              /\ Ins(s, i).deps \subseteq Ids(s)
                              /\ \A r \in Root : <<Ins(s, i).program, Ins(s, i).input, r>> # None
<1> DEFINE p == Program[kernel][s]
<1>1. /\ p \in Seq(Range(p))
      /\ \A x \in Range(p) : /\ x.id \in Id /\ x.opId \in OpId \cup {None}
                             /\ x.deps \subseteq { y.id : y \in Range(p) }
                             /\ \A r \in Root : <<x.program, x.input, r>> # None
  BY ProgramAssumption
<1>2. Ids(s) = { x.id : x \in Range(p) }
  BY DEF Ids, IdTable
<1>3. \A i \in Ids(s) : Ins(s, i) = CHOOSE x \in Range(p) : x.id = i
  BY DEF Ids, Ins, InsTable, IdTable
<1>4. \A i \in Ids(s) : Ins(s, i) \in Range(p)
  BY <1>2, <1>3
<1>5. Len(p) \in Nat /\ \A n \in 1..Len(p) : p[n] \in Range(p)
  BY <1>1
<1>6. Prog(s) = p
  BY DEF Prog
<1> HIDE DEF p
<1> QED
  BY <1>1, <1>2, <1>4, <1>5, <1>6

\* Holders claim nothing in common.
Disjoint(h) == \A e, f \in h : e # f => ResourcesOf(e) \cap ResourcesOf(f) = {}

\* A waiter is served once, when nothing it needs is held, or kept.
LEMMA DrainFacts ==
  ASSUME NEW ws \in Seq(Exec), NEW hs \in SUBSET Exec,
         Injective(ws), \A n \in 1..Len(ws) : ws[n] \notin hs, Disjoint(hs)
  PROVE  LET d == drainWaiters(ws, hs) IN
         /\ d.waiters \in Seq(Exec) /\ Injective(d.waiters)
         /\ d.holders \subseteq Exec /\ hs \subseteq d.holders /\ Disjoint(d.holders)
         /\ \A e \in d.holders : e \in hs \/ InQueue(e, ws)
         /\ \A n \in 1..Len(d.waiters) : InQueue(d.waiters[n], ws) /\ d.waiters[n] \notin d.holders
<1>0. Len(ws) \in Nat
  OBVIOUS
<1>1. PICK f : /\ f[0] = [waiters |-> <<>>, holders |-> hs]
               /\ \A n \in 1..Len(ws) : f[n] = serve(f[n - 1], ws[n])
               /\ drainWaiters(ws, hs) = f[Len(ws)]
  BY <1>0, DrainIs, Zenon
<1> DEFINE OK(k, w, h) ==
             /\ w \in Seq(Exec) /\ Injective(w)
             /\ h \subseteq Exec /\ hs \subseteq h /\ Disjoint(h)
             /\ \A e \in h : e \in hs \/ \E n \in 1..k : e = ws[n]
             /\ \A m \in 1..Len(w) : (\E n \in 1..k : w[m] = ws[n]) /\ w[m] \notin h
           T == {k \in 0..Len(ws) : OK(k, f[k].waiters, f[k].holders)}
<1>2. 0 \in T
  <2>1. f[0].waiters = <<>> /\ f[0].holders = hs
    BY <1>1
  <2>2. OK(0, <<>>, hs)
    BY DEF Injective
  <2> HIDE DEF OK
  <2> QED
    BY <1>0, <2>1, <2>2
<1>3. ASSUME NEW k \in 1..Len(ws), k - 1 \in T PROVE k \in T
  <2> DEFINE w == f[k - 1].waiters
             h == f[k - 1].holders
             e == ws[k]
  <2>1. OK(k - 1, w, h)
    BY <1>3
  <2>2. /\ Free(e, h) => f[k].waiters = w /\ f[k].holders = h \cup {e}
        /\ ~Free(e, h) => f[k].waiters = Append(w, e) /\ f[k].holders = h
    <3>1. f[k] = serve(f[k - 1], e)
      BY <1>1
    <3> QED
      BY <3>1 DEF serve
  <2>3. e \in Exec /\ e \notin h /\ \A m \in 1..Len(w) : w[m] # e
    <3>1. e \in Exec /\ e \notin hs /\ \A n \in 1..(k - 1) : ws[n] # e
      BY DEF Injective
    <3> HIDE DEF e, w, h
    <3> QED
      BY <2>1, <3>1
  <2> HIDE DEF e, w, h
  <2>6. k \in 0..Len(ws)
    BY <1>0
  <2>4. CASE Free(e, h)
    <3>1. Disjoint(h \cup {e})
      BY <2>1, <2>4 DEF Disjoint, Free
    <3>2. \A d \in h \cup {e} : d \in hs \/ \E n \in 1..k : d = ws[n]
      BY <2>1 DEF e
    <3>3. \A m \in 1..Len(w) : (\E n \in 1..k : w[m] = ws[n]) /\ w[m] \notin h \cup {e}
      BY <2>1, <2>3
    <3>4. OK(k, w, h \cup {e})
      BY <2>1, <2>3, <3>1, <3>2, <3>3
    <3>5. f[k].waiters = w /\ f[k].holders = h \cup {e}
      BY <2>2, <2>4
    <3> QED
      BY <2>6, <3>4, <3>5, Zenon
  <2>5. CASE ~Free(e, h)
    <3> DEFINE v == Append(w, e)
    <3>1. /\ v \in Seq(Exec) /\ Len(v) = Len(w) + 1 /\ Len(w) \in Nat
          /\ \A m \in 1..Len(w) : v[m] = w[m]
          /\ v[Len(w) + 1] = e
      BY <2>1, <2>3
    <3> HIDE DEF v
    <3>2. Injective(v)
      <4> SUFFICES ASSUME NEW m \in 1..Len(v), NEW n \in 1..Len(v), v[m] = v[n]
                   PROVE  m = n
        BY DEF Injective
      <4>1. CASE m \in 1..Len(w) /\ n \in 1..Len(w)
        BY <2>1, <3>1, <4>1 DEF Injective
      <4>2. CASE m = Len(w) + 1 \/ n = Len(w) + 1
        BY <2>3, <3>1, <4>2
      <4> QED
        BY <3>1, <4>1, <4>2
    <3>3. \A m \in 1..Len(v) : (\E n \in 1..k : v[m] = ws[n]) /\ v[m] \notin h
      <4> TAKE m \in 1..Len(v)
      <4>1. CASE m = Len(w) + 1
        BY <2>3, <3>1, <4>1 DEF e
      <4>2. CASE m # Len(w) + 1
        BY <2>1, <3>1, <4>2
      <4> QED
        BY <4>1, <4>2
    <3>4. \A d \in h : d \in hs \/ \E n \in 1..k : d = ws[n]
      BY <2>1
    <3>5. OK(k, v, h)
      BY <2>1, <3>1, <3>2, <3>3, <3>4
    <3>6. f[k].waiters = v /\ f[k].holders = h
      BY <2>2, <2>5 DEF v
    <3> QED
      BY <2>6, <3>5, <3>6, Zenon
  <2> QED
    BY <2>4, <2>5
<1>4. OK(Len(ws), f[Len(ws)].waiters, f[Len(ws)].holders)
  <2>1. \A n \in 1..Len(ws) : n - 1 \in T => n \in T
    BY <1>3
  <2>2. Len(ws) \in Nat
    OBVIOUS
  <2>3. Len(ws) \in T
    <3> HIDE DEF T
    <3> QED
      BY <1>2, <2>1, <2>2, UpTo
  <2> QED
    BY <2>3
<1> QED
  BY <1>1, <1>4 DEF InQueue

\* Admission binds what had no binding and changes none that was made.
LEMMA AdmitFacts ==
  ASSUME NEW s \in Sub, kernel \in BOOLEAN, DOMAIN bound = OpId, root \in Root
  PROVE  /\ DOMAIN AdmitAll(s).bound = OpId
         /\ \A o \in OpId : bound[o] # None => AdmitAll(s).bound[o] = bound[o]
<1> DEFINE p == Prog(s)
<1>0. Len(p) \in Nat /\ \A n \in 1..Len(p) : p[n].id \in Ids(s)
  BY Tables
<1>1. PICK f : /\ f[0] = [ok |-> TRUE, bound |-> bound]
               /\ \A n \in 1..Len(p) : f[n] = AdmitOne(f[n - 1], s, p[n].id)
               /\ AdmitAll(s) = f[Len(p)]
  BY <1>0, AdmitIs
<1> HIDE DEF p
<1> DEFINE OK(b) == DOMAIN b = OpId /\ \A o \in OpId : bound[o] # None => b[o] = bound[o]
           T == {k \in 0..Len(p) : OK(f[k].bound)}
<1>2. 0 \in T
  BY <1>0, <1>1
<1>3. ASSUME NEW k \in 1..Len(p), k - 1 \in T PROVE k \in T
  <2> DEFINE b == f[k - 1].bound
             i == p[k].id
             o == Ins(s, i).opId
  <2>1. OK(b)
    BY <1>3
  <2>2. \/ f[k].bound = b
        \/ Bindable(b, s, i) /\ f[k].bound = Bound(b, s, i)
    <3>1. f[k] = AdmitOne(f[k - 1], s, i)
      BY <1>1
    <3> QED
      BY <3>1 DEF AdmitOne
  <2>3. i \in Ids(s) /\ o \in OpId \cup {None}
    BY <1>0, Tables
  <2> HIDE DEF b, i
  <2>4. ASSUME Bindable(b, s, i), f[k].bound = Bound(b, s, i), o # None PROVE OK(f[k].bound)
    BY <2>1, <2>3, <2>4 DEF Bindable, Bound
  <2>5. f[k].bound = b \/ o # None
    BY <2>2 DEF Bound
  <2>6. OK(f[k].bound)
    BY <2>1, <2>2, <2>4, <2>5
  <2> QED
    BY <2>6
<1>4. Len(p) \in T
  <2>1. \A n \in 1..Len(p) : n - 1 \in T => n \in T
    BY <1>3
  <2>2. Len(p) \in Nat
    BY <1>0
  <2> HIDE DEF T
  <2>3. \A n \in 0..Len(p) : n \in T
    BY <1>2, <2>1, <2>2, UpTo
  <2> QED
    BY <2>2, <2>3
<1> QED
  BY <1>1, <1>4

-----------------------------------------------------------------------------
(* One turn of the loop *)

TurnState ==
    [at : [Sub -> [Id -> Places]], res : [Sub -> [Id -> Results]],
     joinedTo : [Sub -> [Id -> Exec \cup {None}]],
     waiters : Seq(Exec), holders : SUBSET Exec, inFlight : SUBSET Exec]

\* f with the place of one instruction, and nothing else, replaced.
Moved(a, b, s, i, p) ==
    \A t \in Sub, j \in Id : b[t][j] = IF t = s /\ j = i THEN p ELSE a[t][j]

\* g is what a turn of s may have come to.
TurnOK(g, s) ==
    /\ g \in TurnState
    /\ TurnInv(g.at, g.res, g.joinedTo, g.waiters, g.holders, g.inFlight)
    /\ \A t \in Sub, i \in Id :
          \/ g.at[t][i] = at[t][i]
          \/ t = s /\ at[t][i] = "pending" /\ g.at[t][i] \in {"acquiring", "joined", "done"}
    /\ \A t \in Sub, i \in Id : g.res[t][i] = res[t][i] \/ t = s

\* An entry of a function of functions is replaced.
LEMMA MovedIs ==
  ASSUME NEW X, NEW a \in [Sub -> [Id -> X]], NEW s \in Sub, NEW i \in Id, NEW p \in X
  PROVE  Put(a, s, i, p) \in [Sub -> [Id -> X]] /\ Moved(a, Put(a, s, i, p), s, i, p)
BY DEF Moved, Put

\* The places, when one instruction moves.
LEMMA PlacesMoved ==
  ASSUME NEW a \in [Sub -> [Id -> Places]], NEW b \in [Sub -> [Id -> Places]],
         NEW s \in Sub, NEW i \in Ids(s), NEW p \in Places, Moved(a, b, s, i, p),
         PlacesInv(a), p \in {"pending", "done", "lost"} \/ phase[s] = "running"
  PROVE  PlacesInv(b)
BY DEF PlacesInv, Moved, Owning, Held, Inside

\* So it is with the executions that are joined.
LEMMA JoinsMoved ==
  ASSUME NEW a, NEW b, NEW j, NEW s \in Sub, NEW i \in Id, NEW p, p # "joined",
         Moved(a, b, s, i, p), JoinsInv(a, j)
  PROVE  JoinsInv(b, j)
<1>1. \A t \in Sub, k \in Id : b[t][k] = "joined" => a[t][k] = "joined"
  BY DEF Moved
<1> QED
  BY <1>1 DEF JoinsInv

\* An instruction that was pending holds nothing and is in nobody's way.
LEMMA PendingIsOut ==
  ASSUME NEW a \in [Sub -> [Id -> Places]], NEW w, NEW h, NEW f,
         NEW s \in Sub, NEW i \in Id, a[s][i] \notin Owning,
         LocksInv(a, w, h), FlightsInv(a, f)
  PROVE  <<s, i>> \notin h /\ <<s, i>> \notin f /\ \A n \in 1..Len(w) : w[n] # <<s, i>>
BY DEF LocksInv, FlightsInv, Owning

\* What does not own its resources may move where it owns none.
LEMMA LocksMoved ==
  ASSUME NEW a \in [Sub -> [Id -> Places]], NEW b \in [Sub -> [Id -> Places]], NEW w, NEW h, NEW f,
         NEW s \in Sub, NEW i \in Id, NEW p \in Places \ Owning, Moved(a, b, s, i, p),
         a[s][i] \notin Owning, LocksInv(a, w, h), FlightsInv(a, f)
  PROVE  LocksInv(b, w, h) /\ FlightsInv(b, f)
<1>1. <<s, i>> \notin h /\ <<s, i>> \notin f /\ \A n \in 1..Len(w) : w[n] # <<s, i>>
  BY PendingIsOut
<1>2. \A e \in Exec : e # <<s, i>> => b[e[1]][e[2]] = a[e[1]][e[2]]
  BY DEF Moved, Exec
<1>3. \A n \in 1..Len(w) : w[n] \in Exec
  BY DEF LocksInv
<1>4. \A t \in Sub, j \in Id : b[t][j] \in Held => a[t][j] \in Held
  BY DEF Moved, Owning
<1>5. LocksInv(b, w, h)
  BY <1>1, <1>2, <1>3, <1>4 DEF LocksInv
<1>6. FlightsInv(b, f)
  BY <1>1, <1>2 DEF FlightsInv
<1> QED
  BY <1>5, <1>6

\* completed.set without having been started.
LEMMA CompleteKeeps ==
  ASSUME NEW s \in Sub, NEW i \in Ids(s), kernel \in BOOLEAN, NEW g, TurnOK(g, s),
         g.at[s][i] = "pending", NEW r \in {"failed", "partial"}
  PROVE  TurnOK(Complete(g, s, i, r), s)
<1> DEFINE h == Complete(g, s, i, r)
<1>0. i \in Id /\ "done" \in Places /\ r \in Results
  BY Tables DEF Places, Results, Outcomes
<1>1. /\ g \in TurnState
      /\ TurnInv(g.at, g.res, g.joinedTo, g.waiters, g.holders, g.inFlight)
  BY DEF TurnOK
<1>2. /\ h.at = Put(g.at, s, i, "done") /\ h.res = Put(g.res, s, i, r)
      /\ h.joinedTo = g.joinedTo /\ h.waiters = g.waiters
      /\ h.holders = g.holders /\ h.inFlight = g.inFlight
  BY <1>1 DEF Complete, TurnState
<1>3. g.at \in [Sub -> [Id -> Places]] /\ g.res \in [Sub -> [Id -> Results]]
  BY <1>1 DEF TurnState
<1>4. /\ h.at \in [Sub -> [Id -> Places]] /\ Moved(g.at, h.at, s, i, "done")
      /\ h.res \in [Sub -> [Id -> Results]] /\ Moved(g.res, h.res, s, i, r)
  <2>1. Put(g.at, s, i, "done") \in [Sub -> [Id -> Places]]
        /\ Moved(g.at, Put(g.at, s, i, "done"), s, i, "done")
    BY <1>0, <1>3, MovedIs
  <2>2. Put(g.res, s, i, r) \in [Sub -> [Id -> Results]]
        /\ Moved(g.res, Put(g.res, s, i, r), s, i, r)
    BY <1>0, <1>3, MovedIs
  <2> HIDE DEF h
  <2> QED
    BY <1>2, <2>1, <2>2
<1>5. h \in TurnState
  <2>1. Put(g.at, s, i, "done") \in [Sub -> [Id -> Places]] /\ Put(g.res, s, i, r) \in [Sub -> [Id -> Results]]
    BY <1>0, <1>3, MovedIs
  <2> QED
    BY <1>1, <2>1 DEF Complete, TurnState
<1> HIDE DEF h
<1>6. PlacesInv(h.at)
  BY <1>0, <1>1, <1>3, <1>4, PlacesMoved DEF TurnInv
<1>7. ResultsInv(h.at, h.res)
  <2>1. r \in Outcomes /\ r \notin Good
    BY DEF Outcomes, Good
  <2>2. \A t \in Sub, j \in Id : h.at[t][j] = "done" => h.res[t][j] \in Outcomes
    BY <1>1, <1>4, <2>1 DEF TurnInv, ResultsInv, Moved
  <2>3. \A t \in Sub, j \in Id : h.res[t][j] \in Good => h.res[t][j] = g.res[t][j]
    BY <1>4, <2>1 DEF Moved
  <2> QED
    BY <1>1, <1>4, <2>2, <2>3 DEF TurnInv, ResultsInv
<1>8. JoinsInv(h.at, h.joinedTo)
  <2>1. JoinsInv(h.at, g.joinedTo)
    BY <1>0, <1>1, <1>4, JoinsMoved DEF TurnInv
  <2> QED
    BY <1>2, <2>1
<1>9. LocksInv(h.at, h.waiters, h.holders) /\ FlightsInv(h.at, h.inFlight)
  <2>1. g.at[s][i] \notin Owning /\ "done" \in Places \ Owning
    BY DEF Owning, Held, Inside, Places
  <2> QED
    BY <1>0, <1>1, <1>2, <1>3, <1>4, <2>1, LocksMoved DEF TurnInv
<1>10. StartedInv(h.at)
  BY <1>1, <1>4 DEF TurnInv, StartedInv, Moved, Owning, Held, Inside
<1>11. \A t \in Sub, j \in Id :
          \/ h.at[t][j] = at[t][j]
          \/ t = s /\ at[t][j] = "pending" /\ h.at[t][j] \in {"acquiring", "joined", "done"}
  BY <1>4 DEF TurnOK, Moved
<1>12. \A t \in Sub, j \in Id : h.res[t][j] = res[t][j] \/ t = s
  BY <1>4 DEF TurnOK, Moved
<1> QED
  BY <1>5, <1>6, <1>7, <1>8, <1>9, <1>10, <1>11, <1>12 DEF h, TurnOK, TurnInv

\* An instruction is ready to start when what it depends on has succeeded.
LEMMA LaunchIsReady ==
  ASSUME NEW s \in Sub, NEW i \in Ids(s), kernel \in BOOLEAN, NEW g, TurnOK(g, s),
         \A j \in Ins(s, i).deps : dependencySucceeded(g.res[s][j], Ins(s, j).op)
  PROVE  kernel => Ready(s, i)
<1>1. Ins(s, i).deps \subseteq Ids(s) /\ Ids(s) \subseteq Id
  BY Tables
<1>2. \A j \in Ins(s, i).deps : g.res[s][j] \in Good
  BY DEF dependencySucceeded, Good
<1> QED
  BY <1>1, <1>2 DEF TurnOK, TurnInv, ResultsInv, Ready

\* joinInFlight: the execution that is joined is of the same instruction.
LEMMA JoinKeeps ==
  ASSUME NEW s \in Sub, NEW i \in Ids(s), kernel \in BOOLEAN, NEW g, TurnOK(g, s),
         g.at[s][i] = "pending", phase[s] = "running", kernel => Ready(s, i),
         NEW e \in g.inFlight, Ins(e[1], e[2]) = Ins(s, i), NEW h,
         h = [g EXCEPT !.at = Put(g.at, s, i, "joined"), !.joinedTo = Put(g.joinedTo, s, i, e)]
  PROVE  TurnOK(h, s)
<1>0. i \in Id /\ "joined" \in Places /\ g.at[s][i] \notin Owning /\ "joined" \in Places \ Owning
  BY Tables DEF Places, Owning, Held, Inside
<1>1. /\ g \in TurnState
      /\ TurnInv(g.at, g.res, g.joinedTo, g.waiters, g.holders, g.inFlight)
  BY DEF TurnOK
<1>2. e \in Exec /\ e[2] \in Ids(e[1])
  <2>1. e \in Exec /\ g.at[e[1]][e[2]] \in Owning
    BY <1>1 DEF TurnInv, FlightsInv
  <2> QED
    BY <1>1, <2>1 DEF TurnInv, PlacesInv, Exec
<1>3. /\ g.at \in [Sub -> [Id -> Places]]
      /\ g.joinedTo \in [Sub -> [Id -> Exec \cup {None}]]
  BY <1>1 DEF TurnState
<1>4. Put(g.at, s, i, "joined") \in [Sub -> [Id -> Places]]
      /\ Moved(g.at, Put(g.at, s, i, "joined"), s, i, "joined")
  BY <1>0, <1>3, MovedIs
<1>5. Put(g.joinedTo, s, i, e) \in [Sub -> [Id -> Exec \cup {None}]]
      /\ Moved(g.joinedTo, Put(g.joinedTo, s, i, e), s, i, e)
  <2> DEFINE X == Exec \cup {None}
  <2>1. e \in X /\ g.joinedTo \in [Sub -> [Id -> X]]
    BY <1>2, <1>3
  <2> HIDE DEF X
  <2>2. Put(g.joinedTo, s, i, e) \in [Sub -> [Id -> X]]
        /\ Moved(g.joinedTo, Put(g.joinedTo, s, i, e), s, i, e)
    BY <1>0, <2>1, MovedIs
  <2> QED
    BY <2>2 DEF X
<1>6. /\ h.at = Put(g.at, s, i, "joined") /\ h.joinedTo = Put(g.joinedTo, s, i, e)
      /\ h.res = g.res /\ h.waiters = g.waiters
      /\ h.holders = g.holders /\ h.inFlight = g.inFlight
  BY <1>1 DEF TurnState
<1>7. h \in TurnState
  BY <1>1, <1>4, <1>5 DEF TurnState
<1>8. PlacesInv(h.at)
  <2>1. PlacesInv(Put(g.at, s, i, "joined"))
    BY <1>0, <1>1, <1>3, <1>4, PlacesMoved DEF TurnInv
  <2> QED
    BY <1>6, <2>1
<1>9. ResultsInv(h.at, h.res)
  <2>1. \A t \in Sub, j \in Id : h.at[t][j] = "done" => g.at[t][j] = "done"
    BY <1>4, <1>6 DEF Moved
  <2> QED
    BY <1>1, <1>6, <2>1 DEF TurnInv, ResultsInv
<1>10. JoinsInv(h.at, h.joinedTo)
  <2> DEFINE a == h.at
             k == h.joinedTo
  <2>1. /\ \A t \in Sub, j \in Id : ~(t = s /\ j = i) =>
               a[t][j] = g.at[t][j] /\ k[t][j] = g.joinedTo[t][j]
        /\ k[s][i] = e
    BY <1>0, <1>4, <1>5, <1>6 DEF Moved
  <2>2. k \in [Sub -> [Id -> Exec \cup {None}]]
    BY <1>5, <1>6
  <2> HIDE DEF a, k
  <2>3. JoinsInv(a, k)
    BY <1>1, <1>2, <2>1, <2>2 DEF TurnInv, JoinsInv
  <2> QED
    BY <2>3 DEF a, k
<1>11. LocksInv(h.at, h.waiters, h.holders) /\ FlightsInv(h.at, h.inFlight)
  <2>0. LocksInv(g.at, g.waiters, g.holders) /\ FlightsInv(g.at, g.inFlight)
    BY <1>1 DEF TurnInv
  <2> DEFINE a == g.at
             b == Put(a, s, i, "joined")
  <2>1. /\ a \in [Sub -> [Id -> Places]] /\ b \in [Sub -> [Id -> Places]]
        /\ Moved(a, b, s, i, "joined") /\ a[s][i] \notin Owning
    BY <1>0, <1>3, <1>4
  <2> HIDE DEF a, b
  <2>2. LocksInv(b, g.waiters, g.holders) /\ FlightsInv(b, g.inFlight)
    BY <1>0, <2>0, <2>1, LocksMoved DEF a
  <2> QED
    BY <1>6, <2>2 DEF a, b
<1>12. StartedInv(h.at)
  BY <1>0, <1>1, <1>4, <1>6 DEF TurnInv, StartedInv, Moved
<1>13. \A t \in Sub, j \in Id :
          \/ h.at[t][j] = at[t][j]
          \/ t = s /\ at[t][j] = "pending" /\ h.at[t][j] \in {"acquiring", "joined", "done"}
  BY <1>4, <1>6 DEF TurnOK, Moved
<1>14. \A t \in Sub, j \in Id : h.res[t][j] = res[t][j] \/ t = s
  BY <1>6 DEF TurnOK
<1> QED
  BY <1>7, <1>8, <1>9, <1>10, <1>11, <1>12, <1>13, <1>14 DEF TurnOK, TurnInv

\* acquire() lines up and serves who can be served.
LEMMA AcquireKeeps ==
  ASSUME NEW s \in Sub, NEW i \in Ids(s), kernel \in BOOLEAN, NEW g, TurnOK(g, s),
         g.at[s][i] = "pending", phase[s] = "running", kernel => Ready(s, i),
         \A e \in g.inFlight : KeyOf(e[1], e[2]) # KeyOf(s, i), NEW h, NEW d,
         d = drainWaiters(Append(g.waiters, <<s, i>>), g.holders),
         h = [g EXCEPT !.at = Put(g.at, s, i, "acquiring"), !.waiters = d.waiters,
                       !.holders = d.holders, !.inFlight = g.inFlight \cup {<<s, i>>}]
  PROVE  TurnOK(h, s)
<1> DEFINE x == <<s, i>>
           v == Append(g.waiters, x)
<1>0. i \in Id /\ x \in Exec /\ "acquiring" \in Places /\ "acquiring" \in Owning
      /\ g.at[s][i] \notin Owning /\ "acquiring" \notin Held
  BY Tables DEF Places, Owning, Held, Inside, Exec
<1>1. /\ g \in TurnState
      /\ TurnInv(g.at, g.res, g.joinedTo, g.waiters, g.holders, g.inFlight)
  BY DEF TurnOK
<1>2. g.at \in [Sub -> [Id -> Places]] /\ g.waiters \in Seq(Exec) /\ g.holders \subseteq Exec
  BY <1>1 DEF TurnState
<1>3. Put(g.at, s, i, "acquiring") \in [Sub -> [Id -> Places]]
      /\ Moved(g.at, Put(g.at, s, i, "acquiring"), s, i, "acquiring")
  BY <1>0, <1>2, MovedIs
<1>4. x \notin g.holders /\ x \notin g.inFlight /\ \A n \in 1..Len(g.waiters) : g.waiters[n] # x
  BY <1>0, <1>1, <1>2, PendingIsOut DEF TurnInv
<1>5. /\ v \in Seq(Exec) /\ Len(v) = Len(g.waiters) + 1 /\ Len(g.waiters) \in Nat
      /\ \A n \in 1..Len(g.waiters) : v[n] = g.waiters[n]
      /\ v[Len(g.waiters) + 1] = x
  BY <1>0, <1>2
<1>6. \A n \in 1..Len(v) : n = Len(g.waiters) + 1 \/ n \in 1..Len(g.waiters)
  BY <1>5
<1> HIDE DEF x, v
<1>7. Injective(v)
  BY <1>1, <1>4, <1>5, <1>6 DEF TurnInv, LocksInv, Injective
<1>8. \A n \in 1..Len(v) : v[n] \notin g.holders
  BY <1>1, <1>4, <1>5, <1>6 DEF TurnInv, LocksInv
<1>9. Disjoint(g.holders)
  BY <1>1 DEF TurnInv, LocksInv, Disjoint
<1>10. /\ d.waiters \in Seq(Exec) /\ Injective(d.waiters)
       /\ d.holders \subseteq Exec /\ g.holders \subseteq d.holders /\ Disjoint(d.holders)
       /\ \A e \in d.holders : e \in g.holders \/ InQueue(e, v)
       /\ \A n \in 1..Len(d.waiters) : InQueue(d.waiters[n], v) /\ d.waiters[n] \notin d.holders
  BY <1>2, <1>5, <1>7, <1>8, <1>9, DrainFacts DEF v, x
<1>11. /\ h.at = Put(g.at, s, i, "acquiring") /\ h.waiters = d.waiters
       /\ h.holders = d.holders /\ h.inFlight = g.inFlight \cup {x}
       /\ h.res = g.res /\ h.joinedTo = g.joinedTo
  BY <1>1 DEF TurnState, x
<1>12. h \in TurnState
  <2>1. g.inFlight \cup {x} \subseteq Exec
    BY <1>0, <1>1 DEF TurnState
  <2> QED
    BY <1>1, <1>3, <1>10, <2>1 DEF TurnState, x
<1>13. PlacesInv(h.at)
  <2>1. PlacesInv(Put(g.at, s, i, "acquiring"))
    BY <1>0, <1>1, <1>2, <1>3, PlacesMoved DEF TurnInv
  <2> QED
    BY <1>11, <2>1
<1>14. ResultsInv(h.at, h.res)
  <2>1. \A t \in Sub, j \in Id : h.at[t][j] = "done" => g.at[t][j] = "done"
    BY <1>3, <1>11 DEF Moved
  <2> QED
    BY <1>1, <1>11, <2>1 DEF TurnInv, ResultsInv
<1>15. JoinsInv(h.at, h.joinedTo)
  <2>1. JoinsInv(Put(g.at, s, i, "acquiring"), g.joinedTo)
    BY <1>0, <1>1, <1>3, JoinsMoved DEF TurnInv
  <2> QED
    BY <1>11, <2>1
<1> DEFINE b == Put(g.at, s, i, "acquiring")
<1>16. /\ \A e \in Exec : e # x => b[e[1]][e[2]] = g.at[e[1]][e[2]]
       /\ b[x[1]][x[2]] = "acquiring"
  BY <1>0, <1>3 DEF Moved, Exec, x
<1> HIDE DEF b
<1>17. \A e \in Exec : InQueue(e, v) => b[e[1]][e[2]] = "acquiring"
  <2> TAKE e \in Exec
  <2>1. ASSUME NEW n \in 1..Len(v), v[n] = e PROVE b[e[1]][e[2]] = "acquiring"
    <3>1. n \in 1..Len(g.waiters) => g.waiters[n] = e /\ g.at[e[1]][e[2]] = "acquiring"
      BY <1>1, <1>5, <2>1 DEF TurnInv, LocksInv
    <3> QED
      BY <1>5, <1>6, <1>16, <2>1, <3>1
  <2> QED
    BY <2>1 DEF InQueue
<1>18. LocksInv(b, d.waiters, d.holders)
  <2>1. \A n \in 1..Len(d.waiters) : d.waiters[n] \in Exec
    BY <1>10
  <2>2. \A n \in 1..Len(d.waiters) :
           b[d.waiters[n][1]][d.waiters[n][2]] = "acquiring" /\ d.waiters[n] \notin d.holders
    BY <1>10, <1>17, <2>1
  <2>3. \A e \in d.holders : b[e[1]][e[2]] \in Owning
    <3> TAKE e \in d.holders
    <3>1. e \in Exec
      BY <1>10
    <3>2. CASE InQueue(e, v)
      BY <1>0, <1>17, <3>1, <3>2
    <3>3. CASE e \in g.holders
      <4>1. g.at[e[1]][e[2]] \in Owning /\ e # x
        BY <1>1, <1>4, <3>3 DEF TurnInv, LocksInv
      <4> QED
        BY <1>16, <3>1, <4>1
    <3> QED
      BY <1>10, <3>2, <3>3
  <2>4. \A t \in Sub, j \in Id : b[t][j] \in Held => <<t, j>> \in d.holders
    <3>1. \A t \in Sub, j \in Id : b[t][j] \in Held => g.at[t][j] \in Held
      BY <1>0, <1>3 DEF Moved, b
    <3>2. \A t \in Sub, j \in Id : g.at[t][j] \in Held => <<t, j>> \in g.holders
      BY <1>1 DEF TurnInv, LocksInv
    <3> QED
      BY <1>10, <3>1, <3>2
  <2> QED
    BY <1>10, <2>2, <2>3, <2>4 DEF LocksInv, Disjoint
<1>19. FlightsInv(b, g.inFlight \cup {x})
  <2>1. g.inFlight \subseteq Exec /\ \A e \in g.inFlight : g.at[e[1]][e[2]] \in Owning
    BY <1>1 DEF TurnInv, FlightsInv
  <2>2. \A e \in g.inFlight \cup {x} : b[e[1]][e[2]] \in Owning
    BY <1>0, <1>16, <2>1
  <2>3. \A e, f \in g.inFlight \cup {x} : KeyOf(e[1], e[2]) = KeyOf(f[1], f[2]) => e = f
    BY <1>1 DEF TurnInv, FlightsInv, x
  <2> QED
    BY <1>0, <2>1, <2>2, <2>3 DEF FlightsInv
<1>20. StartedInv(h.at)
  BY <1>0, <1>1, <1>3, <1>11 DEF TurnInv, StartedInv, Moved
<1>21. \A t \in Sub, j \in Id :
          \/ h.at[t][j] = at[t][j]
          \/ t = s /\ at[t][j] = "pending" /\ h.at[t][j] \in {"acquiring", "joined", "done"}
  BY <1>3, <1>11 DEF TurnOK, Moved
<1>22. \A t \in Sub, j \in Id : h.res[t][j] = res[t][j] \/ t = s
  BY <1>11 DEF TurnOK
<1> QED
  BY <1>11, <1>12, <1>13, <1>14, <1>15, <1>18, <1>19, <1>20, <1>21, <1>22 DEF TurnOK,
     TurnInv, b

\* start(): a conflict, a join, or an execution of its own.
LEMMA StartKeeps ==
  ASSUME NEW s \in Sub, NEW i \in Ids(s), kernel \in BOOLEAN, NEW g, TurnOK(g, s),
         g.at[s][i] = "pending", phase[s] = "running", kernel => Ready(s, i)
  PROVE  TurnOK(start(g, s, i), s)
<1> DEFINE same == { e \in g.inFlight : KeyOf(e[1], e[2]) = KeyOf(s, i) }
<1>1. CASE \E e \in same : Ins(e[1], e[2]) # Ins(s, i)
  <2>1. start(g, s, i) = Complete(g, s, i, "failed")
    BY <1>1 DEF start, instructionFingerprint
  <2> QED
    BY <2>1, CompleteKeeps
<1>2. CASE same # {} /\ \A e \in same : Ins(e[1], e[2]) = Ins(s, i)
  <2> DEFINE e == CHOOSE e \in same : TRUE
  <2>1. start(g, s, i) = [g EXCEPT !.at = Put(g.at, s, i, "joined"),
                                   !.joinedTo = Put(g.joinedTo, s, i, e)]
    BY <1>2 DEF start, instructionFingerprint
  <2>2. e \in same
    BY <1>2
  <2>3. e \in g.inFlight /\ Ins(e[1], e[2]) = Ins(s, i)
    BY <1>2, <2>2
  <2> HIDE DEF e
  <2> QED
    BY <2>1, <2>3, JoinKeeps
<1>3. CASE same = {}
  <2> DEFINE d == drainWaiters(Append(g.waiters, <<s, i>>), g.holders)
  <2>1. start(g, s, i) =
          [g EXCEPT !.at = Put(g.at, s, i, "acquiring"), !.waiters = d.waiters,
                    !.holders = d.holders, !.inFlight = g.inFlight \cup {<<s, i>>}]
    BY <1>3 DEF start
  <2>2. \A e \in g.inFlight : KeyOf(e[1], e[2]) # KeyOf(s, i)
    BY <1>3
  <2> QED
    BY <2>1, <2>2, AcquireKeeps
<1> QED
  BY <1>1, <1>2, <1>3

\* One instruction of the loop's pass over the pending ones.
LEMMA LaunchKeeps ==
  ASSUME NEW s \in Sub, NEW i \in Ids(s), kernel \in BOOLEAN, NEW g, TurnOK(g, s), phase[s] = "running"
  PROVE  TurnOK(Launch(g, s, i), s)
<1> DEFINE waits == \/ g.at[s][i] # "pending"
                    \/ Cardinality(Active(g, s)) >= MaxConcurrency
                    \/ \E j \in Ins(s, i).deps : g.at[s][j] # "done"
           skipped == \E j \in Ins(s, i).deps : ~dependencySucceeded(g.res[s][j], Ins(s, j).op)
<1>1. CASE waits
  <2>1. Launch(g, s, i) = g
    BY <1>1 DEF Launch
  <2> QED
    BY <2>1
<1>2. CASE ~waits /\ skipped
  <2>1. Launch(g, s, i) = Complete(g, s, i, "partial")
    BY <1>2 DEF Launch
  <2> QED
    BY <1>2, <2>1, CompleteKeeps
<1>3. CASE ~waits /\ ~skipped
  <2>1. Launch(g, s, i) = start(g, s, i)
    BY <1>3 DEF Launch
  <2>2. kernel => Ready(s, i)
    BY <1>3, LaunchIsReady
  <2> QED
    BY <1>3, <2>1, <2>2, StartKeeps
<1> QED
  BY <1>1, <1>2, <1>3

\* An aborted loop completes what is pending as cancelled.
LEMMA BeforeKeeps ==
  ASSUME NEW s \in Sub, kernel \in BOOLEAN,
         TurnInv(at, res, joinedTo, waiters, holders, inFlight)
  PROVE  TurnOK(Before(s), s)
<1>1. Now \in TurnState
  BY DEF TurnInv, PlacesInv, ResultsInv, JoinsInv, LocksInv, FlightsInv, TurnState, Now
<1>2. /\ Now.at = at /\ Now.res = res /\ Now.joinedTo = joinedTo
      /\ Now.waiters = waiters /\ Now.holders = holders /\ Now.inFlight = inFlight
  BY DEF Now
<1>3. TurnOK(Now, s)
  BY <1>1, <1>2 DEF TurnOK
<1>4. ASSUME s \in aborted PROVE TurnOK(CancelPending(Now, s), s)
  <2> DEFINE h == CancelPending(Now, s)
             pending(i) == i \in Ids(s) /\ at[s][i] = "pending"
             b == [at EXCEPT ![s] = [i \in Id |-> IF pending(i) THEN "done" ELSE at[s][i]]]
             q == [res EXCEPT ![s] = [i \in Id |-> IF pending(i) THEN "cancelled" ELSE res[s][i]]]
  <2>1. /\ h.at = b /\ h.res = q /\ h.joinedTo = joinedTo
        /\ h.waiters = waiters /\ h.holders = holders /\ h.inFlight = inFlight
    BY DEF CancelPending, Now
  <2>2. at \in [Sub -> [Id -> Places]] /\ res \in [Sub -> [Id -> Results]]
    BY DEF TurnInv, PlacesInv, ResultsInv
  <2>3. b \in [Sub -> [Id -> Places]] /\ q \in [Sub -> [Id -> Results]]
    BY <2>2 DEF Places, Results, Outcomes
  <2>4. \A t \in Sub, j \in Id :
           /\ b[t][j] = IF t = s /\ pending(j) THEN "done" ELSE at[t][j]
           /\ q[t][j] = IF t = s /\ pending(j) THEN "cancelled" ELSE res[t][j]
    BY <2>2
  <2>5. h \in TurnState
    BY <1>1, <2>3 DEF CancelPending, Now, TurnState
  <2> HIDE DEF h, b, q
  <2>6. \A t \in Sub, j \in Id : b[t][j] # "done" => b[t][j] = at[t][j]
    BY <2>4
  <2>7. PlacesInv(b)
    BY <2>3, <2>6 DEF TurnInv, PlacesInv, Owning, Held, Inside
  <2>8. ResultsInv(b, q)
    BY <2>3, <2>4 DEF TurnInv, ResultsInv, Good, Outcomes
  <2>9. JoinsInv(b, joinedTo)
    BY <2>6 DEF TurnInv, JoinsInv
  <2>10. \A e \in Exec : at[e[1]][e[2]] \in Owning => b[e[1]][e[2]] = at[e[1]][e[2]]
    BY <2>4 DEF Owning, Held, Inside, Exec
  <2>11. LocksInv(b, waiters, holders)
    <3>1. \A n \in 1..Len(waiters) : waiters[n] \in Exec /\ at[waiters[n][1]][waiters[n][2]] = "acquiring"
      BY DEF TurnInv, LocksInv
    <3>2. \A n \in 1..Len(waiters) : b[waiters[n][1]][waiters[n][2]] = "acquiring"
      BY <2>10, <3>1 DEF Owning
    <3>3. \A e \in holders : b[e[1]][e[2]] \in Owning
      BY <2>10 DEF TurnInv, LocksInv
    <3>4. \A t \in Sub, j \in Id : b[t][j] \in Held => at[t][j] \in Held
      BY <2>6 DEF Held, Inside
    <3> QED
      BY <3>2, <3>3, <3>4 DEF TurnInv, LocksInv
  <2>12. FlightsInv(b, inFlight)
    BY <2>10 DEF TurnInv, FlightsInv
  <2>13. StartedInv(b)
    BY <2>6 DEF TurnInv, StartedInv, Owning, Held, Inside
  <2>14. /\ \A t \in Sub, i \in Id :
             \/ b[t][i] = at[t][i]
             \/ t = s /\ at[t][i] = "pending" /\ b[t][i] \in {"acquiring", "joined", "done"}
         /\ \A t \in Sub, i \in Id : q[t][i] = res[t][i] \/ t = s
    BY <2>4
  <2> QED
    BY <2>1, <2>5, <2>7, <2>8, <2>9, <2>11, <2>12, <2>13, <2>14 DEF TurnOK, TurnInv, h
<1> QED
  BY <1>3, <1>4 DEF Before

\* What a turn comes to.
LEMMA TurnFacts ==
  ASSUME NEW s \in Sub, kernel \in BOOLEAN, phase[s] = "running",
         TurnInv(at, res, joinedTo, waiters, holders, inFlight)
  PROVE  TurnOK(AfterTurn(s), s)
<1> DEFINE p == Prog(s)
<1>0. Len(p) \in Nat /\ \A n \in 1..Len(p) : p[n].id \in Ids(s)
  BY Tables
<1>1. PICK f : /\ f[0] = Before(s)
               /\ \A n \in 1..Len(p) : f[n] = Launch(f[n - 1], s, p[n].id)
               /\ AfterTurn(s) = f[Len(p)]
  BY <1>0, TurnIs
<1> HIDE DEF p
<1> DEFINE T == {k \in 0..Len(p) : TurnOK(f[k], s)}
<1>2. 0 \in T
  BY <1>0, <1>1, BeforeKeeps
<1>3. ASSUME NEW k \in 1..Len(p), k - 1 \in T PROVE k \in T
  <2>1. TurnOK(f[k - 1], s) /\ f[k] = Launch(f[k - 1], s, p[k].id)
    BY <1>1, <1>3
  <2>2. TurnOK(f[k], s)
    BY <1>0, <2>1, LaunchKeeps
  <2> QED
    BY <1>0, <2>2
<1>4. Len(p) \in T
  <2>1. \A n \in 1..Len(p) : n - 1 \in T => n \in T
    BY <1>3
  <2>2. Len(p) \in Nat
    BY <1>0
  <2> HIDE DEF T
  <2>3. \A n \in 0..Len(p) : n \in T
    BY <1>2, <2>1, <2>2, UpTo
  <2> QED
    BY <2>2, <2>3
<1> QED
  BY <1>1, <1>4

-----------------------------------------------------------------------------
(* Steps *)

\* What is durable stays so.
RowsStay == \A o \in OpId : row[o] \in Durable => row'[o] \in Durable

\* A running submission goes on while it has executions.
RunsOn ==
    \A s \in Sub, i \in Id :
        phase[s] = "running" /\ at'[s][i] \in Owning \cup {"joined"} => phase'[s] = "running"

\* A binding that was made stays.
BoundStays == DOMAIN bound' = OpId /\ \A o \in OpId : bound[o] # None => bound'[o] = bound[o]

\* The parts of the invariant.
LEMMA Basics ==
  ASSUME IInv
  PROVE  /\ kernel \in BOOLEAN
         /\ at \in [Sub -> [Id -> Places]] /\ res \in [Sub -> [Id -> Results]]
         /\ joinedTo \in [Sub -> [Id -> Exec \cup {None}]]
         /\ dig \in [Sub -> [Id -> Root \cup {None}]]
         /\ row \in [OpId -> Rows] /\ phase \in [Sub -> Phases]
         /\ waiters \in Seq(Exec) /\ holders \subseteq Exec /\ inFlight \subseteq Exec
         /\ commitTail \in Seq(Exec)
BY DEF IInv, Types, DurableTypes, HostTypes, MemoryTypes, TurnInv, PlacesInv,
   ResultsInv, JoinsInv,
       LocksInv, FlightsInv

\* An instruction that was ready stays ready.
LEMMA ReadyStays ==
  ASSUME NEW s \in Sub, NEW i \in Ids(s), kernel \in BOOLEAN, kernel' = kernel, RowsStay, Ready(s, i)
  PROVE  Ready(s, i)'
<1>1. Ins(s, i).deps \subseteq Ids(s) /\ \A j \in Ids(s) : Ins(s, j).opId \in OpId \cup {None}
  BY Tables
<1> QED
  BY <1>1 DEF Ready, RowsStay, Durable, Ins

\* Places, joins, locks, flights and starts, once they hold of the new memory.
LEMMA TurnStays ==
  ASSUME kernel \in BOOLEAN, kernel' = kernel, RowsStay, RunsOn,
         PlacesInv(at'), JoinsInv(at', joinedTo'), LocksInv(at', waiters', holders'),
         FlightsInv(at', inFlight'), StartedInv(at'), ResultsInv(at, res)'
  PROVE  TurnInv(at, res, joinedTo, waiters, holders, inFlight)'
<1>1. PlacesInv(at)'
  BY DEF PlacesInv, RunsOn, Ids
<1>2. JoinsInv(at, joinedTo)'
  BY DEF JoinsInv, Ids, Ins
<1>3. LocksInv(at, waiters, holders)'
  BY DEF LocksInv, ResourcesOf, Ins
<1>4. FlightsInv(at, inFlight)'
  BY DEF FlightsInv, KeyOf, Prog, Ins
<1>5. StartedInv(at)'
  <2> SUFFICES ASSUME NEW s \in Sub, NEW i \in Id, kernel, at'[s][i] \in Owning \cup {"joined"}
               PROVE  Ready(s, i)'
    BY DEF StartedInv
  <2>1. Ready(s, i) /\ i \in Ids(s)
    BY DEF StartedInv, PlacesInv
  <2> QED
    BY <2>1, ReadyStays
<1> QED
  BY <1>1, <1>2, <1>3, <1>4, <1>5 DEF TurnInv

\* The commit queue, once it holds of the new memory.
LEMMA CommitStays ==
  ASSUME kernel' = kernel, CommitInv(at', commitTail')
  PROVE  CommitInv(at, commitTail)'
BY DEF CommitInv, Ins

\* Durable results stay durable.
LEMMA ResultsStay ==
  ASSUME kernel \in BOOLEAN, kernel' = kernel, RowsStay, ResultsInv(at', res')
  PROVE  ResultsInv(at, res)'
<1>1. \A s \in Sub : \A i \in Ids(s) : Ins(s, i).opId \in OpId \cup {None}
  BY Tables
<1> QED
  BY <1>1 DEF ResultsInv, RowsStay, Durable, Ids, Ins

\* The order of what was begun before stays.
LEMMA OrderStays ==
  ASSUME IInv, kernel' = kernel, RowsStay, NEW o \in OpId, row[o] # "none", begunBy'[o] = begunBy[o]
  PROVE  Ready(begunBy[o][1], begunBy[o][2])'
<1>1. begunBy[o] \in Exec /\ begunBy[o][2] \in Ids(begunBy[o][1]) /\ Ready(begunBy[o][1], begunBy[o][2])
  BY DEF IInv, KernelInv, OperationsInv, DurableOrder
<1>2. begunBy[o][1] \in Sub /\ kernel \in BOOLEAN
  BY <1>1, Basics DEF Exec
<1>3. ASSUME NEW s \in Sub, NEW i \in Ids(s), Ready(s, i), begunBy'[o] = <<s, i>>
      PROVE  Ready(begunBy[o][1], begunBy[o][2])'
  <2>1. Ready(s, i)'
    BY <1>2, <1>3, ReadyStays
  <2> QED
    BY <1>3, <2>1 DEF Ready, Ins
<1>4. begunBy'[o] = <<begunBy[o][1], begunBy[o][2]>>
  BY <1>1 DEF Exec
<1> QED
  BY <1>1, <1>2, <1>3, <1>4

\* Releasing serves the waiters from what is left.
LEMMA ReleaseLocks ==
  ASSUME IInv, NEW s \in Sub, NEW i \in Id, at[s][i] \in Held, Released(<<s, i>>),
         NEW b \in [Sub -> [Id -> Places]], Moved(at, b, s, i, "done")
  PROVE  LocksInv(b, waiters', holders')
<1> DEFINE x == <<s, i>>
           hs == holders \ {x}
           d == drainWaiters(waiters, hs)
<1>1. waiters' = d.waiters /\ holders' = d.holders
  BY DEF Released
<1>2. /\ waiters \in Seq(Exec) /\ holders \subseteq Exec /\ Injective(waiters)
      /\ \A n \in 1..Len(waiters) : at[waiters[n][1]][waiters[n][2]] = "acquiring" /\ waiters[n] \notin holders
      /\ \A e \in holders : at[e[1]][e[2]] \in Owning
      /\ \A t \in Sub, j \in Id : at[t][j] \in Held => <<t, j>> \in holders
      /\ Disjoint(holders)
  BY DEF IInv, TurnInv, LocksInv, Disjoint
<1>3. hs \in SUBSET Exec /\ Disjoint(hs) /\ \A n \in 1..Len(waiters) : waiters[n] \notin hs
  BY <1>2 DEF Disjoint
<1> HIDE DEF hs
<1>4. /\ d.waiters \in Seq(Exec) /\ Injective(d.waiters)
      /\ d.holders \subseteq Exec /\ hs \subseteq d.holders /\ Disjoint(d.holders)
      /\ \A e \in d.holders : e \in hs \/ InQueue(e, waiters)
      /\ \A n \in 1..Len(d.waiters) : InQueue(d.waiters[n], waiters) /\ d.waiters[n] \notin d.holders
  BY <1>2, <1>3, DrainFacts
<1> HIDE DEF d
<1>5. x \in Exec /\ \A e \in Exec : e # x => b[e[1]][e[2]] = at[e[1]][e[2]]
  BY DEF Moved, Exec
<1>6. \A e \in Exec : InQueue(e, waiters) => b[e[1]][e[2]] = "acquiring"
  <2>1. \A n \in 1..Len(waiters) : waiters[n] # x
    BY <1>2 DEF Held, Inside
  <2> QED
    BY <1>2, <1>5, <2>1 DEF InQueue
<1>7. \A n \in 1..Len(d.waiters) :
         b[d.waiters[n][1]][d.waiters[n][2]] = "acquiring" /\ d.waiters[n] \notin d.holders
  <2>1. \A n \in 1..Len(d.waiters) : d.waiters[n] \in Exec
    BY <1>4
  <2> QED
    BY <1>4, <1>6, <2>1
<1>8. \A e \in d.holders : b[e[1]][e[2]] \in Owning
  <2> TAKE e \in d.holders
  <2>1. CASE InQueue(e, waiters)
    BY <1>4, <1>6, <2>1 DEF Owning
  <2>2. CASE e \in hs
    BY <1>2, <1>4, <1>5, <2>2 DEF hs
  <2> QED
    BY <1>4, <2>1, <2>2
<1>9. \A t \in Sub, j \in Id : b[t][j] \in Held => <<t, j>> \in d.holders
  <2>1. \A t \in Sub, j \in Id : b[t][j] \in Held => at[t][j] \in Held /\ <<t, j>> # x
    BY DEF Moved, Held, Inside
  <2> QED
    BY <1>2, <1>4, <2>1 DEF hs
<1> QED
  BY <1>1, <1>4, <1>7, <1>8, <1>9 DEF LocksInv, Disjoint

\* Releasing hands the commit queue to the next.
LEMMA ReleaseCommit ==
  ASSUME IInv, NEW s \in Sub, NEW i \in Id, at[s][i] \in Held, Released(<<s, i>>),
         Turned(s, i),
         NEW b \in [Sub -> [Id -> Places]], Moved(at, b, s, i, "done")
  PROVE  CommitInv(b, commitTail') /\ commitTail' \in Seq(Exec)
<1> DEFINE x == <<s, i>>
           q == commitTail
<1>1. /\ q \in Seq(Exec) /\ Injective(q)
      /\ \A n \in 1..Len(q) : at[q[n][1]][q[n][2]] \in Held
      /\ \A t \in Sub, j \in Id : at[t][j] \in Held /\ Commits(Ins(t, j).op) => InQueue(<<t, j>>, q)
      /\ \A t \in Sub, j \in Id : at[t][j] \in Inside /\ Commits(Ins(t, j).op) => q[1] = <<t, j>>
      /\ \A n \in 1..Len(q) : Commits(Ins(q[n][1], q[n][2]).op)
  BY Basics DEF IInv, CommitInv
<1>2. \A t \in Sub, j \in Id : ~(t = s /\ j = i) => b[t][j] = at[t][j]
  BY DEF Moved
<1>3. b[s][i] = "done" /\ "done" \notin Held /\ "done" \notin Inside
  BY DEF Moved, Held, Inside
<1>4. \A n \in 1..Len(q) : q[n] \in Exec
  BY <1>1
<1>5. CASE Commits(Ins(s, i).op)
  <2> DEFINE p == Tail(q)
  <2>1. InQueue(x, q)
    BY <1>1, <1>5
  <2>2. Len(q) \in Nat \ {0} /\ q # <<>>
    BY <1>1, <2>1 DEF InQueue
  <2>3. q[1] = x
    BY <1>1, <1>5, <2>2 DEF Turned
  <2>4. /\ p \in Seq(Exec) /\ Len(p) = Len(q) - 1
        /\ \A n \in 1..Len(p) : p[n] = q[n + 1] /\ n + 1 \in 1..Len(q)
    BY <1>1, <2>2
  <2>5. commitTail' = p
    BY <1>5 DEF Released
  <2> HIDE DEF p, q
  <2>6. \A n \in 1..Len(p) : p[n] # x /\ p[n] \in Exec
    <3> TAKE n \in 1..Len(p)
    <3>1. n + 1 \in 1..Len(q) /\ 1 \in 1..Len(q) /\ n + 1 # 1 /\ p[n] = q[n + 1]
      BY <2>2, <2>4
    <3>2. q[n + 1] # q[1]
      BY <1>1, <3>1 DEF Injective
    <3> QED
      BY <1>4, <2>3, <3>1, <3>2
  <2>7. Injective(p)
    <3> SUFFICES ASSUME NEW m \in 1..Len(p), NEW n \in 1..Len(p), p[m] = p[n] PROVE m = n
      BY DEF Injective
    <3>1. /\ m + 1 \in 1..Len(q) /\ q[m + 1] = p[m]
          /\ n + 1 \in 1..Len(q) /\ q[n + 1] = p[n]
      BY <2>4
    <3>2. m + 1 = n + 1
      BY <1>1, <3>1 DEF Injective
    <3> QED
      BY <3>2, <2>2, <2>4
  <2>8. \A n \in 1..Len(p) : b[p[n][1]][p[n][2]] \in Held /\ Commits(Ins(p[n][1], p[n][2]).op)
    <3>1. \A e \in Exec : e # x => b[e[1]][e[2]] = at[e[1]][e[2]]
      BY <1>2 DEF Exec
    <3> QED
      <4> TAKE n \in 1..Len(p)
      <4>1. /\ at[q[n + 1][1]][q[n + 1][2]] \in Held
            /\ Commits(Ins(q[n + 1][1], q[n + 1][2]).op) /\ p[n] = q[n + 1]
        BY <1>1, <2>4
      <4> QED
        BY <2>6, <3>1, <4>1
  <2>9. \A t \in Sub, j \in Id : b[t][j] \in Held /\ Commits(Ins(t, j).op) => InQueue(<<t, j>>, p)
    <3> SUFFICES ASSUME NEW t \in Sub, NEW j \in Id, b[t][j] \in Held, Commits(Ins(t, j).op)
                 PROVE  InQueue(<<t, j>>, p)
      OBVIOUS
    <3>1. ~(t = s /\ j = i) /\ at[t][j] \in Held
      BY <1>2, <1>3
    <3>2. PICK n \in 1..Len(q) : q[n] = <<t, j>>
      BY <1>1, <3>1 DEF InQueue
    <3>3. n # 1
      BY <2>3, <3>1, <3>2
    <3>4. n - 1 \in 1..Len(p) /\ p[n - 1] = q[n]
      BY <2>2, <2>4, <3>3
    <3> QED
      BY <3>2, <3>4 DEF InQueue
  <2>10. \A t \in Sub, j \in Id : ~(b[t][j] \in Inside /\ Commits(Ins(t, j).op))
    BY <1>1, <1>2, <1>3, <2>3
  <2> QED
    BY <2>4, <2>5, <2>7, <2>8, <2>9, <2>10 DEF CommitInv
<1>6. CASE ~Commits(Ins(s, i).op)
  <2>1. commitTail' = q
    BY <1>6 DEF Released
  <2>2. \A n \in 1..Len(q) : q[n] # x
    BY <1>1, <1>6
  <2>3. \A n \in 1..Len(q) : b[q[n][1]][q[n][2]] \in Held
    <3>1. \A e \in Exec : e # x => b[e[1]][e[2]] = at[e[1]][e[2]]
      BY <1>2 DEF Exec
    <3> QED
      BY <1>1, <1>4, <2>2, <3>1
  <2> HIDE DEF q
  <2> QED
    BY <1>1, <1>2, <1>3, <2>1, <2>3 DEF CommitInv
<1> QED
  BY <1>5, <1>6

\* The memory after an execution has settled.
LEMMA SettleMemory ==
  ASSUME IInv, NEW s \in Sub, NEW i \in Ids(s), at[s][i] \in Held, Turned(s, i),
         NEW r \in Outcomes, Settle(s, i, r), kernel' = kernel, RowsStay,
         kernel /\ r \in Good /\ Ins(s, i).opId # None => row'[Ins(s, i).opId] \in Durable
  PROVE  /\ TurnInv(at, res, joinedTo, waiters, holders, inFlight)'
         /\ CommitInv(at, commitTail)'
         /\ at' \in [Sub -> [Id -> Places]] /\ Moved(at, at', s, i, "done")
         /\ MemoryTypes' /\ AwakeInv' /\ SuccessIsComplete'
<1>0. i \in Id /\ kernel \in BOOLEAN /\ "done" \in Places
  BY Basics, Tables DEF Places
<1>1. /\ at' = Put(at, s, i, "done") /\ res' = Put(res, s, i, r)
      /\ Released(<<s, i>>) /\ inFlight' = inFlight \ {<<s, i>>} /\ wake' = wake \cup {s}
      /\ UNCHANGED <<phase, joinedTo, dig, aborted>>
  BY DEF Settle
<1>2. at' \in [Sub -> [Id -> Places]] /\ Moved(at, at', s, i, "done")
  BY <1>0, <1>1, Basics, MovedIs
<1>3. res' \in [Sub -> [Id -> Results]] /\ Moved(res, res', s, i, r)
  <2>1. r \in Results
    BY DEF Results
  <2> QED
    BY <1>0, <1>1, <2>1, Basics, MovedIs
<1>4. PlacesInv(at) /\ ResultsInv(at, res) /\ JoinsInv(at, joinedTo) /\ FlightsInv(at, inFlight) /\ StartedInv(at)
  BY DEF IInv, TurnInv
<1>5. PlacesInv(at')
  BY <1>0, <1>2, <1>4, Basics, PlacesMoved
<1>6. JoinsInv(at', joinedTo')
  BY <1>0, <1>1, <1>2, <1>4, JoinsMoved
<1>7. LocksInv(at', waiters', holders')
  BY <1>0, <1>1, <1>2, ReleaseLocks
<1>8. CommitInv(at', commitTail') /\ commitTail' \in Seq(Exec)
  BY <1>0, <1>1, <1>2, ReleaseCommit
<1>9. FlightsInv(at', inFlight')
  <2>1. \A e \in Exec : e # <<s, i>> => at'[e[1]][e[2]] = at[e[1]][e[2]]
    BY <1>2 DEF Moved, Exec
  <2> QED
    BY <1>1, <1>4, <2>1 DEF FlightsInv
<1>10. StartedInv(at')
  BY <1>2, <1>4 DEF StartedInv, Moved, Owning, Held, Inside
<1>11. ResultsInv(at, res)'
  <2>1. \A t \in Sub : \A j \in Ids(t) : Ins(t, j).opId \in OpId \cup {None}
    BY <1>0, Tables
  <2>2. \A t \in Sub, j \in Id : ~(t = s /\ j = i) => at'[t][j] = at[t][j] /\ res'[t][j] = res[t][j]
    BY <1>2, <1>3 DEF Moved
  <2>3. res'[s][i] = r
    BY <1>0, <1>3 DEF Moved
  <2>4. \A t \in Sub, j \in Id : at'[t][j] = "done" => res'[t][j] \in Outcomes
    BY <1>4, <2>2, <2>3 DEF ResultsInv
  <2>5. \A t \in Sub, j \in Id : kernel /\ j \in Ids(t) /\ res'[t][j] \in Good /\ Ins(t, j).opId # None =>
          row'[Ins(t, j).opId] \in Durable
    <3> SUFFICES ASSUME NEW t \in Sub, NEW j \in Id,
                        kernel, j \in Ids(t), res'[t][j] \in Good, Ins(t, j).opId # None
                 PROVE  row'[Ins(t, j).opId] \in Durable
      OBVIOUS
    <3>1. CASE t = s /\ j = i
      BY <2>3, <3>1
    <3>2. CASE ~(t = s /\ j = i)
      <4>1. row[Ins(t, j).opId] \in Durable
        BY <1>4, <2>2, <3>2 DEF ResultsInv, Durable
      <4> QED
        BY <2>1, <4>1 DEF RowsStay
    <3> QED
      BY <3>1, <3>2
  <2> QED
    BY <1>3, <2>4, <2>5 DEF ResultsInv, Durable, Ids, Ins
<1>12. RunsOn
  BY <1>1 DEF RunsOn
<1>13. TurnInv(at, res, joinedTo, waiters, holders, inFlight)'
  BY <1>0, <1>5, <1>6, <1>7, <1>9, <1>10, <1>11, <1>12, TurnStays
<1>14. CommitInv(at, commitTail)'
  BY <1>8, CommitStays
<1>15. phase[s] = "running"
  BY <1>0, <1>4 DEF PlacesInv, Owning
<1>16. AwakeInv' /\ MemoryTypes'
  BY <1>1, <1>8, <1>15 DEF IInv, AwakeInv, Types, MemoryTypes
<1>17. SuccessIsComplete'
  <2>1. \A t \in Sub : phase'[t] = "succeeded" => t # s
    BY <1>1, <1>15
  <2>2. \A t \in Sub : t # s => \A j \in Id : res'[t][j] = res[t][j]
    BY <1>3 DEF Moved
  <2>3. \A t \in Sub : Ids(t) \subseteq Id
    BY <1>0, Tables
  <2>4. SuccessIsComplete
    BY DEF IInv
  <2> QED
    BY <1>1, <2>1, <2>2, <2>3, <2>4 DEF SuccessIsComplete, Ids
<1> QED
  BY <1>2, <1>13, <1>14, <1>16, <1>17

\* The kernel after an execution has settled: no row is taken back, and the row
\* that ends is that of the execution.
LEMMA SettleKernel ==
  ASSUME IInv, NEW s \in Sub, NEW i \in Ids(s), at[s][i] \in Held,
         at' \in [Sub -> [Id -> Places]], Moved(at, at', s, i, "done"), dig' = dig, kernel' = kernel,
         UNCHANGED <<effects, begunBy, host>>, BoundStays, row' \in [OpId -> Rows],
         \A o \in OpId : \/ row'[o] = row[o]
                         \/ /\ kernel /\ row[o] = "open" /\ row'[o] # "none"
                            /\ begunBy[o] = <<s, i>>
  PROVE  KernelInv(at)' /\ DurableTypes' /\ HostTypes' /\ DurableOrder'
<1>0. /\ i \in Id /\ kernel \in BOOLEAN
      /\ OperationsInv(at) /\ EffectsInv(at) /\ BoundInv(at) /\ BarredInv(at)
  BY Basics, Tables DEF IInv, KernelInv
<1>1. /\ \A t \in Sub, j \in Id : ~(t = s /\ j = i) => at'[t][j] = at[t][j]
      /\ at'[s][i] = "done"
  BY <1>0 DEF Moved
<1>2. \A t \in Sub, j \in Id : at'[t][j] \in Inside => at'[t][j] = at[t][j] /\ ~(t = s /\ j = i)
  BY <1>1 DEF Inside
<1>3. \A o \in OpId : (row'[o] = "none") = (row[o] = "none")
  OBVIOUS
<1>4. \A t \in Sub, j \in Id : at'[t][j] \in Inside => j \in Ids(t) /\ at[t][j] \in Inside
  BY <1>2 DEF IInv, TurnInv, PlacesInv, Owning, Held
<1>5. OperationsInv(at)'
  <2>1. \A t \in Sub, j \in Id : at'[t][j] \in {"probing", "effected"} => kernel
    BY <1>0, <1>1, <1>2 DEF OperationsInv
  <2>2. ASSUME NEW t \in Sub, NEW j \in Id, kernel, at'[t][j] \in Inside
        PROVE  /\ at'[t][j] # "checking" /\ Ins(t, j).opId \in OpId
               /\ at'[t][j] \in {"executing", "effected"} =>
                     row'[Ins(t, j).opId] = "open" /\ begunBy[Ins(t, j).opId] = <<t, j>>
    <3>1. /\ at'[t][j] = at[t][j] /\ <<t, j>> # <<s, i>> /\ at[t][j] \in Inside
      BY <1>2, <1>4, <2>2
    <3>2. /\ at[t][j] # "checking" /\ Ins(t, j).opId \in OpId
          /\ at[t][j] \in {"executing", "effected"} =>
                row[Ins(t, j).opId] = "open" /\ begunBy[Ins(t, j).opId] = <<t, j>>
      BY <1>0, <2>2, <3>1 DEF OperationsInv
    <3> QED
      BY <3>1, <3>2
  <2>3. ASSUME NEW o \in OpId, row'[o] # "none"
        PROVE  /\ begunBy[o] \in Exec /\ begunBy[o][2] \in Ids(begunBy[o][1])
               /\ at'[begunBy[o][1]][begunBy[o][2]] \in {"executing", "effected", "done", "lost"}
    <3>1. /\ begunBy[o] \in Exec /\ begunBy[o][2] \in Ids(begunBy[o][1])
          /\ at[begunBy[o][1]][begunBy[o][2]] \in {"executing", "effected", "done", "lost"}
      BY <1>0, <1>3, <2>3 DEF OperationsInv
    <3> QED
      BY <1>1, <3>1 DEF Exec
  <2> QED
    BY <2>1, <2>2, <2>3 DEF OperationsInv, Ids, Ins
<1>6. EffectsInv(at)'
  BY <1>0, <1>2, <1>3 DEF EffectsInv, EffectOnce, Ins, Inside
<1>7. BoundInv(at)'
  <2>1. \A o \in OpId : row'[o] # "none" =>
          bound'[o] # None /\ dig[begunBy[o][1]][begunBy[o][2]] = bound'[o][3]
    BY <1>0, <1>3 DEF BoundInv, RunsOnBoundRoot, BoundStays
  <2>2. \A t \in Sub, j \in Id : at'[t][j] = "probing" =>
          bound'[Ins(t, j).opId] # None /\ dig[t][j] = bound'[Ins(t, j).opId][3]
    <3> SUFFICES ASSUME NEW t \in Sub, NEW j \in Id, at'[t][j] = "probing"
                 PROVE  bound'[Ins(t, j).opId] # None /\ dig[t][j] = bound'[Ins(t, j).opId][3]
      OBVIOUS
    <3>1. at[t][j] = "probing" /\ at[t][j] \in Inside
      BY <1>2 DEF Inside
    <3>2. kernel /\ Ins(t, j).opId \in OpId
      BY <1>0, <3>1 DEF OperationsInv
    <3> QED
      BY <1>0, <3>1, <3>2 DEF BoundInv, BoundStays
  <2> QED
    BY <2>1, <2>2 DEF BoundInv, RunsOnBoundRoot, Ins
<1>8. BarredInv(at)'
  <2>1. barred' = barred /\ capOK' = capOK /\ barred \subseteq OpId
    BY DEF host, IInv, Types, HostTypes
  <2> QED
    BY <1>0, <1>1, <1>3, <2>1 DEF BarredInv, Ins
<1>9. DurableTypes' /\ HostTypes'
  BY DEF IInv, Types, DurableTypes, HostTypes, host, BoundStays
<1>10. RowsStay
  BY DEF RowsStay, Durable
<1>11. DurableOrder'
  BY <1>3, <1>10, OrderStays DEF DurableOrder
<1> QED
  BY <1>5, <1>6, <1>7, <1>8, <1>9, <1>11 DEF KernelInv, Types

\* An execution that settles keeps the invariant.
LEMMA SettleKeeps ==
  ASSUME IInv, NEW s \in Sub, NEW i \in Ids(s), at[s][i] \in Held, Turned(s, i),
         NEW r \in Outcomes, Settle(s, i, r), kernel' = kernel,
         UNCHANGED <<effects, begunBy, host>>, BoundStays, row' \in [OpId -> Rows],
         \A o \in OpId : \/ row'[o] = row[o]
                         \/ /\ kernel /\ row[o] = "open" /\ row'[o] # "none"
                            /\ begunBy[o] = <<s, i>>,
         kernel /\ r \in Good /\ Ins(s, i).opId # None => row'[Ins(s, i).opId] \in Durable
  PROVE  IInv'
<1>1. RowsStay
  BY DEF RowsStay, Durable
<1>2. dig' = dig
  BY DEF Settle
<1>3. /\ TurnInv(at, res, joinedTo, waiters, holders, inFlight)'
      /\ CommitInv(at, commitTail)'
      /\ at' \in [Sub -> [Id -> Places]] /\ Moved(at, at', s, i, "done")
      /\ MemoryTypes' /\ AwakeInv' /\ SuccessIsComplete'
  BY <1>1, SettleMemory
<1>4. KernelInv(at)' /\ DurableTypes' /\ HostTypes' /\ DurableOrder'
  BY <1>2, <1>3, SettleKernel
<1> QED
  BY <1>3, <1>4 DEF IInv, Types

\* Who is past the commit queue is its head.
LEMMA InsideTurned ==
  ASSUME IInv, NEW s \in Sub, NEW i \in Id, at[s][i] \in Inside
  PROVE  Turned(s, i) /\ at[s][i] \in Held
<1>1. at[s][i] \in Held
  BY DEF Held
<1>2. ASSUME Commits(Ins(s, i).op) PROVE Head(commitTail) = <<s, i>>
  <2>1. InQueue(<<s, i>>, commitTail) /\ commitTail[1] = <<s, i>> /\ commitTail \in Seq(Exec)
    BY <1>1, <1>2, Basics DEF IInv, CommitInv
  <2>2. commitTail # <<>>
    BY <2>1 DEF InQueue
  <2> QED
    BY <2>1, <2>2
<1> QED
  BY <1>1, <1>2 DEF Turned

\* Who holds its resources may go on.
LEMMA LocksStep ==
  ASSUME IInv, NEW s \in Sub, NEW i \in Id, at[s][i] \in Owning, <<s, i>> \in holders,
         NEW b \in [Sub -> [Id -> Places]], NEW p \in Held, Moved(at, b, s, i, p)
  PROVE  LocksInv(b, waiters, holders) /\ FlightsInv(b, inFlight)
<1>1. LocksInv(at, waiters, holders) /\ FlightsInv(at, inFlight)
  BY DEF IInv, TurnInv
<1>2. \A e \in Exec : e # <<s, i>> => b[e[1]][e[2]] = at[e[1]][e[2]]
  BY DEF Moved, Exec
<1>3. b[s][i] = p /\ p \in Owning
  BY DEF Moved, Owning
<1>4. \A n \in 1..Len(waiters) : waiters[n] \in Exec /\ waiters[n] # <<s, i>>
  BY <1>1 DEF LocksInv
<1>5. \A e \in Exec : at[e[1]][e[2]] \in Owning => b[e[1]][e[2]] \in Owning
  <2> TAKE e \in Exec
  <2>1. CASE e = <<s, i>>
    BY <1>3, <2>1
  <2>2. CASE e # <<s, i>>
    BY <1>2, <2>2
  <2> QED
    BY <2>1, <2>2
<1>6. \A t \in Sub, j \in Id : b[t][j] \in Held => <<t, j>> \in holders
  BY <1>1 DEF LocksInv, Moved
<1>7. LocksInv(b, waiters, holders)
  BY <1>1, <1>2, <1>4, <1>5, <1>6 DEF LocksInv
<1>8. FlightsInv(b, inFlight)
  BY <1>1, <1>5 DEF FlightsInv
<1> QED
  BY <1>7, <1>8

\* The memory when an execution goes on with its resources.
LEMMA StepMemory ==
  ASSUME IInv, NEW s \in Sub, NEW i \in Ids(s), at[s][i] \in Owning, <<s, i>> \in holders,
         NEW p \in Held, at' = Put(at, s, i, p), kernel' = kernel, RowsStay,
         UNCHANGED <<phase, res, joinedTo, waiters, holders, inFlight, aborted, wake>>
  PROVE  /\ TurnInv(at, res, joinedTo, waiters, holders, inFlight)'
         /\ at' \in [Sub -> [Id -> Places]] /\ Moved(at, at', s, i, p)
         /\ AwakeInv' /\ SuccessIsComplete'
<1>0. i \in Id /\ kernel \in BOOLEAN /\ p \in Places
  BY Basics, Tables DEF Places, Owning
<1>1. at' \in [Sub -> [Id -> Places]] /\ Moved(at, at', s, i, p)
  BY <1>0, Basics, MovedIs
<1>2. PlacesInv(at) /\ ResultsInv(at, res) /\ JoinsInv(at, joinedTo) /\ StartedInv(at)
  BY DEF IInv, TurnInv
<1>3. phase[s] = "running"
  BY <1>0, <1>2 DEF PlacesInv
<1>4. PlacesInv(at')
  BY <1>0, <1>1, <1>2, <1>3, Basics, PlacesMoved
<1>5. JoinsInv(at', joinedTo')
  <2>1. p # "joined"
    BY DEF Held, Inside
  <2> QED
    BY <1>0, <1>1, <1>2, <2>1, JoinsMoved
<1>6. LocksInv(at', waiters', holders') /\ FlightsInv(at', inFlight')
  BY <1>0, <1>1, LocksStep
<1>7. StartedInv(at')
  BY <1>1, <1>2 DEF StartedInv, Moved
<1>8. ResultsInv(at', res')
  <2>1. \A t \in Sub, j \in Id : at'[t][j] = "done" => at[t][j] = "done"
    BY <1>1 DEF Moved, Held, Inside
  <2> QED
    BY <1>2, <2>1 DEF ResultsInv
<1>9. ResultsInv(at, res)' /\ RunsOn
  BY <1>0, <1>8, ResultsStay DEF RunsOn
<1>10. TurnInv(at, res, joinedTo, waiters, holders, inFlight)'
  BY <1>0, <1>4, <1>5, <1>6, <1>7, <1>9, TurnStays
<1>11. AwakeInv' /\ SuccessIsComplete'
  BY DEF IInv, AwakeInv, SuccessIsComplete, Ids
<1> QED
  BY <1>1, <1>10, <1>11

\* The commit queue when its head goes on inside.
LEMMA StepCommit ==
  ASSUME IInv, NEW s \in Sub, NEW i \in Id, at[s][i] \in Held, Turned(s, i), NEW p \in Inside,
         at' \in [Sub -> [Id -> Places]], Moved(at, at', s, i, p), UNCHANGED <<kernel, commitTail>>
  PROVE  CommitInv(at, commitTail)'
<1> DEFINE q == commitTail
<1>1. /\ q \in Seq(Exec) /\ Injective(q)
      /\ \A n \in 1..Len(q) : at[q[n][1]][q[n][2]] \in Held
      /\ \A t \in Sub, j \in Id : at[t][j] \in Held /\ Commits(Ins(t, j).op) => InQueue(<<t, j>>, q)
      /\ \A t \in Sub, j \in Id : at[t][j] \in Inside /\ Commits(Ins(t, j).op) => q[1] = <<t, j>>
      /\ \A n \in 1..Len(q) : Commits(Ins(q[n][1], q[n][2]).op)
  BY Basics DEF IInv, CommitInv
<1>2. at'[s][i] = p /\ p \in Held /\ \A t \in Sub, j \in Id : ~(t = s /\ j = i) => at'[t][j] = at[t][j]
  BY DEF Moved, Held
<1>3. Commits(Ins(s, i).op) => q[1] = <<s, i>>
  <2> SUFFICES ASSUME Commits(Ins(s, i).op) PROVE q[1] = <<s, i>>
    OBVIOUS
  <2>1. InQueue(<<s, i>>, q)
    BY <1>1
  <2>2. q # <<>>
    BY <1>1, <2>1 DEF InQueue
  <2> QED
    BY <1>1, <2>2 DEF Turned
<1>4. \A n \in 1..Len(q) : at'[q[n][1]][q[n][2]] \in Held
  <2>1. \A e \in Exec : at[e[1]][e[2]] \in Held => at'[e[1]][e[2]] \in Held
    BY <1>2 DEF Exec
  <2>2. \A n \in 1..Len(q) : q[n] \in Exec
    BY <1>1
  <2> QED
    BY <1>1, <2>1, <2>2
<1>5. \A t \in Sub, j \in Id : at'[t][j] \in Held => at[t][j] \in Held
  BY <1>2
<1>6. \A t \in Sub, j \in Id : at'[t][j] \in Inside /\ Commits(Ins(t, j).op) => q[1] = <<t, j>>
  BY <1>1, <1>2, <1>3
<1>7. CommitInv(at', commitTail')
  BY <1>1, <1>4, <1>5, <1>6 DEF CommitInv
<1> QED
  BY <1>7, CommitStays

\* Nobody begins an operation, takes effect or comes near the kernel.
Quiet ==
    \A t \in Sub, j \in Id :
        \/ at'[t][j] = at[t][j]
        \/ at'[t][j] = "lost"
        \/ /\ at[t][j] \notin {"executing", "effected", "done", "lost"}
           /\ at'[t][j] \notin {"probing", "effected"}
           /\ kernel => at'[t][j] \notin Inside

\* The kernel when nobody comes near it.
LEMMA QuietKernel ==
  ASSUME IInv, at' \in [Sub -> [Id -> Places]], Quiet, BoundStays,
         UNCHANGED <<kernel, row, effects, begunBy, dig>>
  PROVE  OperationsInv(at)' /\ EffectsInv(at)' /\ BoundInv(at)' /\ DurableTypes' /\ DurableOrder'
<1>0. /\ kernel \in BOOLEAN
      /\ OperationsInv(at) /\ EffectsInv(at) /\ BoundInv(at)
  BY Basics DEF IInv, KernelInv
<1>1. \A t \in Sub, j \in Id : kernel /\ at'[t][j] \in Inside => at'[t][j] = at[t][j]
  BY DEF Quiet, Inside
<1>2. \A t \in Sub, j \in Id : at'[t][j] \in {"probing", "effected"} => at'[t][j] = at[t][j]
  BY DEF Quiet
<1>3. OperationsInv(at)'
  <2>1. \A t \in Sub, j \in Id : at'[t][j] \in {"probing", "effected"} => kernel
    BY <1>0, <1>2 DEF OperationsInv
  <2>2. \A t \in Sub, j \in Id : kernel /\ at'[t][j] \in Inside =>
               /\ at'[t][j] # "checking" /\ Ins(t, j).opId \in OpId
               /\ at'[t][j] \in {"executing", "effected"} =>
                     row[Ins(t, j).opId] = "open" /\ begunBy[Ins(t, j).opId] = <<t, j>>
    BY <1>0, <1>1 DEF OperationsInv
  <2>3. ASSUME NEW o \in OpId, row[o] # "none"
        PROVE  /\ begunBy[o] \in Exec /\ begunBy[o][2] \in Ids(begunBy[o][1])
               /\ at'[begunBy[o][1]][begunBy[o][2]] \in {"executing", "effected", "done", "lost"}
    <3>1. /\ begunBy[o] \in Exec /\ begunBy[o][2] \in Ids(begunBy[o][1])
          /\ at[begunBy[o][1]][begunBy[o][2]] \in {"executing", "effected", "done", "lost"}
      BY <1>0, <2>3 DEF OperationsInv
    <3> QED
      BY <3>1 DEF Exec, Quiet
  <2> QED
    BY <2>1, <2>2, <2>3 DEF OperationsInv, Ids, Ins
<1>4. EffectsInv(at)'
  <2>1. \A t \in Sub, j \in Id : kernel /\ at'[t][j] = "executing" => at[t][j] = "executing"
    BY <1>1 DEF Inside
  <2> QED
    BY <1>0, <2>1 DEF EffectsInv, EffectOnce, Ins
<1>5. BoundInv(at)'
  <2>1. \A o \in OpId : row[o] # "none" =>
          bound'[o] # None /\ dig[begunBy[o][1]][begunBy[o][2]] = bound'[o][3]
    BY <1>0 DEF BoundInv, RunsOnBoundRoot, BoundStays
  <2>2. \A t \in Sub, j \in Id : at'[t][j] = "probing" =>
          bound'[Ins(t, j).opId] # None /\ dig[t][j] = bound'[Ins(t, j).opId][3]
    <3> SUFFICES ASSUME NEW t \in Sub, NEW j \in Id, at'[t][j] = "probing"
                 PROVE  bound'[Ins(t, j).opId] # None /\ dig[t][j] = bound'[Ins(t, j).opId][3]
      OBVIOUS
    <3>1. at[t][j] = "probing" /\ at[t][j] \in Inside
      BY <1>2 DEF Inside
    <3>2. kernel /\ Ins(t, j).opId \in OpId
      BY <1>0, <3>1 DEF OperationsInv
    <3> QED
      BY <1>0, <3>1, <3>2 DEF BoundInv, BoundStays
  <2> QED
    BY <2>1, <2>2 DEF BoundInv, RunsOnBoundRoot, Ins
<1>6. DurableTypes'
  BY DEF IInv, Types, DurableTypes, BoundStays
<1>7. DurableOrder'
  <2>1. RowsStay
    BY DEF RowsStay
  <2> QED
    BY <2>1, OrderStays DEF DurableOrder
<1> QED
  BY <1>3, <1>4, <1>5, <1>6, <1>7

\* A revoked capability bars the same operations as before.
LEMMA QuietBarred ==
  ASSUME IInv, UNCHANGED <<kernel, row, capOK, barred>>,
         \A t \in Sub, j \in Id : at'[t][j] = "probing" => at[t][j] = "probing"
  PROVE  BarredInv(at)'
BY DEF IInv, KernelInv, BarredInv, Ins

\* The memory when nothing of it changes but the phase of who was not running.
LEMMA SameMemory ==
  ASSUME IInv, UNCHANGED <<kernel, at, res, joinedTo, waiters, holders, inFlight, commitTail>>, RowsStay, RunsOn
  PROVE  /\ TurnInv(at, res, joinedTo, waiters, holders, inFlight)' /\ CommitInv(at, commitTail)'
         /\ at' \in [Sub -> [Id -> Places]] /\ Quiet
<1>0. kernel \in BOOLEAN /\ at' \in [Sub -> [Id -> Places]]
  BY Basics
<1>1. /\ PlacesInv(at') /\ JoinsInv(at', joinedTo') /\ LocksInv(at', waiters', holders')
      /\ FlightsInv(at', inFlight') /\ StartedInv(at') /\ ResultsInv(at', res')
      /\ CommitInv(at', commitTail')
  BY DEF IInv, TurnInv
<1>2. ResultsInv(at, res)'
  BY <1>0, <1>1, ResultsStay
<1> QED
  BY <1>0, <1>1, <1>2, TurnStays, CommitStays DEF Quiet

-----------------------------------------------------------------------------
(* Actions *)

\* The pipeline starts empty.
LEMMA InvInit ==
  ASSUME Init
  PROVE  IInv
<1>1. Types /\ AwakeInv /\ DurableOrder /\ SuccessIsComplete
  BY DEF Init, Types, DurableTypes, HostTypes, MemoryTypes, AwakeInv, DurableOrder,
     SuccessIsComplete,
         Rows, Phases
<1>2. \A s \in Sub, i \in Id : at[s][i] = "pending" /\ res[s][i] = None
  BY DEF Init
<1>3. "pending" \notin Owning \cup {"joined"} /\ "pending" \in Places
  BY DEF Owning, Held, Inside, Places
<1>4. PlacesInv(at) /\ JoinsInv(at, joinedTo) /\ StartedInv(at)
  BY <1>2, <1>3 DEF Init, PlacesInv, JoinsInv, StartedInv
<1>5. ResultsInv(at, res)
  <2>1. None \notin Good
    BY IsaAssumption DEF Good
  <2> QED
    BY <1>2, <2>1 DEF Init, ResultsInv, Results
<1>6. LocksInv(at, waiters, holders) /\ FlightsInv(at, inFlight) /\ CommitInv(at, commitTail)
  BY <1>2, <1>3 DEF Init, LocksInv, FlightsInv, CommitInv, Injective, Owning, Held,
     Inside
<1>7. KernelInv(at)
  BY <1>2 DEF Init, KernelInv, OperationsInv, EffectsInv, EffectOnce, BoundInv,
     RunsOnBoundRoot,
              BarredInv, Inside
<1> QED
  BY <1>1, <1>4, <1>5, <1>6, <1>7 DEF IInv, TurnInv

\* Submit: an idle submission runs or is rejected, and bindings grow.
LEMMA SubmitKeeps ==
  ASSUME IInv, NEW s \in Sub, Submit(s)
  PROVE  IInv'
<1>0. kernel \in BOOLEAN /\ DOMAIN bound = OpId /\ root \in Root /\ phase \in [Sub -> Phases]
  BY Basics DEF IInv, Types, DurableTypes, HostTypes
<1>1. /\ phase[s] = "idle"
      /\ UNCHANGED <<kernel, row, effects, begunBy, at, res, joinedTo, dig, waiters, holders, commitTail,
                     inFlight, aborted>>
      /\ UNCHANGED <<capOK, barred, root>>
  BY DEF Submit, host, coordinator
<1>2. BoundStays
  <2>1. bound' = bound \/ bound' = AdmitAll(s).bound
    BY DEF Submit
  <2> QED
    BY <1>0, <2>1, AdmitFacts DEF BoundStays
<1>3. PICK p \in {"running", "rejected"} :
        /\ phase' = [phase EXCEPT ![s] = p]
        /\ wake' = wake \/ (p = "running" /\ wake' = wake \cup {s})
  BY DEF Submit
<1>4. /\ phase' \in [Sub -> Phases] /\ phase'[s] = p
      /\ \A t \in Sub : t # s => phase'[t] = phase[t]
  BY <1>0, <1>3 DEF Phases
<1>5. RowsStay /\ RunsOn
  BY <1>1, <1>4 DEF RowsStay, RunsOn
<1>6. /\ TurnInv(at, res, joinedTo, waiters, holders, inFlight)' /\ CommitInv(at, commitTail)'
      /\ at' \in [Sub -> [Id -> Places]] /\ Quiet
  BY <1>1, <1>5, SameMemory
<1>7. OperationsInv(at)' /\ EffectsInv(at)' /\ BoundInv(at)' /\ DurableTypes' /\ DurableOrder'
  BY <1>1, <1>2, <1>6, QuietKernel
<1>8. BarredInv(at)'
  BY <1>1, QuietBarred
<1>9. HostTypes' /\ MemoryTypes'
  BY <1>1, <1>3, <1>4 DEF IInv, Types, HostTypes, MemoryTypes
<1>10. AwakeInv'
  BY <1>1, <1>3, <1>4 DEF IInv, AwakeInv
<1>11. SuccessIsComplete'
  <2>1. \A t \in Sub : phase'[t] = "succeeded" => phase[t] = "succeeded"
    BY <1>1, <1>4
  <2> QED
    BY <1>1, <2>1 DEF IInv, SuccessIsComplete, Ids
<1> QED
  BY <1>6, <1>7, <1>8, <1>9, <1>10, <1>11 DEF IInv, Types, KernelInv

\* Turn: the loop launches, joins and skips; it ends when nothing is left.
LEMMA TurnKeeps ==
  ASSUME IInv, NEW s \in Sub, Turn(s)
  PROVE  IInv'
<1>0. kernel \in BOOLEAN /\ phase \in [Sub -> Phases] /\ phase[s] = "running"
      /\ Ids(s) \subseteq Id
  BY Basics, Tables DEF IInv, AwakeInv, Turn
<1> DEFINE g == AfterTurn(s)
           rest == { i \in Ids(s) : g.at[s][i] = "pending" }
<1>1. TurnOK(g, s)
  BY <1>0, TurnFacts DEF IInv
<1>2. /\ at' = g.at /\ res' = g.res /\ joinedTo' = g.joinedTo
      /\ waiters' = g.waiters /\ holders' = g.holders /\ inFlight' = g.inFlight
      /\ phase' = IF Active(g, s) # {} \/ rest # {} THEN phase
                  ELSE [phase EXCEPT ![s] = finalStatus({ g.res[s][i] : i \in Ids(s) })]
      /\ wake' = IF Active(g, s) = {} /\ rest # {} THEN wake ELSE wake \ {s}
      /\ UNCHANGED <<kernel, bound, row, effects, begunBy, capOK, root, barred, dig, commitTail, aborted>>
  BY DEF Turn, durable, host
<1> HIDE DEF g
<1>3. /\ g \in TurnState
      /\ TurnInv(at', res', joinedTo', waiters', holders', inFlight')
      /\ \A t \in Sub, i \in Id :
          \/ at'[t][i] = at[t][i]
          \/ t = s /\ at[t][i] = "pending" /\ at'[t][i] \in {"acquiring", "joined", "done"}
      /\ \A t \in Sub, i \in Id : res'[t][i] = res[t][i] \/ t = s
  BY <1>1, <1>2 DEF TurnOK
<1>4. at' \in [Sub -> [Id -> Places]]
  BY <1>2, <1>3 DEF TurnState
<1>5. Quiet /\ BoundStays /\ RowsStay
  <2>1. Quiet
    BY <1>3 DEF Quiet, Inside
  <2>2. BoundStays /\ RowsStay
    BY <1>2 DEF IInv, Types, DurableTypes, BoundStays, RowsStay
  <2> QED
    BY <2>1, <2>2
<1>6. OperationsInv(at)' /\ EffectsInv(at)' /\ BoundInv(at)' /\ DurableTypes' /\ DurableOrder'
  BY <1>2, <1>4, <1>5, QuietKernel
<1>7. BarredInv(at)'
  <2>1. \A t \in Sub, j \in Id : at'[t][j] = "probing" => at[t][j] = "probing"
    BY <1>3
  <2> QED
    BY <1>2, <2>1, QuietBarred
<1>8. CommitInv(at, commitTail)'
  <2>1. \A t \in Sub, j \in Id : /\ at'[t][j] \in Held <=> at[t][j] \in Held
                                 /\ at'[t][j] \in Inside => at[t][j] \in Inside
    BY <1>3 DEF Held, Inside
  <2>2. \A n \in 1..Len(commitTail) : at'[commitTail[n][1]][commitTail[n][2]] \in Held
    <3>1. \A n \in 1..Len(commitTail) : commitTail[n] \in Exec /\ at[commitTail[n][1]][commitTail[n][2]] \in Held
      BY Basics DEF IInv, CommitInv
    <3> QED
      BY <2>1, <3>1 DEF Exec
  <2>3. CommitInv(at', commitTail')
    BY <1>2, <2>1, <2>2 DEF IInv, CommitInv
  <2> QED
    BY <1>2, <2>3, CommitStays
<1>10. ASSUME Active(g, s) = {}, rest = {}
       PROVE  \A i \in Id : at'[s][i] \notin Owning \cup {"joined"}
  <2>1. \A i \in Ids(s) : at'[s][i] = "done"
    BY <1>2, <1>10 DEF Active
  <2>2. \A i \in Id : at'[s][i] \in Owning \cup {"joined"} => i \in Ids(s)
    BY <1>3 DEF TurnInv, PlacesInv
  <2> QED
    BY <2>1, <2>2 DEF Owning, Held, Inside
<1>11. \A t \in Sub : t # s => phase'[t] = phase[t]
  BY <1>0, <1>2
<1>12. RunsOn
  <2>1. CASE Active(g, s) # {} \/ rest # {}
    BY <1>2, <2>1 DEF RunsOn
  <2>2. CASE Active(g, s) = {} /\ rest = {}
    BY <1>10, <1>11, <2>2 DEF RunsOn
  <2> QED
    BY <2>1, <2>2
<1>13. TurnInv(at, res, joinedTo, waiters, holders, inFlight)'
  <2>1. ResultsInv(at, res)'
    BY <1>0, <1>2, <1>3, <1>5, ResultsStay DEF TurnInv
  <2> QED
    BY <1>0, <1>2, <1>3, <1>5, <1>12, <2>1, TurnStays DEF TurnInv
<1>14. phase' \in [Sub -> Phases]
  BY <1>0, <1>2 DEF finalStatus, Phases
<1>15. HostTypes' /\ MemoryTypes'
  BY <1>2, <1>14 DEF IInv, Types, HostTypes, MemoryTypes
<1>16. AwakeInv'
  <2>1. \A t \in wake' : t \in wake /\ (t = s => phase' = phase)
    BY <1>2
  <2>2. wake \subseteq Sub
    BY DEF IInv, Types, MemoryTypes
  <2> QED
    BY <1>11, <2>1, <2>2 DEF IInv, AwakeInv
<1>17. SuccessIsComplete'
  <2> SUFFICES ASSUME NEW t \in Sub, phase'[t] = "succeeded", NEW i \in Ids(t)
               PROVE  res'[t][i] \in Good
    BY <1>2 DEF SuccessIsComplete, Good, Ids
  <2>0. Ids(t) \subseteq Id
    BY <1>0, Tables
  <2>1. CASE t # s
    BY <1>3, <1>11, <2>0, <2>1 DEF IInv, SuccessIsComplete, Good
  <2>2. CASE t = s
    <3>1. Active(g, s) = {} /\ rest = {}
      BY <1>0, <1>2, <2>2
    <3> DEFINE rs == { g.res[s][k] : k \in Ids(s) }
    <3>2. phase'[s] = finalStatus(rs)
      BY <1>0, <1>2, <3>1
    <3>3. "indeterminate" \notin rs /\ "failed" \notin rs /\ "partial" \notin rs /\ "cancelled" \notin rs
      <4> HIDE DEF rs
      <4> QED
        BY <2>2, <3>2 DEF finalStatus
    <3>4. res'[s][i] \in rs
      BY <1>2, <2>2
    <3>5. at'[s][i] = "done"
      BY <1>2, <2>2, <3>1 DEF Active
    <3>6. res'[s][i] \in Outcomes
      BY <1>3, <2>0, <2>2, <3>5 DEF TurnInv, ResultsInv
    <3> HIDE DEF rs
    <3> QED
      BY <2>2, <3>3, <3>4, <3>6 DEF Outcomes, Good
  <2> QED
    BY <2>1, <2>2
<1> QED
  BY <1>6, <1>7, <1>8, <1>13, <1>15, <1>16, <1>17 DEF IInv, Types, KernelInv


\* Granted: a writer lines up in the commit queue.
LEMMA GrantedKeeps ==
  ASSUME IInv, NEW s \in Sub, NEW i \in Ids(s), Granted(s, i)
  PROVE  IInv'
<1>0. i \in Id /\ kernel \in BOOLEAN /\ "queued" \in Held /\ at[s][i] \in Owning
  BY Basics, Tables DEF Held, Owning, Granted
<1>1. /\ at[s][i] = "acquiring" /\ <<s, i>> \in holders /\ at' = Put(at, s, i, "queued")
      /\ commitTail' = IF Commits(Ins(s, i).op) THEN Append(commitTail, <<s, i>>) ELSE commitTail
      /\ UNCHANGED <<kernel, bound, row, effects, begunBy, capOK, root, barred>>
      /\ UNCHANGED <<phase, res, joinedTo, dig, waiters, holders, inFlight, aborted, wake>>
  BY DEF Granted, durable, host
<1>2. RowsStay /\ BoundStays
  BY <1>1 DEF RowsStay, BoundStays, IInv, Types, DurableTypes
<1>3. /\ TurnInv(at, res, joinedTo, waiters, holders, inFlight)'
      /\ at' \in [Sub -> [Id -> Places]] /\ Moved(at, at', s, i, "queued")
      /\ AwakeInv' /\ SuccessIsComplete'
  BY <1>0, <1>1, <1>2, StepMemory
<1>4. Quiet /\ \A t \in Sub, j \in Id : at'[t][j] = "probing" => at[t][j] = "probing"
  BY <1>1, <1>3 DEF Quiet, Moved, Inside
<1>5. OperationsInv(at)' /\ EffectsInv(at)' /\ BoundInv(at)' /\ DurableTypes' /\ DurableOrder'
  BY <1>1, <1>2, <1>3, <1>4, QuietKernel
<1>6. BarredInv(at)'
  BY <1>1, <1>4, QuietBarred
<1> DEFINE q == commitTail
           p == commitTail'
           x == <<s, i>>
<1>7. /\ q \in Seq(Exec) /\ Injective(q)
      /\ \A n \in 1..Len(q) : q[n] \in Exec /\ at[q[n][1]][q[n][2]] \in Held
      /\ \A t \in Sub, j \in Id : at[t][j] \in Held /\ Commits(Ins(t, j).op) => InQueue(<<t, j>>, q)
      /\ \A t \in Sub, j \in Id : at[t][j] \in Inside /\ Commits(Ins(t, j).op) => q[1] = <<t, j>>
      /\ \A n \in 1..Len(q) : Commits(Ins(q[n][1], q[n][2]).op)
  BY Basics DEF IInv, CommitInv
<1>8. at'[s][i] = "queued" /\ \A t \in Sub, j \in Id : ~(t = s /\ j = i) => at'[t][j] = at[t][j]
  BY <1>0, <1>3 DEF Moved
<1>9. x \in Exec /\ \A n \in 1..Len(q) : q[n] # x /\ at'[q[n][1]][q[n][2]] \in Held
  <2>1. at[s][i] \notin Held
    BY <1>1 DEF Held, Inside
  <2> QED
    BY <1>0, <1>7, <1>8, <2>1 DEF Exec
<1>10. \A t \in Sub, j \in Id : at'[t][j] \in Inside => at[t][j] \in Inside /\ at[t][j] \in Held
  BY <1>8 DEF Inside, Held
<1>11. CommitInv(at', p) /\ p \in Seq(Exec)
  <2>1. CASE ~Commits(Ins(s, i).op)
    <3>1. p = q
      BY <1>1, <2>1
    <3>2. \A t \in Sub, j \in Id : at'[t][j] \in Held /\ Commits(Ins(t, j).op) => InQueue(<<t, j>>, q)
      BY <1>7, <1>8, <2>1
    <3>3. \A t \in Sub, j \in Id : at'[t][j] \in Inside /\ Commits(Ins(t, j).op) => q[1] = <<t, j>>
      BY <1>7, <1>10
    <3>4. CommitInv(at', q)
      BY <1>7, <1>9, <3>2, <3>3 DEF CommitInv
    <3> QED
      BY <1>7, <3>1, <3>4
  <2>2. CASE Commits(Ins(s, i).op)
    <3>1. /\ p \in Seq(Exec) /\ Len(p) = Len(q) + 1 /\ Len(q) \in Nat
          /\ \A n \in 1..Len(q) : p[n] = q[n] /\ n \in 1..Len(p)
          /\ p[Len(q) + 1] = x /\ Len(q) + 1 \in 1..Len(p)
      <4> HIDE DEF x
      <4> QED
        BY <1>1, <1>7, <1>9, <2>2 DEF x
    <3>2. \A n \in 1..Len(p) : n = Len(q) + 1 \/ n \in 1..Len(q)
      BY <3>1
    <3> HIDE DEF p, q, x
    <3>3. Injective(p)
      BY <1>7, <1>9, <3>1, <3>2 DEF Injective
    <3>4. \A n \in 1..Len(p) : at'[p[n][1]][p[n][2]] \in Held /\ Commits(Ins(p[n][1], p[n][2]).op)
      <4> TAKE n \in 1..Len(p)
      <4>1. CASE n = Len(q) + 1
        BY <1>0, <1>8, <2>2, <3>1, <4>1 DEF x
      <4>2. CASE n \in 1..Len(q)
        BY <1>7, <1>9, <3>1, <4>2
      <4> QED
        BY <3>2, <4>1, <4>2
    <3>5. \A t \in Sub, j \in Id : at'[t][j] \in Held /\ Commits(Ins(t, j).op) => InQueue(<<t, j>>, p)
      <4> SUFFICES ASSUME NEW t \in Sub, NEW j \in Id, at'[t][j] \in Held, Commits(Ins(t, j).op)
                   PROVE  InQueue(<<t, j>>, p)
        OBVIOUS
      <4>1. CASE t = s /\ j = i
        BY <3>1, <4>1 DEF InQueue, x
      <4>2. CASE ~(t = s /\ j = i)
        <5>1. InQueue(<<t, j>>, q)
          BY <1>7, <1>8, <4>2
        <5> QED
          BY <3>1, <5>1 DEF InQueue
      <4> QED
        BY <4>1, <4>2
    <3>6. \A t \in Sub, j \in Id : at'[t][j] \in Inside /\ Commits(Ins(t, j).op) => p[1] = <<t, j>>
      <4> SUFFICES ASSUME NEW t \in Sub, NEW j \in Id, at'[t][j] \in Inside, Commits(Ins(t, j).op)
                   PROVE  p[1] = <<t, j>>
        OBVIOUS
      <4>1. q[1] = <<t, j>> /\ InQueue(<<t, j>>, q)
        BY <1>7, <1>10
      <4>2. 1 \in 1..Len(q)
        BY <3>1, <4>1 DEF InQueue
      <4> QED
        BY <3>1, <4>1, <4>2
    <3> QED
      BY <3>1, <3>3, <3>4, <3>5, <3>6 DEF CommitInv
  <2> QED
    BY <2>1, <2>2
<1>12. CommitInv(at, commitTail)'
  BY <1>1, <1>11, CommitStays
<1>13. HostTypes' /\ MemoryTypes'
  BY <1>1, <1>11 DEF IInv, Types, HostTypes, MemoryTypes
<1> QED
  BY <1>3, <1>5, <1>6, <1>12, <1>13 DEF IInv, Types, KernelInv

\* A step inside: the parts that do not depend on the kernel.
LEMMA InsideKeeps ==
  ASSUME IInv, NEW s \in Sub, NEW i \in Ids(s), at[s][i] \in Held, Turned(s, i), NEW p \in Inside,
         at' = Put(at, s, i, p), kernel' = kernel, RowsStay,
         UNCHANGED <<phase, res, joinedTo, waiters, holders, commitTail, inFlight, aborted, wake>>,
         dig' \in [Sub -> [Id -> Root \cup {None}]],
         KernelInv(at)', DurableTypes', HostTypes', DurableOrder'
  PROVE  IInv'
<1>0. i \in Id /\ kernel \in BOOLEAN /\ p \in Held /\ at[s][i] \in Owning
  BY Basics, Tables DEF Held, Owning
<1>1. <<s, i>> \in holders
  BY <1>0 DEF IInv, TurnInv, LocksInv
<1>2. /\ TurnInv(at, res, joinedTo, waiters, holders, inFlight)'
      /\ at' \in [Sub -> [Id -> Places]] /\ Moved(at, at', s, i, p)
      /\ AwakeInv' /\ SuccessIsComplete'
  BY <1>0, <1>1, StepMemory
<1>3. CommitInv(at, commitTail)'
  BY <1>0, <1>2, StepCommit
<1>4. MemoryTypes'
  BY DEF IInv, Types, MemoryTypes
<1> QED
  BY <1>2, <1>3, <1>4 DEF IInv, Types

\* With the executor of a host no operation is near.
LEMMA HostStepKeeps ==
  ASSUME IInv, NEW s \in Sub, NEW i \in Ids(s), at[s][i] \in {"queued", "checking"}, Turned(s, i),
         NEW p \in {"checking", "executing"}, at' = Put(at, s, i, p), ~kernel,
         UNCHANGED <<kernel, durable, host>>,
         UNCHANGED <<phase, res, joinedTo, dig, waiters, holders, commitTail, inFlight, aborted, wake>>
  PROVE  IInv'
<1>0. i \in Id /\ kernel \in BOOLEAN /\ p \in Inside /\ p \in Places /\ at[s][i] \in Held
  BY Basics, Tables DEF Held, Inside, Owning, Places
<1>1. at' \in [Sub -> [Id -> Places]] /\ Moved(at, at', s, i, p)
  BY <1>0, Basics, MovedIs
<1>2. Quiet /\ \A t \in Sub, j \in Id : at'[t][j] = "probing" => at[t][j] = "probing"
  BY <1>1 DEF Quiet, Moved
<1>3. RowsStay /\ BoundStays /\ UNCHANGED <<row, effects, begunBy, capOK, barred, root>>
  BY DEF RowsStay, BoundStays, IInv, Types, DurableTypes, durable, host
<1>4. OperationsInv(at)' /\ EffectsInv(at)' /\ BoundInv(at)' /\ DurableTypes' /\ DurableOrder'
  BY <1>1, <1>2, <1>3, QuietKernel
<1>5. BarredInv(at)'
  BY <1>2, <1>3, QuietBarred
<1>6. HostTypes' /\ dig' \in [Sub -> [Id -> Root \cup {None}]]
  BY <1>3, Basics DEF IInv, Types, HostTypes
<1> QED
  BY <1>0, <1>3, <1>4, <1>5, <1>6, InsideKeeps DEF KernelInv

\* The adapter's executor: admitted and bound when it goes to the kernel.
LEMMA ProbeKeeps ==
  ASSUME IInv, NEW s \in Sub, NEW i \in Ids(s), at[s][i] = "queued", Turned(s, i), kernel,
         ReAdmitted(s, i), Bindable(bound, s, i), bound' = Bound(bound, s, i),
         Ins(s, i).opId # None, ~Exists(Ins(s, i).opId),
         at' = Put(at, s, i, "probing"), dig' = Put(dig, s, i, root),
         UNCHANGED <<kernel, row, effects, begunBy, host>>,
         UNCHANGED <<phase, res, joinedTo, coordinator, aborted, wake>>
  PROVE  IInv'
<1> DEFINE o == Ins(s, i).opId
<1>0. /\ i \in Id /\ kernel \in BOOLEAN /\ "probing" \in Inside /\ "probing" \in Places
      /\ at[s][i] \in Held /\ o \in OpId
      /\ \A r \in Root : <<Ins(s, i).program, Ins(s, i).input, r>> # None
  BY Basics, Tables DEF Held, Inside, Owning, Places
<1>1. at' \in [Sub -> [Id -> Places]] /\ Moved(at, at', s, i, "probing")
  BY <1>0, Basics, MovedIs
<1>2. root \in Root /\ DOMAIN bound = OpId
  BY DEF IInv, Types, HostTypes, DurableTypes
<1>3. dig' \in [Sub -> [Id -> Root \cup {None}]] /\ Moved(dig, dig', s, i, root)
  <2> DEFINE X == Root \cup {None}
  <2>1. root \in X /\ dig \in [Sub -> [Id -> X]]
    BY <1>2, Basics
  <2> HIDE DEF X
  <2>2. dig' \in [Sub -> [Id -> X]] /\ Moved(dig, dig', s, i, root)
    BY <1>0, <2>1, MovedIs
  <2> QED
    BY <2>2 DEF X
<1>4. /\ DOMAIN bound' = OpId /\ bound'[o] = fingerprint(s, i)
      /\ \A u \in OpId : u # o => bound'[u] = bound[u]
      /\ bound[o] # None => bound[o] = fingerprint(s, i)
  BY <1>0, <1>2 DEF Bound, Bindable
<1>5. fingerprint(s, i) # None /\ fingerprint(s, i)[3] = root
  BY <1>0, <1>2 DEF fingerprint
<1>6. BoundStays /\ RowsStay
  BY <1>4 DEF BoundStays, RowsStay
<1>7. OperationsInv(at) /\ EffectsInv(at) /\ BoundInv(at) /\ BarredInv(at)
  BY DEF IInv, KernelInv
<1>8. at'[s][i] = "probing" /\ \A t \in Sub, j \in Id : ~(t = s /\ j = i) => at'[t][j] = at[t][j] /\ dig'[t][j] = dig[t][j]
  BY <1>0, <1>1, <1>3 DEF Moved
<1>9. ASSUME NEW u \in OpId, row[u] # "none"
      PROVE  /\ begunBy[u] \in Exec /\ begunBy[u][2] \in Ids(begunBy[u][1])
             /\ at'[begunBy[u][1]][begunBy[u][2]] \in {"executing", "effected", "done", "lost"}
             /\ dig'[begunBy[u][1]][begunBy[u][2]] = dig[begunBy[u][1]][begunBy[u][2]]
  <2>1. /\ begunBy[u] \in Exec /\ begunBy[u][2] \in Ids(begunBy[u][1])
        /\ at[begunBy[u][1]][begunBy[u][2]] \in {"executing", "effected", "done", "lost"}
    BY <1>7, <1>9 DEF OperationsInv
  <2>2. ~(begunBy[u][1] = s /\ begunBy[u][2] = i)
    BY <2>1
  <2> QED
    BY <1>8, <2>1, <2>2 DEF Exec
<1>10. OperationsInv(at)'
  <2>1. ASSUME NEW t \in Sub, NEW j \in Id, at'[t][j] \in Inside
        PROVE  /\ at'[t][j] # "checking" /\ Ins(t, j).opId \in OpId
               /\ at'[t][j] \in {"executing", "effected"} =>
                     row[Ins(t, j).opId] = "open" /\ begunBy[Ins(t, j).opId] = <<t, j>>
    <3>1. CASE t = s /\ j = i
      BY <1>0, <1>8, <3>1
    <3>2. CASE ~(t = s /\ j = i)
      BY <1>7, <1>8, <2>1, <3>2 DEF OperationsInv
    <3> QED
      BY <3>1, <3>2
  <2> QED
    BY <1>9, <2>1 DEF OperationsInv, Ids, Ins
<1>11. EffectsInv(at)'
  <2>1. \A t \in Sub, j \in Id : at'[t][j] = "executing" => at[t][j] = "executing"
    BY <1>8
  <2> QED
    BY <1>7, <2>1 DEF EffectsInv, EffectOnce, Ins
<1>12. BoundInv(at)'
  <2>1. \A u \in OpId : row[u] # "none" =>
          bound'[u] # None /\ dig'[begunBy[u][1]][begunBy[u][2]] = bound'[u][3]
    BY <1>6, <1>7, <1>9 DEF BoundInv, RunsOnBoundRoot, BoundStays
  <2>2. \A t \in Sub, j \in Id : at'[t][j] = "probing" =>
          bound'[Ins(t, j).opId] # None /\ dig'[t][j] = bound'[Ins(t, j).opId][3]
    <3> SUFFICES ASSUME NEW t \in Sub, NEW j \in Id, at'[t][j] = "probing"
                 PROVE  bound'[Ins(t, j).opId] # None /\ dig'[t][j] = bound'[Ins(t, j).opId][3]
      OBVIOUS
    <3>1. CASE t = s /\ j = i
      <4>1. dig'[s][i] = root
        BY <1>0, <1>3 DEF Moved
      <4> QED
        BY <1>4, <1>5, <3>1, <4>1
    <3>2. CASE ~(t = s /\ j = i)
      <4>1. at[t][j] = "probing" /\ at[t][j] \in Inside
        BY <1>8, <3>2 DEF Inside
      <4>2. Ins(t, j).opId \in OpId
        BY <1>7, <4>1 DEF OperationsInv
      <4>3. bound[Ins(t, j).opId] # None /\ dig[t][j] = bound[Ins(t, j).opId][3]
        BY <1>7, <4>1 DEF BoundInv
      <4> QED
        BY <1>6, <1>8, <3>2, <4>2, <4>3 DEF BoundStays
    <3> QED
      BY <3>1, <3>2
  <2> QED
    BY <2>1, <2>2 DEF BoundInv, RunsOnBoundRoot, Ins
<1>13. BarredInv(at)'
  <2>1. capOK /\ barred' = barred
    BY DEF ReAdmitted, admit, host
  <2> QED
    BY <1>7, <2>1 DEF BarredInv
<1>14. DurableTypes' /\ HostTypes'
  BY <1>4 DEF IInv, Types, DurableTypes, HostTypes, host
<1>15. DurableOrder'
  BY <1>6, OrderStays DEF DurableOrder
<1> QED
  BY <1>0, <1>3, <1>6, <1>10, <1>11, <1>12, <1>13, <1>14, <1>15, InsideKeeps
     DEF KernelInv, coordinator

\* A binding that may be made changes none that was.
LEMMA BoundGrows ==
  ASSUME IInv, NEW s \in Sub, NEW i \in Ids(s), Bindable(bound, s, i), bound' = Bound(bound, s, i)
  PROVE  BoundStays
<1>1. DOMAIN bound = OpId /\ Ins(s, i).opId \in OpId \cup {None}
  BY Basics, Tables DEF IInv, Types, DurableTypes
<1> QED
  BY <1>1 DEF Bindable, Bound, BoundStays

\* Settling with the rows as they are.
LEMMA PlainSettleKeeps ==
  ASSUME IInv, NEW s \in Sub, NEW i \in Ids(s), at[s][i] \in Held, Turned(s, i),
         NEW r \in Outcomes, Settle(s, i, r), UNCHANGED <<kernel, row, effects, begunBy, host>>, BoundStays,
         kernel /\ r \in Good /\ Ins(s, i).opId # None => row[Ins(s, i).opId] \in Durable
  PROVE  IInv'
BY Basics, SettleKeeps

\* Enter: cancelled, refused, replayed, or on its way.
LEMMA EnterKeeps ==
  ASSUME IInv, NEW s \in Sub, NEW i \in Ids(s), Enter(s, i)
  PROVE  IInv'
<1> DEFINE o == Ins(s, i).opId
<1>0. /\ at[s][i] = "queued" /\ Turned(s, i) /\ at[s][i] \in Held
      /\ UNCHANGED <<kernel, row, effects, begunBy, host, faults>>
      /\ kernel \in BOOLEAN /\ o \in OpId \cup {None}
      /\ {"cancelled", "failed", "succeeded"} \subseteq Outcomes /\ {"cancelled", "failed"} \cap Good = {}
  BY Basics, Tables DEF Enter, Held, Outcomes, Good
<1>1. ASSUME UNCHANGED bound PROVE BoundStays
  BY <1>1 DEF BoundStays, IInv, Types, DurableTypes
<1>2. ASSUME NEW r \in {"cancelled", "failed"}, Settle(s, i, r), UNCHANGED bound PROVE IInv'
  BY <1>0, <1>1, <1>2, PlainSettleKeeps
<1>3. ASSUME kernel, KernelExecutor(s, i) PROVE IInv'
  <2>1. CASE ~ReAdmitted(s, i) \/ ~Bindable(bound, s, i)
    BY <1>2, <1>3, <2>1 DEF KernelExecutor
  <2>2. CASE ReAdmitted(s, i) /\ Bindable(bound, s, i)
    <3>1. bound' = Bound(bound, s, i)
      BY <1>3, <2>2 DEF KernelExecutor
    <3>2. BoundStays
      BY <2>2, <3>1, BoundGrows
    <3>3. CASE o = None
      <4>1. Settle(s, i, "succeeded")
        BY <1>3, <2>2, <3>3 DEF KernelExecutor
      <4> QED
        BY <1>0, <3>2, <3>3, <4>1, PlainSettleKeeps
    <3>4. CASE o # None /\ Exists(o)
      <4>1. Settle(s, i, Result(row[o]))
        BY <1>3, <2>2, <3>4 DEF KernelExecutor
      <4>2. row[o] \in Rows \ {"none"}
        BY <1>0, <3>4, Basics DEF Exists
      <4>3. Result(row[o]) \in Outcomes /\ (Result(row[o]) \in Good => row[o] \in Durable)
        BY <4>2 DEF Result, Rows, Outcomes, Good, Durable
      <4> QED
        BY <1>0, <3>2, <4>1, <4>3, PlainSettleKeeps
    <3>5. CASE o # None /\ ~Exists(o)
      <4>1. /\ at' = Put(at, s, i, "probing") /\ dig' = Put(dig, s, i, root)
            /\ UNCHANGED <<phase, res, joinedTo, coordinator, aborted, wake>>
        BY <1>3, <2>2, <3>5 DEF KernelExecutor, Place
      <4> QED
        BY <1>0, <1>3, <2>2, <3>1, <3>5, <4>1, ProbeKeeps
    <3> QED
      BY <3>3, <3>4, <3>5
  <2> QED
    BY <2>1, <2>2
<1>4. CASE s \in aborted \/ ~preconditionHolds(s, i)
  BY <1>2, <1>4 DEF Enter
<1>5. CASE s \notin aborted /\ preconditionHolds(s, i) /\ kernel
  BY <1>3, <1>5 DEF Enter
<1>6. CASE s \notin aborted /\ preconditionHolds(s, i) /\ ~kernel
  <2>1. PICK p \in {"checking", "executing"} : Place(s, i, p)
    BY <1>6 DEF Enter
  <2>2. UNCHANGED <<bound, phase, res, joinedTo, dig, coordinator, aborted, wake>>
    BY <1>6 DEF Enter
  <2> QED
    BY <1>0, <1>6, <2>1, <2>2, HostStepKeeps DEF Place, durable, coordinator
<1> QED
  BY <1>0, <1>4, <1>5, <1>6

\* Checked: the host's check lets through, or the execution ends.
LEMMA CheckedKeeps ==
  ASSUME IInv, NEW s \in Sub, NEW i \in Ids(s), Checked(s, i)
  PROVE  IInv'
<1>0. /\ at[s][i] = "checking" /\ UNCHANGED <<kernel, durable, host, faults>>
      /\ at[s][i] \in Inside /\ i \in Id
  BY Basics, Tables DEF Checked, Inside
<1>1. Turned(s, i) /\ at[s][i] \in Held /\ ~kernel
  BY <1>0, InsideTurned DEF IInv, KernelInv, OperationsInv
<1>2. BoundStays /\ UNCHANGED <<row, effects, begunBy>>
  BY <1>0 DEF BoundStays, IInv, Types, DurableTypes, durable
<1>3. ASSUME NEW r \in {"cancelled", "failed"}, Settle(s, i, r) PROVE IInv'
  <2>1. r \in Outcomes
    BY DEF Outcomes
  <2> QED
    BY <1>0, <1>1, <1>2, <1>3, <2>1, PlainSettleKeeps
<1>4. ASSUME Place(s, i, "executing"), UNCHANGED <<phase, res, joinedTo, dig, coordinator, aborted, wake>>
      PROVE  IInv'
  BY <1>0, <1>1, <1>4, HostStepKeeps DEF Place, coordinator
<1> QED
  BY <1>3, <1>4 DEF Checked

\* Activate: the row is inserted by the execution that finds none.
LEMMA ActivateKeeps ==
  ASSUME IInv, NEW s \in Sub, NEW i \in Ids(s), Activate(s, i)
  PROVE  IInv'
<1> DEFINE o == Ins(s, i).opId
<1>0. /\ at[s][i] = "probing" /\ UNCHANGED <<kernel, bound, effects, host, faults>>
      /\ at[s][i] \in Inside /\ i \in Id /\ kernel \in BOOLEAN
      /\ OperationsInv(at) /\ EffectsInv(at) /\ BoundInv(at) /\ BarredInv(at)
  BY Basics, Tables DEF Activate, Inside, IInv, KernelInv
<1>1. Turned(s, i) /\ at[s][i] \in Held
  BY <1>0, InsideTurned
<1>2. kernel /\ o \in OpId /\ bound[o] # None /\ dig[s][i] = bound[o][3] /\ o \notin barred
  BY <1>0 DEF OperationsInv, BoundInv, BarredInv
<1>3. BoundStays
  BY <1>0 DEF BoundStays, IInv, Types, DurableTypes
<1>4. CASE Exists(o)
  <2>1. Settle(s, i, "failed") /\ UNCHANGED <<row, begunBy>>
    BY <1>4 DEF Activate
  <2>2. "failed" \in Outcomes /\ "failed" \notin Good
    BY DEF Outcomes, Good
  <2> QED
    BY <1>0, <1>1, <1>3, <2>1, <2>2, PlainSettleKeeps
<1>5. CASE ~Exists(o)
  <2>1. /\ at' = Put(at, s, i, "executing") /\ row[o] = "none"
        /\ row' = [row EXCEPT ![o] = "open"] /\ begunBy' = [begunBy EXCEPT ![o] = <<s, i>>]
        /\ UNCHANGED <<phase, res, joinedTo, dig, coordinator, aborted, wake>>
    BY <1>5 DEF Activate, Place, Exists
  <2>2. at' \in [Sub -> [Id -> Places]] /\ Moved(at, at', s, i, "executing")
    <3>1. "executing" \in Places
      BY DEF Places, Owning, Held, Inside
    <3> QED
      BY <1>0, <2>1, <3>1, Basics, MovedIs
  <2>3. at'[s][i] = "executing" /\ \A t \in Sub, j \in Id : ~(t = s /\ j = i) => at'[t][j] = at[t][j]
    BY <1>0, <2>2 DEF Moved
  <2>4. row \in [OpId -> Rows] /\ begunBy \in [OpId -> Exec \cup {None}] /\ <<s, i>> \in Exec
    BY <1>0 DEF IInv, Types, DurableTypes, Exec
  <2>5. /\ row' \in [OpId -> Rows] /\ begunBy' \in [OpId -> Exec \cup {None}]
        /\ row'[o] = "open" /\ begunBy'[o] = <<s, i>>
        /\ \A u \in OpId : u # o => row'[u] = row[u] /\ begunBy'[u] = begunBy[u]
    BY <1>2, <2>1, <2>4 DEF Rows
  <2>6. RowsStay
    BY <2>1, <2>5 DEF RowsStay, Durable
  <2>7. OperationsInv(at)'
    <3>1. ASSUME NEW t \in Sub, NEW j \in Id, at'[t][j] \in Inside
          PROVE  /\ at'[t][j] # "checking" /\ Ins(t, j).opId \in OpId
                 /\ at'[t][j] \in {"executing", "effected"} =>
                       row'[Ins(t, j).opId] = "open" /\ begunBy'[Ins(t, j).opId] = <<t, j>>
      <4>1. CASE t = s /\ j = i
        BY <1>2, <2>3, <2>5, <4>1
      <4>2. CASE ~(t = s /\ j = i)
        <5>1. /\ at'[t][j] = at[t][j] /\ at[t][j] # "checking" /\ Ins(t, j).opId \in OpId
              /\ at[t][j] \in {"executing", "effected"} =>
                    row[Ins(t, j).opId] = "open" /\ begunBy[Ins(t, j).opId] = <<t, j>>
          BY <1>0, <1>2, <2>3, <3>1, <4>2 DEF OperationsInv
        <5> QED
          BY <2>1, <2>5, <5>1
      <4> QED
        BY <4>1, <4>2
    <3>2. ASSUME NEW u \in OpId, row'[u] # "none"
          PROVE  /\ begunBy'[u] \in Exec /\ begunBy'[u][2] \in Ids(begunBy'[u][1])
                 /\ at'[begunBy'[u][1]][begunBy'[u][2]] \in {"executing", "effected", "done", "lost"}
      <4>1. CASE u = o
        BY <2>3, <2>4, <2>5, <4>1
      <4>2. CASE u # o
        <5>1. /\ begunBy'[u] = begunBy[u] /\ begunBy[u] \in Exec /\ begunBy[u][2] \in Ids(begunBy[u][1])
              /\ at[begunBy[u][1]][begunBy[u][2]] \in {"executing", "effected", "done", "lost"}
          BY <1>0, <2>5, <3>2, <4>2 DEF OperationsInv
        <5> QED
          BY <2>3, <5>1 DEF Exec
      <4> QED
        BY <4>1, <4>2
    <3> QED
      BY <1>0, <1>2, <3>1, <3>2 DEF OperationsInv, Ids, Ins
  <2>8. EffectsInv(at)'
    <3>1. effects[o] = 0 /\ \A u \in OpId : row'[u] = "none" => row[u] = "none"
      BY <1>0, <1>2, <2>1, <2>5 DEF EffectsInv
    <3>2. \A t \in Sub, j \in Id : at'[t][j] = "executing" => effects[Ins(t, j).opId] = 0
      BY <1>0, <1>2, <2>3, <3>1 DEF EffectsInv
    <3> QED
      BY <1>0, <3>1, <3>2 DEF EffectsInv, EffectOnce, Ins
  <2>9. BoundInv(at)'
    <3>1. \A u \in OpId : row'[u] # "none" =>
            bound[u] # None /\ dig[begunBy'[u][1]][begunBy'[u][2]] = bound[u][3]
      BY <1>0, <1>2, <2>5 DEF BoundInv, RunsOnBoundRoot
    <3>2. \A t \in Sub, j \in Id : at'[t][j] = "probing" => at[t][j] = "probing"
      BY <2>3
    <3> QED
      BY <1>0, <2>1, <3>1, <3>2 DEF BoundInv, RunsOnBoundRoot, Ins
  <2>10. BarredInv(at)'
    <3>1. barred' = barred /\ capOK' = capOK /\ barred \subseteq OpId
      BY <1>0 DEF host, IInv, Types, HostTypes
    <3>2. \A t \in Sub, j \in Id : at'[t][j] = "probing" => at[t][j] = "probing"
      BY <2>3
    <3>3. \A u \in barred : ~capOK /\ row'[u] = "none"
      BY <1>0, <1>2, <2>5, <3>1 DEF BarredInv
    <3>4. \A u \in barred : \A t \in Sub, j \in Id : at'[t][j] = "probing" => Ins(t, j).opId # u
      BY <1>0, <3>2 DEF BarredInv
    <3> QED
      BY <1>0, <3>1, <3>3, <3>4 DEF BarredInv, Ins
  <2>11. DurableTypes' /\ HostTypes'
    BY <1>0, <2>5 DEF IInv, Types, DurableTypes, HostTypes, host
  <2>12. DurableOrder'
    <3> SUFFICES ASSUME NEW u \in OpId, row'[u] # "none"
                 PROVE  Ready(begunBy[u][1], begunBy[u][2])'
      BY DEF DurableOrder
    <3>1. CASE u = o
      <4>1. Ready(s, i)
        BY <1>0, <1>1, <1>2 DEF IInv, TurnInv, StartedInv, Owning
      <4>2. Ready(s, i)'
        BY <1>0, <2>6, <4>1, ReadyStays
      <4>3. begunBy'[u][1] = s /\ begunBy'[u][2] = i
        BY <2>5, <3>1
      <4> QED
        BY <4>2, <4>3 DEF Ready, Ins
    <3>2. CASE u # o
      BY <1>0, <2>5, <2>6, <3>2, OrderStays
    <3> QED
      BY <3>1, <3>2
  <2>13. dig' \in [Sub -> [Id -> Root \cup {None}]]
    BY <2>1, Basics
  <2>14. "executing" \in Inside
    BY DEF Inside
  <2> QED
    BY <1>0, <1>1, <2>1, <2>6, <2>7, <2>8, <2>9, <2>10, <2>11, <2>12, <2>13, <2>14,
       InsideKeeps
    DEF KernelInv, coordinator
<1> QED
  BY <1>4, <1>5


\* Effect: the one execution of the operation takes effect, for the first time.
LEMMA EffectKeeps ==
  ASSUME IInv, NEW s \in Sub, NEW i \in Ids(s), Effect(s, i)
  PROVE  IInv'
<1> DEFINE o == Ins(s, i).opId
<1>0. /\ at[s][i] = "executing" /\ kernel /\ at[s][i] \in Inside /\ i \in Id
      /\ "effected" \in Inside /\ "effected" \in Places
      /\ OperationsInv(at) /\ EffectsInv(at) /\ BoundInv(at) /\ BarredInv(at)
  BY Basics, Tables DEF Effect, Inside, Places, Owning, Held, IInv, KernelInv
<1>1. Turned(s, i) /\ at[s][i] \in Held
  BY <1>0, InsideTurned
<1>2. /\ at' = Put(at, s, i, "effected") /\ effects' = [effects EXCEPT ![o] = @ + 1]
      /\ UNCHANGED <<kernel, bound, row, begunBy, capOK, root, barred>>
      /\ UNCHANGED <<phase, res, joinedTo, dig, waiters, holders, commitTail, inFlight, aborted, wake>>
  BY DEF Effect, Place, host, coordinator
<1>3. o \in OpId /\ row[o] = "open" /\ begunBy[o] = <<s, i>> /\ effects[o] = 0
  BY <1>0 DEF OperationsInv, EffectsInv
<1>4. at' \in [Sub -> [Id -> Places]] /\ Moved(at, at', s, i, "effected")
  BY <1>0, <1>2, Basics, MovedIs
<1>5. at'[s][i] = "effected" /\ \A t \in Sub, j \in Id : ~(t = s /\ j = i) => at'[t][j] = at[t][j]
  BY <1>0, <1>4 DEF Moved
<1>6. effects \in [OpId -> Nat]
  BY DEF IInv, Types, DurableTypes
<1>7. effects' \in [OpId -> Nat] /\ effects'[o] = 1 /\ \A u \in OpId : u # o => effects'[u] = effects[u]
  BY <1>2, <1>3, <1>6
<1>8. OperationsInv(at)'
  <2>1. ASSUME NEW t \in Sub, NEW j \in Id, at'[t][j] \in Inside
        PROVE  /\ at'[t][j] # "checking" /\ Ins(t, j).opId \in OpId
               /\ at'[t][j] \in {"executing", "effected"} =>
                     row[Ins(t, j).opId] = "open" /\ begunBy[Ins(t, j).opId] = <<t, j>>
    <3>1. CASE t = s /\ j = i
      BY <1>3, <1>5, <3>1
    <3>2. CASE ~(t = s /\ j = i)
      BY <1>0, <1>5, <2>1, <3>2 DEF OperationsInv
    <3> QED
      BY <3>1, <3>2
  <2>2. ASSUME NEW u \in OpId, row[u] # "none"
        PROVE  /\ begunBy[u] \in Exec /\ begunBy[u][2] \in Ids(begunBy[u][1])
               /\ at'[begunBy[u][1]][begunBy[u][2]] \in {"executing", "effected", "done", "lost"}
    <3>1. /\ begunBy[u] \in Exec /\ begunBy[u][2] \in Ids(begunBy[u][1])
          /\ at[begunBy[u][1]][begunBy[u][2]] \in {"executing", "effected", "done", "lost"}
      BY <1>0, <2>2 DEF OperationsInv
    <3> QED
      BY <1>5, <3>1 DEF Exec
  <2> QED
    BY <1>0, <1>2, <2>1, <2>2 DEF OperationsInv, Ids, Ins
<1>9. EffectsInv(at)'
  <2>1. \A u \in OpId : effects'[u] <= 1 /\ (row[u] = "none" => effects'[u] = 0)
    BY <1>0, <1>3, <1>7 DEF EffectsInv, EffectOnce
  <2>2. ASSUME NEW t \in Sub, NEW j \in Id, at'[t][j] = "executing"
        PROVE  effects'[Ins(t, j).opId] = 0
    <3>1. ~(t = s /\ j = i) /\ at[t][j] = "executing"
      BY <1>5, <2>2
    <3>2. at[t][j] \in Inside
      BY <3>1 DEF Inside
    <3>3. /\ Ins(t, j).opId \in OpId /\ begunBy[Ins(t, j).opId] = <<t, j>>
          /\ effects[Ins(t, j).opId] = 0
      BY <1>0, <3>1, <3>2 DEF OperationsInv, EffectsInv
    <3>4. Ins(t, j).opId # o
      BY <1>3, <3>1, <3>3
    <3> QED
      BY <1>7, <3>3, <3>4
  <2> QED
    BY <1>2, <2>1, <2>2 DEF EffectsInv, EffectOnce, Ins
<1>10. BoundInv(at)' /\ BarredInv(at)'
  <2>1. \A t \in Sub, j \in Id : at'[t][j] = "probing" => at[t][j] = "probing"
    BY <1>5
  <2>2. BoundInv(at)'
    BY <1>0, <1>2, <2>1 DEF BoundInv, RunsOnBoundRoot, Ins
  <2> QED
    BY <1>2, <2>1, <2>2, QuietBarred
<1>11. RowsStay
  BY <1>2 DEF RowsStay
<1>12. DurableTypes' /\ HostTypes'
  BY <1>2, <1>7 DEF IInv, Types, DurableTypes, HostTypes
<1>13. DurableOrder'
  BY <1>2, <1>11, OrderStays DEF DurableOrder
<1>14. dig' \in [Sub -> [Id -> Root \cup {None}]]
  BY <1>2, Basics
<1> QED
  BY <1>0, <1>1, <1>2, <1>8, <1>9, <1>10, <1>11, <1>12, <1>13, <1>14, InsideKeeps
     DEF KernelInv

\* OperationEnds: the result is durable before it is told, or the row stays open.
LEMMA OperationEndsKeeps ==
  ASSUME IInv, NEW s \in Sub, NEW i \in Ids(s), OperationEnds(s, i)
  PROVE  IInv'
<1> DEFINE o == Ins(s, i).opId
           good == IF Ins(s, i).op = "workspace.rollback" THEN "restored" ELSE "succeeded"
<1>0. /\ at[s][i] \in {"executing", "effected"} /\ kernel /\ at[s][i] \in Inside /\ i \in Id
      /\ UNCHANGED <<kernel, bound, effects, begunBy, host, faults>>
      /\ OperationsInv(at) /\ row \in [OpId -> Rows]
  BY Basics, Tables DEF OperationEnds, Inside, IInv, KernelInv
<1>1. Turned(s, i) /\ at[s][i] \in Held
  BY <1>0, InsideTurned
<1>2. o \in OpId /\ row[o] = "open" /\ begunBy[o] = <<s, i>>
  BY <1>0 DEF OperationsInv
<1>3. BoundStays
  BY <1>0 DEF BoundStays, IInv, Types, DurableTypes
<1>4. ASSUME NEW v \in Rows \ {"none"}, row' = [row EXCEPT ![o] = v], NEW r \in Outcomes,
             Settle(s, i, r), r \in Good => v \in Durable
      PROVE  IInv'
  <2>1. /\ row' \in [OpId -> Rows] /\ row'[o] = v
        /\ \A u \in OpId : u # o => row'[u] = row[u]
    BY <1>0, <1>2, <1>4
  <2>2. \A u \in OpId : \/ row'[u] = row[u]
                        \/ kernel /\ row[u] = "open" /\ row'[u] # "none" /\ begunBy[u] = <<s, i>>
    BY <1>0, <1>2, <1>4, <2>1
  <2>3. r \in Good => row'[o] \in Durable
    BY <1>4, <2>1
  <2> QED
    BY <1>0, <1>1, <1>3, <1>4, <2>1, <2>2, <2>3, SettleKeeps
<1>5. ASSUME row' = [row EXCEPT ![o] = good], Settle(s, i, Result(good)) PROVE IInv'
  <2>1. good \in Rows \ {"none"} /\ Result(good) \in Outcomes /\ good \in Durable
    BY DEF Result, Rows, Outcomes, Durable
  <2> HIDE DEF good
  <2> QED
    BY <1>4, <1>5, <2>1
<1>6. ASSUME NEW r \in {"failed", "indeterminate"}, row' = [row EXCEPT ![o] = r], Settle(s, i, r) PROVE IInv'
  <2>1. r \in Rows \ {"none"} /\ r \in Outcomes /\ r \notin Good
    BY DEF Rows, Outcomes, Good
  <2> QED
    BY <1>4, <1>6, <2>1
<1>7. ASSUME UNCHANGED row, Settle(s, i, "failed") PROVE IInv'
  <2>1. "failed" \in Outcomes /\ "failed" \notin Good
    BY DEF Outcomes, Good
  <2> QED
    BY <1>0, <1>1, <1>3, <1>7, <2>1, PlainSettleKeeps
<1> QED
  BY <1>5, <1>6, <1>7 DEF OperationEnds

\* HostEnds: the host's executor has nothing to do with the kernel.
LEMMA HostEndsKeeps ==
  ASSUME IInv, NEW s \in Sub, NEW i \in Ids(s), HostEnds(s, i)
  PROVE  IInv'
<1>0. /\ at[s][i] = "executing" /\ ~kernel /\ UNCHANGED <<kernel, durable, host>>
      /\ at[s][i] \in Inside /\ i \in Id
  BY Basics, Tables DEF HostEnds, Inside
<1>1. Turned(s, i) /\ at[s][i] \in Held
  BY <1>0, InsideTurned
<1>2. BoundStays /\ UNCHANGED <<row, effects, begunBy>>
  BY <1>0 DEF BoundStays, IInv, Types, DurableTypes, durable
<1>3. PICK r \in {"succeeded", "failed"} : Settle(s, i, r)
  BY DEF HostEnds
<1>4. r \in Outcomes
  BY DEF Outcomes
<1> QED
  BY <1>0, <1>1, <1>2, <1>3, <1>4, PlainSettleKeeps

\* Joined: the result of the execution that was joined is that of the same
\* instruction.
LEMMA JoinedKeeps ==
  ASSUME IInv, NEW s \in Sub, NEW i \in Ids(s), Joined(s, i)
  PROVE  IInv'
<1> DEFINE e == joinedTo[s][i]
           r == res[e[1]][e[2]]
<1>0. i \in Id /\ kernel \in BOOLEAN /\ "done" \in Places
  BY Basics, Tables DEF Places
<1>1. /\ at[s][i] = "joined" /\ at[e[1]][e[2]] = "done" /\ at' = Put(at, s, i, "done")
      /\ res' = Put(res, s, i, r) /\ wake' = wake \cup {s}
      /\ UNCHANGED <<kernel, bound, row, effects, begunBy, capOK, root, barred>>
      /\ UNCHANGED <<phase, joinedTo, dig, waiters, holders, commitTail, inFlight, aborted>>
  BY DEF Joined, durable, host, coordinator
<1>2. /\ PlacesInv(at) /\ ResultsInv(at, res) /\ JoinsInv(at, joinedTo) /\ StartedInv(at)
      /\ LocksInv(at, waiters, holders) /\ FlightsInv(at, inFlight) /\ CommitInv(at, commitTail)
  BY DEF IInv, TurnInv
<1>3. e \in Exec /\ e[1] \in Sub /\ e[2] \in Id /\ e[2] \in Ids(e[1]) /\ Ins(e[1], e[2]) = Ins(s, i)
  BY <1>0, <1>1, <1>2 DEF JoinsInv, Exec
<1>4. r \in Outcomes /\ (kernel /\ r \in Good /\ Ins(s, i).opId # None => row[Ins(s, i).opId] \in Durable)
  BY <1>1, <1>2, <1>3 DEF ResultsInv, Durable
<1> HIDE DEF e, r
<1>5. at' \in [Sub -> [Id -> Places]] /\ Moved(at, at', s, i, "done")
  BY <1>0, <1>1, Basics, MovedIs
<1>6. res' \in [Sub -> [Id -> Results]] /\ Moved(res, res', s, i, r)
  <2>1. r \in Results
    BY <1>4 DEF Results
  <2> QED
    BY <1>0, <1>1, <2>1, Basics, MovedIs
<1>7. phase[s] = "running"
  BY <1>0, <1>1, <1>2 DEF PlacesInv
<1>8. PlacesInv(at')
  BY <1>0, <1>2, <1>5, Basics, PlacesMoved
<1>9. JoinsInv(at', joinedTo')
  BY <1>0, <1>1, <1>2, <1>5, JoinsMoved
<1>10. LocksInv(at', waiters', holders') /\ FlightsInv(at', inFlight')
  <2>1. "done" \in Places \ Owning /\ at[s][i] \notin Owning
    BY <1>0, <1>1 DEF Owning, Held, Inside
  <2> QED
    BY <1>0, <1>1, <1>2, <1>5, <2>1, Basics, LocksMoved
<1>11. \A t \in Sub, j \in Id : at'[t][j] \in Owning \cup {"joined"} => at'[t][j] = at[t][j]
  BY <1>5 DEF Moved, Owning, Held, Inside
<1>12. StartedInv(at')
  BY <1>2, <1>11 DEF StartedInv
<1>13. ResultsInv(at', res')
  <2>1. \A t \in Sub, j \in Id : at'[t][j] = "done" => res'[t][j] \in Outcomes
    BY <1>2, <1>4, <1>5, <1>6 DEF ResultsInv, Moved
  <2>2. \A t \in Sub, j \in Id : kernel /\ j \in Ids(t) /\ res'[t][j] \in Good /\ Ins(t, j).opId # None =>
          row[Ins(t, j).opId] \in {"succeeded", "restored"}
    BY <1>2, <1>4, <1>6 DEF ResultsInv, Moved, Durable
  <2> QED
    BY <1>6, <2>1, <2>2 DEF ResultsInv
<1>14. RowsStay /\ RunsOn /\ BoundStays
  BY <1>1 DEF RowsStay, RunsOn, BoundStays, IInv, Types, DurableTypes
<1>15. TurnInv(at, res, joinedTo, waiters, holders, inFlight)'
  <2>1. ResultsInv(at, res)'
    BY <1>0, <1>1, <1>13, <1>14, ResultsStay
  <2> QED
    BY <1>0, <1>1, <1>8, <1>9, <1>10, <1>12, <1>14, <2>1, TurnStays
<1>16. CommitInv(at, commitTail)'
  <2>1. \A t \in Sub, j \in Id : /\ at'[t][j] \in Held <=> at[t][j] \in Held
                                 /\ at'[t][j] \in Inside => at[t][j] \in Inside
    BY <1>1, <1>5 DEF Moved, Held, Inside
  <2>2. \A n \in 1..Len(commitTail) : at'[commitTail[n][1]][commitTail[n][2]] \in Held
    <3>1. \A n \in 1..Len(commitTail) : commitTail[n] \in Exec /\ at[commitTail[n][1]][commitTail[n][2]] \in Held
      BY <1>2, Basics DEF CommitInv
    <3> QED
      BY <2>1, <3>1 DEF Exec
  <2>3. CommitInv(at', commitTail')
    BY <1>1, <1>2, <2>1, <2>2 DEF CommitInv
  <2> QED
    BY <1>1, <2>3, CommitStays
<1>17. Quiet /\ \A t \in Sub, j \in Id : at'[t][j] = "probing" => at[t][j] = "probing"
  BY <1>1, <1>5 DEF Quiet, Moved, Inside
<1>18. OperationsInv(at)' /\ EffectsInv(at)' /\ BoundInv(at)' /\ DurableTypes' /\ DurableOrder'
  BY <1>1, <1>5, <1>14, <1>17, QuietKernel
<1>19. BarredInv(at)'
  BY <1>1, <1>17, QuietBarred
<1>20. HostTypes' /\ MemoryTypes'
  BY <1>1 DEF IInv, Types, HostTypes, MemoryTypes
<1>21. AwakeInv'
  BY <1>1, <1>7 DEF IInv, AwakeInv
<1>22. SuccessIsComplete'
  <2> SUFFICES ASSUME NEW t \in Sub, phase[t] = "succeeded", NEW j \in Ids(t)
               PROVE  res'[t][j] \in {"succeeded", "rolled_back"}
    BY <1>1 DEF SuccessIsComplete, Ids
  <2>1. j \in Id /\ t # s
    BY <1>0, <1>7, Tables
  <2> QED
    BY <1>6, <2>1 DEF IInv, SuccessIsComplete, Moved
<1> QED
  BY <1>15, <1>16, <1>18, <1>19, <1>20, <1>21, <1>22 DEF IInv, Types, KernelInv

\* A step of the host leaves the journal and the executions alone.
LEMMA HostKeeps ==
  ASSUME IInv, UNCHANGED <<kernel, bound, row, effects, begunBy>>,
         UNCHANGED <<phase, at, res, joinedTo, dig, waiters, holders, commitTail, inFlight, wake>>,
         aborted' \subseteq Sub, HostTypes', BarredInv(at)'
  PROVE  IInv'
<1>1. RowsStay /\ RunsOn /\ BoundStays
  BY DEF RowsStay, RunsOn, BoundStays, IInv, Types, DurableTypes
<1>2. /\ TurnInv(at, res, joinedTo, waiters, holders, inFlight)' /\ CommitInv(at, commitTail)'
      /\ at' \in [Sub -> [Id -> Places]] /\ Quiet
  BY <1>1, SameMemory
<1>3. OperationsInv(at)' /\ EffectsInv(at)' /\ BoundInv(at)' /\ DurableTypes' /\ DurableOrder'
  BY <1>1, <1>2, QuietKernel
<1>4. MemoryTypes' /\ AwakeInv' /\ SuccessIsComplete'
  BY DEF IInv, Types, MemoryTypes, AwakeInv, SuccessIsComplete, Ids
<1> QED
  BY <1>2, <1>3, <1>4 DEF IInv, Types, KernelInv

\* Abort, the end of the Run, a retargeted link, and no step at all.
LEMMA HostActionsKeep ==
  ASSUME IInv, (\E s \in Sub : Abort(s)) \/ RunEnds \/ Retarget \/ UNCHANGED vars
  PROVE  IInv'
<1>1. /\ UNCHANGED <<kernel, bound, row, effects, begunBy, capOK, barred>>
      /\ UNCHANGED <<phase, at, res, joinedTo, dig, waiters, holders, commitTail, inFlight, wake>>
      /\ aborted' = aborted \/ \E s \in Sub : aborted' = aborted \cup {s}
      /\ root' = root \/ root' \in Root
  BY DEF Abort, RunEnds, Retarget, vars, durable, host, memory, coordinator
<1>2. aborted' \subseteq Sub /\ HostTypes'
  BY <1>1 DEF IInv, Types, MemoryTypes, HostTypes
<1>3. BarredInv(at)'
  BY <1>1, QuietBarred
<1> QED
  BY <1>1, <1>2, <1>3, HostKeeps

\* Revoke: what had not reached the kernel is barred.
LEMMA RevokeKeeps ==
  ASSUME IInv, Revoke
  PROVE  IInv'
<1>1. /\ UNCHANGED <<kernel, bound, row, effects, begunBy, root>> /\ capOK' = FALSE
      /\ UNCHANGED <<phase, at, res, joinedTo, dig, waiters, holders, commitTail, inFlight, wake, aborted>>
      /\ barred' = { o \in OpId : /\ row[o] = "none"
                                  /\ \A s \in Sub, i \in Id : at[s][i] = "probing" => Ins(s, i).opId # o }
  BY DEF Revoke, durable, memory, coordinator
<1>2. aborted' \subseteq Sub /\ HostTypes'
  BY <1>1 DEF IInv, Types, MemoryTypes, HostTypes
<1>3. BarredInv(at)'
  BY <1>1 DEF BarredInv, Ins
<1> QED
  BY <1>1, <1>2, <1>3, HostKeeps

\* Crash: the memory is lost, what the executions did before is not.
LEMMA CrashKeeps ==
  ASSUME IInv, Crash
  PROVE  IInv'
<1>0. /\ kernel \in BOOLEAN /\ phase \in [Sub -> Phases] /\ at \in [Sub -> [Id -> Places]]
      /\ PlacesInv(at) /\ ResultsInv(at, res) /\ JoinsInv(at, joinedTo)
  BY Basics DEF IInv, TurnInv
<1>1. /\ phase' = [s \in Sub |-> IF phase[s] = "running" THEN "lost" ELSE phase[s]]
      /\ at' = [s \in Sub |-> [i \in Id |-> IF phase[s] = "running" THEN "lost" ELSE at[s][i]]]
      /\ waiters' = <<>> /\ holders' = {} /\ commitTail' = <<>> /\ inFlight' = {}
      /\ wake' = {} /\ aborted' = {}
      /\ UNCHANGED <<kernel, bound, row, effects, begunBy, capOK, root, barred, res, joinedTo, dig>>
  BY DEF Crash, durable, host
<1>2. /\ at' \in [Sub -> [Id -> Places]]
      /\ \A s \in Sub, i \in Id : at'[s][i] = "lost" \/ (phase[s] # "running" /\ at'[s][i] = at[s][i])
  BY <1>0, <1>1 DEF Places
<1>3. \A s \in Sub, i \in Id : at'[s][i] \notin Owning \cup {"joined"}
  <2>1. "lost" \notin Owning \cup {"joined"}
    BY DEF Owning, Held, Inside
  <2> QED
    BY <1>0, <1>2, <2>1 DEF PlacesInv
<1>4. \A s \in Sub, i \in Id : at'[s][i] \notin Held /\ at'[s][i] \notin Inside
  BY <1>3 DEF Owning, Held
<1>5. PlacesInv(at') /\ StartedInv(at')
  BY <1>2, <1>3 DEF PlacesInv, StartedInv
<1>6. JoinsInv(at', joinedTo')
  BY <1>0, <1>1, <1>3 DEF JoinsInv
<1>7. LocksInv(at', waiters', holders') /\ FlightsInv(at', inFlight') /\ CommitInv(at', commitTail')
  BY <1>1, <1>4 DEF LocksInv, FlightsInv, CommitInv, Injective
<1>8. ResultsInv(at', res')
  BY <1>0, <1>1, <1>2 DEF ResultsInv
<1>9. RowsStay /\ RunsOn /\ BoundStays
  BY <1>1, <1>3 DEF RowsStay, RunsOn, BoundStays, IInv, Types, DurableTypes
<1>10. TurnInv(at, res, joinedTo, waiters, holders, inFlight)' /\ CommitInv(at, commitTail)'
  <2>1. ResultsInv(at, res)'
    BY <1>0, <1>1, <1>8, <1>9, ResultsStay
  <2> QED
    BY <1>0, <1>1, <1>5, <1>6, <1>7, <1>9, <2>1, TurnStays, CommitStays
<1>11. Quiet /\ \A t \in Sub, j \in Id : at'[t][j] = "probing" => at[t][j] = "probing"
  BY <1>2 DEF Quiet
<1>12. OperationsInv(at)' /\ EffectsInv(at)' /\ BoundInv(at)' /\ DurableTypes' /\ DurableOrder'
  BY <1>1, <1>2, <1>9, <1>11, QuietKernel
<1>13. BarredInv(at)'
  BY <1>1, <1>11, QuietBarred
<1>14. HostTypes' /\ MemoryTypes' /\ AwakeInv'
  <2>1. phase' \in [Sub -> Phases]
    BY <1>0, <1>1 DEF Phases
  <2> QED
    BY <1>1, <2>1 DEF IInv, Types, HostTypes, MemoryTypes, AwakeInv
<1>15. SuccessIsComplete'
  <2>1. \A t \in Sub : phase'[t] = "succeeded" => phase[t] = "succeeded"
    BY <1>1
  <2> QED
    BY <1>1, <2>1 DEF IInv, SuccessIsComplete, Ids
<1> QED
  BY <1>10, <1>12, <1>13, <1>14, <1>15 DEF IInv, Types, KernelInv

\* Recover: an open operation nobody executes is indeterminate from then on.
LEMMA RecoverKeeps ==
  ASSUME IInv, Recover
  PROVE  IInv'
<1>1. PICK o \in OpId :
        /\ row[o] = "open" /\ row' = [row EXCEPT ![o] = "indeterminate"]
        /\ \A s \in Sub, i \in Id : at[s][i] \in {"executing", "effected"} => Ins(s, i).opId # o
  BY DEF Recover
<1>2. /\ UNCHANGED <<kernel, bound, effects, begunBy, capOK, root, barred>>
      /\ UNCHANGED <<phase, at, res, joinedTo, dig, waiters, holders, commitTail, inFlight, wake, aborted>>
  BY DEF Recover, host, memory, coordinator
<1>3. row \in [OpId -> Rows] /\ OperationsInv(at) /\ EffectsInv(at) /\ BoundInv(at) /\ BarredInv(at)
  BY Basics DEF IInv, KernelInv
<1>4. /\ row' \in [OpId -> Rows] /\ row'[o] = "indeterminate"
      /\ \A u \in OpId : u # o => row'[u] = row[u]
  BY <1>1, <1>3 DEF Rows
<1>5. \A u \in OpId : (row'[u] = "none") = (row[u] = "none")
  BY <1>1, <1>4
<1>6. RowsStay /\ RunsOn /\ BoundStays
  BY <1>1, <1>2, <1>4 DEF RowsStay, Durable, RunsOn, BoundStays, IInv, Types,
     DurableTypes
<1>7. TurnInv(at, res, joinedTo, waiters, holders, inFlight)' /\ CommitInv(at, commitTail)'
  BY <1>2, <1>6, SameMemory
<1>8. OperationsInv(at)'
  <2>1. ASSUME kernel, NEW t \in Sub, NEW j \in Id, at[t][j] \in Inside
        PROVE  /\ at[t][j] # "checking" /\ Ins(t, j).opId \in OpId
               /\ at[t][j] \in {"executing", "effected"} =>
                     row'[Ins(t, j).opId] = "open" /\ begunBy[Ins(t, j).opId] = <<t, j>>
    <3>1. /\ at[t][j] # "checking" /\ Ins(t, j).opId \in OpId
          /\ at[t][j] \in {"executing", "effected"} =>
                row[Ins(t, j).opId] = "open" /\ begunBy[Ins(t, j).opId] = <<t, j>>
      BY <1>3, <2>1 DEF OperationsInv
    <3> QED
      BY <1>1, <1>4, <3>1
  <2>2. \A u \in OpId : row'[u] # "none" =>
          /\ begunBy[u] \in Exec /\ begunBy[u][2] \in Ids(begunBy[u][1])
          /\ at[begunBy[u][1]][begunBy[u][2]] \in {"executing", "effected", "done", "lost"}
    BY <1>3, <1>5 DEF OperationsInv
  <2>3. \A s \in Sub, i \in Id : at[s][i] \in {"probing", "effected"} => kernel
    BY <1>3 DEF OperationsInv
  <2> QED
    BY <1>2, <2>1, <2>2, <2>3 DEF OperationsInv, Ids, Ins
<1>9. EffectsInv(at)'
  BY <1>2, <1>3, <1>5 DEF EffectsInv, EffectOnce, Ins
<1>10. BoundInv(at)'
  BY <1>2, <1>3, <1>5 DEF BoundInv, RunsOnBoundRoot, Ins
<1>11. BarredInv(at)'
  <2>1. \A u \in barred : u \in OpId /\ ~capOK /\ row'[u] = "none"
    BY <1>3, <1>5 DEF BarredInv, IInv, Types, HostTypes
  <2> QED
    BY <1>2, <1>3, <2>1 DEF BarredInv, Ins
<1>12. DurableTypes' /\ HostTypes' /\ MemoryTypes' /\ AwakeInv' /\ SuccessIsComplete'
  BY <1>2, <1>4 DEF IInv, Types, DurableTypes, HostTypes, MemoryTypes, AwakeInv,
     SuccessIsComplete, Ids
<1>13. DurableOrder'
  BY <1>2, <1>5, <1>6, OrderStays DEF DurableOrder
<1> QED
  BY <1>7, <1>8, <1>9, <1>10, <1>11, <1>12, <1>13 DEF IInv, Types, KernelInv

\* Every step keeps the invariant.
LEMMA InvNext ==
  ASSUME IInv, [Next]_vars
  PROVE  IInv'
<1>1. ASSUME NEW s \in Sub, Progress(s) PROVE IInv'
  BY <1>1, TurnKeeps, GrantedKeeps, EnterKeeps, CheckedKeeps, ActivateKeeps,
     EffectKeeps,
     OperationEndsKeeps, HostEndsKeeps, JoinedKeeps, Zenon DEF Progress
<1> QED
  BY <1>1, SubmitKeeps, HostActionsKeep, RevokeKeeps, CrashKeeps, RecoverKeeps, Zenon
     DEF Next

-----------------------------------------------------------------------------
(* Theorems *)

\* The invariant holds of every behaviour, whatever the programs, the number of
\* submissions and the faults.
THEOREM InvHolds == Spec => []IInv
<1>1. Init => IInv
  BY InvInit
<1>2. IInv /\ [Next]_vars => IInv'
  BY InvNext
<1> QED
  BY <1>1, <1>2, PTL DEF Spec

\* What a Program did is what it says: every operation takes effect at most
\* once and after what it depends on is durable, and a submission that reports
\* success has all its results, in the kernel too.
THEOREM EffectsHold == Spec => []EffectsAreTrue
<1>1. IInv => EffectsAreTrue
  <2> SUFFICES ASSUME IInv PROVE EffectsAreTrue
    OBVIOUS
  <2>1. TypeOK
    <3>1. \A s \in Sub, i \in Id : res[s][i] \in Results
      BY Basics
    <3>2. effects \in [OpId -> 0..2]
      BY DEF IInv, Types, DurableTypes, KernelInv, EffectsInv, EffectOnce
    <3>3. row \in [OpId -> Rows] /\ phase \in [Sub -> Phases] /\ holders \subseteq Sub \X Id
      BY Basics DEF Exec
    <3> QED
      BY <3>1, <3>2, <3>3 DEF TypeOK, IInv, Types, MemoryTypes, Results, Outcomes, Rows,
         Phases
  <2>2. SuccessIsComplete /\ DurableOrder /\ EffectOnce
    BY DEF IInv, KernelInv, EffectsInv
  <2>3. SuccessIsDurable
    <3> SUFFICES ASSUME NEW s \in Sub, phase[s] = "succeeded", kernel, NEW i \in Ids(s), Ins(s, i).opId # None
                 PROVE  row[Ins(s, i).opId] \in {"succeeded", "restored"}
      BY DEF SuccessIsDurable
    <3>1. res[s][i] \in Good /\ i \in Id
      BY <2>2, Basics, Tables DEF SuccessIsComplete, Good
    <3> QED
      BY <3>1 DEF IInv, TurnInv, ResultsInv
  <2> QED
    BY <2>1, <2>2, <2>3 DEF EffectsAreTrue
<1> QED
  BY <1>1, InvHolds, PTL

\* The coordinator excludes: executions past it claim no common resource and one
\* at most is past the commit queue; one execution flies per key; and nothing is
\* left of them when no submission runs.
THEOREM LocksHold == Spec => []LocksAreSound
<1>1. IInv => LocksAreSound
  <2> SUFFICES ASSUME IInv PROVE LocksAreSound
    OBVIOUS
  <2>0. /\ PlacesInv(at) /\ LocksInv(at, waiters, holders) /\ FlightsInv(at, inFlight)
        /\ CommitInv(at, commitTail)
        /\ waiters \in Seq(Exec) /\ commitTail \in Seq(Exec) /\ holders \subseteq Exec /\ inFlight \subseteq Exec
    BY Basics DEF IInv, TurnInv
  <2>1. Exclusive
    <3> SUFFICES ASSUME NEW e \in Exec, NEW f \in Exec, e # f,
                        at[e[1]][e[2]] \in Inside, at[f[1]][f[2]] \in Inside
                 PROVE  /\ ResourcesOf(e) \cap ResourcesOf(f) = {}
                        /\ ~(Commits(Ins(e[1], e[2]).op) /\ Commits(Ins(f[1], f[2]).op))
      BY DEF Exclusive, Exec, Inside
    <3>1. /\ e[1] \in Sub /\ e[2] \in Id /\ e = <<e[1], e[2]>>
          /\ f[1] \in Sub /\ f[2] \in Id /\ f = <<f[1], f[2]>>
      BY DEF Exec
    <3>2. e \in holders /\ f \in holders
      BY <2>0, <3>1 DEF LocksInv, Held
    <3>3. /\ Commits(Ins(e[1], e[2]).op) => commitTail[1] = e
          /\ Commits(Ins(f[1], f[2]).op) => commitTail[1] = f
      BY <2>0, <3>1 DEF CommitInv
    <3> QED
      BY <2>0, <3>2, <3>3 DEF LocksInv
  <2>2. OneInFlight
    BY <2>0 DEF FlightsInv, OneInFlight
  <2>3. NothingLeaks
    <3> SUFFICES ASSUME \A s \in Sub : phase[s] # "running"
                 PROVE  waiters = <<>> /\ holders = {} /\ commitTail = <<>> /\ inFlight = {}
      BY DEF NothingLeaks
    <3>1. \A e \in Exec : at[e[1]][e[2]] \notin Owning
      BY <2>0 DEF PlacesInv, Exec
    <3>2. holders = {} /\ inFlight = {}
      BY <2>0, <3>1 DEF LocksInv, FlightsInv
    <3>3. ASSUME NEW q \in Seq(Exec), \A n \in 1..Len(q) : at[q[n][1]][q[n][2]] \in Owning
          PROVE  q = <<>>
      <4>1. ASSUME q # <<>> PROVE FALSE
        <5>1. Len(q) \in Nat /\ Len(q) # 0
          BY <4>1
        <5>2. 1 \in 1..Len(q) /\ q[1] \in Exec
          BY <5>1
        <5> QED
          BY <3>1, <3>3, <5>2
      <4> QED
        BY <4>1
    <3>4. "acquiring" \in Owning /\ Held \subseteq Owning
      BY DEF Owning
    <3> QED
      BY <2>0, <3>2, <3>3, <3>4 DEF LocksInv, CommitInv
  <2> QED
    BY <2>1, <2>2, <2>3 DEF LocksAreSound
<1> QED
  BY <1>1, InvHolds, PTL

\* An operation runs on the root its binding was made for, and none begins that
\* had not reached the kernel when the capability was revoked.
THEOREM AdmissionHolds == Spec => []AdmissionIsFresh
<1>1. IInv => AdmissionIsFresh
  BY DEF IInv, KernelInv, BoundInv, BarredInv, AdmissionIsFresh, RevokedNeverStarts
<1> QED
  BY <1>1, InvHolds, PTL

\* An execution changes the journal of its own operation only, and only as long
\* as that is open.
LEMMA ProgressIsFinal ==
  ASSUME IInv, NEW s \in Sub, Progress(s)
  PROVE  JournalStep
<1>1. CASE Turn(s)
  BY <1>1 DEF Turn, durable, JournalStep
<1>2. ASSUME NEW i \in Ids(s), Enter(s, i) PROVE JournalStep
  <2>1. bound' = bound \/ (Bindable(bound, s, i) /\ bound' = Bound(bound, s, i))
    BY <1>2 DEF Enter, KernelExecutor
  <2>2. \A o \in OpId : bound[o] # None => bound'[o] = bound[o]
    BY <2>1, BoundGrows DEF BoundStays
  <2>3. row' = row
    BY <1>2 DEF Enter
  <2> QED
    BY <2>2, <2>3 DEF JournalStep
<1>3. ASSUME NEW i \in Ids(s), Granted(s, i) \/ Checked(s, i) \/ Effect(s, i) \/ HostEnds(s, i) \/ Joined(s, i)
      PROVE  JournalStep
  BY <1>3 DEF Granted, Checked, Effect, HostEnds, Joined, durable, JournalStep
<1>4. ASSUME NEW i \in Ids(s), Activate(s, i) \/ OperationEnds(s, i) PROVE JournalStep
  <2> DEFINE o == Ins(s, i).opId
  <2>1. /\ i \in Id /\ bound' = bound /\ row \in [OpId -> Rows]
        /\ row' = row \/ \E v : row' = [row EXCEPT ![o] = v]
    BY <1>4, Basics, Tables DEF Activate, OperationEnds
  <2>2. CASE Activate(s, i)
    BY <2>1, <2>2 DEF Activate, Exists, JournalStep
  <2>3. CASE OperationEnds(s, i)
    <3>1. row[o] = "open"
      BY <2>1, <2>3 DEF OperationEnds, IInv, KernelInv, OperationsInv, Inside
    <3> QED
      BY <2>1, <3>1 DEF JournalStep
  <2> QED
    BY <1>4, <2>2, <2>3
<1> QED
  BY <1>1, <1>2, <1>3, <1>4, Zenon DEF Progress

\* What the journal says of an operation is final: no submission, retry, crash or
\* recovery changes a binding that was made or a result that was recorded.
THEOREM JournalHolds == Spec => JournalIsFinal
<1>1. IInv /\ [Next]_vars => [JournalStep]_vars
  <2> SUFFICES ASSUME IInv, Next PROVE JournalStep
    BY Zenon
  <2>1. ASSUME NEW s \in Sub, Submit(s) PROVE JournalStep
    <3>1. bound' = bound \/ bound' = AdmitAll(s).bound
      BY <2>1 DEF Submit
    <3>2. kernel \in BOOLEAN /\ DOMAIN bound = OpId /\ root \in Root
      BY Basics DEF IInv, Types, DurableTypes, HostTypes
    <3>3. \A o \in OpId : bound[o] # None => bound'[o] = bound[o]
      BY <3>1, <3>2, AdmitFacts
    <3>4. row' = row
      BY <2>1 DEF Submit
    <3> QED
      BY <3>3, <3>4 DEF JournalStep
  <2>2. ASSUME (\E s \in Sub : Abort(s)) \/ Revoke \/ RunEnds \/ Retarget \/ Crash PROVE JournalStep
    BY <2>2 DEF Abort, Revoke, RunEnds, Retarget, Crash, durable, JournalStep
  <2>3. ASSUME Recover PROVE JournalStep
    <3>1. PICK o \in OpId : row[o] = "open" /\ row' = [row EXCEPT ![o] = "indeterminate"]
      BY <2>3 DEF Recover
    <3>2. row \in [OpId -> Rows] /\ bound' = bound
      BY <2>3, Basics DEF Recover
    <3> QED
      BY <3>1, <3>2 DEF JournalStep
  <2> QED
    BY <2>1, <2>2, <2>3, ProgressIsFinal, Zenon DEF Next
<1> QED
  BY <1>1, InvHolds, PTL DEF Spec, JournalIsFinal
====
