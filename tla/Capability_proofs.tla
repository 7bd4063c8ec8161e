--------------------------- MODULE Capability_proofs ---------------------------
(***************************************************************************)
(* Proofs about Capability.  The walk of GetCpuPreferredNodes places every *)
(* node it should, and no other, in any graph that is in order; what the   *)
(* finders propose and what is compiled plays no part in it.  And however  *)
(* candidates overlap and fusions are disabled, no node is claimed twice.  *)
(* Last, the partition: what thirty-four of the finders propose can be     *)
(* replaced by one node each, and the graph that results can be run.       *)
(***************************************************************************)
EXTENDS Capability, WellFoundedInduction, FiniteSetTheorems, TLAPS

\* A call on any graph in order, whatever is assigned and registered.
PlacementSpec ==
  /\ \E g, eps, unsupported : \E disableAll \in BOOLEAN : Start(g, eps, unsupported, disableAll)
  /\ InOrder(graph)
  /\ [][Next]_vars

-----------------------------------------------------------------------------
\* The invariant.

\* The verdict on a node that is visited.
Placeable(n) ==
  n \in provider /\ n \in cpu_preferred_downstream /\ PlaceInCpu(n, cpu_output_args)

\* The walk goes down the graph: what is visited is before what is waiting,
\* and its verdict is final; no consumer of a result in host memory is lost.
WalkInd ==
  /\ candidates \subseteq Node /\ visited \subseteq Node
  /\ \A m \in visited, c \in candidates : m < c
  /\ \A n \in visited : n \in cpu_nodes <=> Placeable(n)
  /\ cpu_nodes \subseteq visited \cap provider
  /\ \A v \in HostResults : ReaderNodes(v) \subseteq visited \cup candidates
  /\ \A n \in cpu_nodes : \A v \in Outputs(n) : ReaderNodes(v) \subseteq visited \cup candidates

\* Nothing has been placed before the walk.
Fresh == visited = {} /\ cpu_nodes = {}

\* What is known of the walk in each phase of the call.
PlacementInd ==
  /\ InOrder(graph) /\ provider \subseteq Node
  /\ phase \in {"find", "collect", "seed"} => Fresh
  /\ phase = "walk" => WalkInd
  /\ phase = "register" => provider = {}
  /\ phase \in {"partition", "compile"} => provider = {} \/ (WalkInd /\ candidates = {})

-----------------------------------------------------------------------------
\* Graphs in order.

\* What InOrder says of one node: its own results are read later, it is among
\* the consumers of what it reads, and producers are right.
LEMMA Order ==
  ASSUME InOrder(graph), NEW n \in Node
  PROVE  /\ n \in Nat
         /\ \A v \in Outputs(n) : \A m \in ReaderNodes(v) : m \in Node /\ m > n
         /\ \A i \in DOMAIN In(n) : In(n)[i] # Missing => n \in ReaderNodes(In(n)[i])
         /\ \A i \in HostOutputs(Op(n)) : Out(n)[i] \in ToSet(Out(n))
         /\ \A i \in DOMAIN In(n) :
              In(n)[i] # Missing /\ Producer(In(n)[i]) \in Node =>
                In(n)[i] \in Outputs(Producer(In(n)[i]))
<1>1. n \in Nat
  BY DEF InOrder, Node
<1>2. \A v \in Outputs(n) : \A m \in ReaderNodes(v) : m \in Node /\ m > n
  BY DEF InOrder, Node, Outputs, Out, ReaderNodes, Readers
<1>3. \A i \in DOMAIN In(n) : In(n)[i] # Missing => n \in ReaderNodes(In(n)[i])
  BY DEF InOrder, Node, In, ToSet, ReaderNodes, Readers
<1>4. \A i \in HostOutputs(Op(n)) : Out(n)[i] \in ToSet(Out(n))
  BY DEF InOrder, Node, Op, Out, ToSet
<1>5. \A i \in DOMAIN In(n) :
        In(n)[i] # Missing /\ Producer(In(n)[i]) \in Node =>
          In(n)[i] \in Outputs(Producer(In(n)[i]))
  <2> SUFFICES ASSUME NEW i \in DOMAIN In(n), NEW v, v = In(n)[i], v # Missing,
                      Producer(v) \in Node
               PROVE  v \in Outputs(Producer(v))
    OBVIOUS
  <2>1. v \in ToSet(graph.node[n].ins) \ {Missing} /\ Producer(v) = graph.producer[v]
    BY DEF In, ToSet, Producer
  <2>2. v \in ToSet(graph.node[Producer(v)].outs)
    BY <2>1 DEF InOrder, Node
  <2> QED
    BY <2>2 DEF Outputs, Out
<1> QED
  BY <1>1, <1>2, <1>3, <1>4, <1>5

\* A result that only later nodes read does not change the verdict on a node.
LEMMA LaterResults ==
  ASSUME InOrder(graph), NEW m \in Node, NEW n \in Node, m <= n, NEW S
  PROVE  PlaceInCpu(m, S \cup Outputs(n)) <=> PlaceInCpu(m, S)
<1>1. \A i \in DOMAIN In(m) : In(m)[i] # Missing => In(m)[i] \notin Outputs(n)
  <2> SUFFICES ASSUME NEW i \in DOMAIN In(m), In(m)[i] # Missing, In(m)[i] \in Outputs(n)
               PROVE  FALSE
    OBVIOUS
  <2>1. m \in ReaderNodes(In(m)[i])
    BY Order
  <2>2. m > n /\ m \in Nat /\ n \in Nat
    BY <2>1, Order
  <2> QED
    BY <2>2
<1> QED
  BY <1>1 DEF PlaceInCpu

\* A set of nodes that is not empty has a first one.
LEMMA FirstOfSet ==
  ASSUME NEW S, S \subseteq Nat, S # {}
  PROVE  Min(S) \in S /\ \A x \in S : Min(S) <= x
<1>1. PICK z \in S : TRUE
  OBVIOUS
<1>2. \E x \in S : \A y \in S : ~(<<y, x>> \in OpToRel(<, Nat))
  BY <1>1, NatLessThanWellFounded, WFMin
<1>3. PICK x \in S : \A y \in S : ~(<<y, x>> \in OpToRel(<, Nat))
  BY <1>2
<1>4. \A y \in S : x <= y
  <2> SUFFICES ASSUME NEW y \in S PROVE x <= y
    OBVIOUS
  <2>1. <<y, x>> \notin OpToRel(<, Nat)
    BY <1>3
  <2>2. x \in Nat /\ y \in Nat
    OBVIOUS
  <2>3. ~(y < x)
    BY <2>1, <2>2 DEF OpToRel
  <2> QED
    BY <2>2, <2>3
<1>5. Min(S) = CHOOSE y \in S : \A w \in S : y <= w
  BY DEF Min
<1> QED
  BY <1>4, <1>5

-----------------------------------------------------------------------------
\* Steps that leave the graph alone.

\* What the walk reads of the graph stays.
LEMMA SameGraph ==
  ASSUME graph' = graph, provider' = provider
  PROVE  /\ Node' = Node
         /\ InOrder(graph) => InOrder(graph')
         /\ HostResults' = HostResults
         /\ \A n : Outputs(n)' = Outputs(n)
         /\ \A v : ReaderNodes(v)' = ReaderNodes(v)
<1>1. Node' = Node
  BY DEF Node
<1>2. \A n : Outputs(n)' = Outputs(n)
  BY DEF Outputs, Out
<1>3. \A v : ReaderNodes(v)' = ReaderNodes(v)
  BY DEF ReaderNodes, Readers
<1>4. HostResults' = HostResults
  BY DEF HostResults, Out, Op, Node
<1> QED
  BY <1>1, <1>2, <1>3, <1>4

\* The verdict depends on the graph and on the values in host memory only.
LEMMA SameVerdict ==
  ASSUME graph' = graph, NEW S, cpu_output_args' = S, NEW n
  PROVE  PlaceInCpu(n, cpu_output_args)' <=> PlaceInCpu(n, S)
BY DEF PlaceInCpu, In, Op, Node, IsSmallInitializer, IsConst, IsCpuPreferredMetadataType, DType

\* The walk stands still.
LEMMA WalkIndStutter ==
  ASSUME WalkInd, UNCHANGED <<graph, provider, walkVars>>
  PROVE  WalkInd'
<1>1. UNCHANGED <<graph, provider, candidates, visited, cpu_preferred_downstream,
                  cpu_output_args, cpu_nodes>>
  BY DEF walkVars
<1>2. PICK S : S = cpu_output_args
  OBVIOUS
<1>3. \A n : Placeable(n)' <=> Placeable(n)
  BY <1>1, <1>2, SameVerdict DEF Placeable
<1> QED
  BY <1>1, <1>3, SameGraph DEF WalkInd

\* The walk begins with the consumers of results in host memory.
LEMMA SeedSound ==
  ASSUME PlacementInd, phase = "seed", SeedCandidates, UNCHANGED <<graph, provider>>
  PROVE  WalkInd'
<1>1. visited' = {} /\ cpu_nodes' = {}
  BY DEF SeedCandidates, PlacementInd, Fresh
<1>2. candidates' = UNION {ReaderNodes(v) : v \in HostResults}
  BY DEF SeedCandidates
<1>3. candidates' \subseteq Node
  <2>1. \A v \in HostResults : ReaderNodes(v) \subseteq Node
    <3> SUFFICES ASSUME NEW v \in HostResults PROVE ReaderNodes(v) \subseteq Node
      OBVIOUS
    <3>1. PICK n \in provider : \E i \in HostOutputs(Op(n)) : v = Out(n)[i] /\ v # Missing
      BY DEF HostResults
    <3>2. n \in Node /\ InOrder(graph)
      BY DEF PlacementInd
    <3>3. v \in Outputs(n)
      BY <3>1, <3>2, Order DEF Outputs
    <3> QED
      BY <3>2, <3>3, Order
  <2> QED
    BY <1>2, <2>1
<1> QED
  BY <1>1, <1>2, <1>3, SameGraph DEF WalkInd

\* The first candidate is visited: its verdict is given and stays.
LEMMA VisitSound ==
  ASSUME InOrder(graph), WalkInd, VisitCandidate, UNCHANGED <<graph, provider>>
  PROVE  WalkInd'
<1>1. candidates # {} /\ candidates \subseteq Nat
  BY DEF VisitCandidate, WalkInd, InOrder, Node
<1>2. PICK n \in candidates : n = FirstCandidate /\ \A c \in candidates : n <= c
  BY <1>1, FirstOfSet DEF FirstCandidate
<1>3. n \in Node /\ n \in Nat /\ n \notin visited
  BY <1>1, <1>2 DEF WalkInd
<1>4. PICK S : S = cpu_output_args
  OBVIOUS
<1>5. PICK goesOn \in BOOLEAN :
        goesOn = (LeftToCpu(n) \/ (n \in provider /\ n \in cpu_preferred_downstream
                                   /\ PlaceInCpu(n, S)))
  OBVIOUS
<1>6. /\ visited' = visited \cup {n}
      /\ candidates' = (candidates \ {n}) \cup (IF goesOn THEN GetOutputNodes(n) ELSE {})
      /\ cpu_output_args' = S \cup (IF goesOn THEN Outputs(n) ELSE {})
      /\ cpu_nodes' = cpu_nodes \cup (IF goesOn /\ n \in provider THEN {n} ELSE {})
      /\ cpu_preferred_downstream' = cpu_preferred_downstream
  BY <1>2, <1>3, <1>4, <1>5 DEF VisitCandidate
<1>7. /\ \A m \in GetOutputNodes(n) : m \in Node /\ m \in Nat /\ m > n
      /\ \A v \in Outputs(n) : ReaderNodes(v) \subseteq GetOutputNodes(n)
  BY <1>3, Order DEF GetOutputNodes
<1>8. /\ \A c \in candidates' : c \in Node /\ c \in Nat /\ c > n
      /\ \A m \in visited' : m \in Node /\ m \in Nat /\ m <= n
  <2>1. \A c \in candidates \ {n} : c \in Node /\ c \in Nat /\ c > n
    BY <1>1, <1>2, <1>3 DEF WalkInd
  <2>2. \A m \in visited : m \in Node /\ m \in Nat /\ m <= n
    BY <1>2, <1>3, Order DEF WalkInd
  <2>3. \A c \in candidates' : c \in candidates \ {n} \/ c \in GetOutputNodes(n)
    BY <1>6
  <2> QED
    BY <1>3, <1>6, <1>7, <2>1, <2>2, <2>3
<1>9. \A m \in visited' : PlaceInCpu(m, cpu_output_args)' <=> PlaceInCpu(m, S)
  <2> SUFFICES ASSUME NEW m \in visited'
               PROVE  PlaceInCpu(m, cpu_output_args)' <=> PlaceInCpu(m, S)
    OBVIOUS
  <2>1. PICK T : T = S \cup (IF goesOn THEN Outputs(n) ELSE {})
    OBVIOUS
  <2>2. PlaceInCpu(m, cpu_output_args)' <=> PlaceInCpu(m, T)
    BY <1>6, <2>1, SameVerdict
  <2>3. PlaceInCpu(m, T) <=> PlaceInCpu(m, S)
    <3>1. CASE goesOn
      <4>1. T = S \cup Outputs(n)
        BY <2>1, <3>1
      <4>2. PlaceInCpu(m, S \cup Outputs(n)) <=> PlaceInCpu(m, S)
        BY <1>3, <1>8, LaterResults
      <4> QED
        BY <4>1, <4>2
    <3>2. CASE ~goesOn
      <4>1. T = S
        BY <2>1, <3>2
      <4> QED
        BY <4>1
    <3> QED
      BY <3>1, <3>2
  <2> QED
    BY <2>2, <2>3
<1>10. \A m \in visited' : m \in cpu_nodes' <=> Placeable(m)'
  <2>1. \A m \in visited' :
          Placeable(m)' <=> m \in provider /\ m \in cpu_preferred_downstream /\ PlaceInCpu(m, S)
    BY <1>6, <1>9 DEF Placeable
  <2>2. \A m \in visited : m \in cpu_nodes' <=> m \in cpu_nodes
    BY <1>3, <1>6
  <2>3. \A m \in visited : m \in cpu_nodes' <=> Placeable(m)'
    BY <1>4, <1>6, <2>1, <2>2 DEF WalkInd, Placeable
  <2>4. n \notin cpu_nodes
    BY <1>3 DEF WalkInd
  <2>5. n \in provider => ~LeftToCpu(n)
    BY DEF LeftToCpu
  <2>6. n \in cpu_nodes' <=> Placeable(n)'
    BY <1>5, <1>6, <2>1, <2>4, <2>5
  <2> QED
    BY <1>6, <2>3, <2>6
<1>11. visited' \cup candidates' = visited \cup candidates
                                     \cup (IF goesOn THEN GetOutputNodes(n) ELSE {})
  BY <1>2, <1>6
<1>12. \A v \in HostResults : ReaderNodes(v) \subseteq visited' \cup candidates'
  BY <1>11 DEF WalkInd
<1>13. \A m \in cpu_nodes' : \A v \in Outputs(m) : ReaderNodes(v) \subseteq visited' \cup candidates'
  <2>1. \A m \in cpu_nodes : \A v \in Outputs(m) : ReaderNodes(v) \subseteq visited' \cup candidates'
    BY <1>11 DEF WalkInd
  <2>2. goesOn => \A v \in Outputs(n) : ReaderNodes(v) \subseteq visited' \cup candidates'
    BY <1>7, <1>11
  <2> QED
    BY <1>6, <2>1, <2>2
<1>14. cpu_nodes' \subseteq visited' \cap provider
  BY <1>6 DEF WalkInd
<1>15. \A m \in visited', c \in candidates' : m < c
  BY <1>8, <1>3
<1> QED
  BY <1>8, <1>10, <1>12, <1>13, <1>14, <1>15, SameGraph DEF WalkInd

-----------------------------------------------------------------------------
\* The whole pass.

\* Steps of the selection and of the compilation, which leave the placement
\* as it is.
LEMMA RestSound ==
  ASSUME PlacementInd, UNCHANGED <<graph, provider, walkVars>>,
         \/ phase' = phase
         \/ phase' = "failed"
         \/ phase \in {"find", "collect"} /\ phase' = "collect"
         \/ phase \in {"partition", "compile"} /\ phase' \in {"partition", "compile"}
  PROVE  PlacementInd'
<1>1. WalkInd => WalkInd'
  BY WalkIndStutter
<1>2. Fresh => Fresh'
  BY DEF Fresh, walkVars
<1>3. candidates' = candidates
  BY DEF walkVars
<1>4. InOrder(graph') /\ Node' = Node
  BY SameGraph DEF PlacementInd
<1> QED
  BY <1>1, <1>2, <1>3, <1>4 DEF PlacementInd

\* Every step of the pass preserves the invariant.
LEMMA PlacementIndStep ==
  ASSUME PlacementInd, [Next]_vars
  PROVE  PlacementInd'
<1> USE DEF environment, compileVars, selectVars
<1>1. CASE CallFinder \/ AcceptCandidate \/ SkipCandidate \/ RejectCandidate
  <2>1. phase' = phase /\ UNCHANGED <<graph, provider, walkVars>>
    BY <1>1 DEF CallFinder, AcceptCandidate, SkipCandidate, RejectCandidate, TakeCandidate
  <2> QED
    BY <2>1, RestSound
<1>2. ASSUME NEW disabled \in SUBSET {"ShapeReshape", "TileConcat"}, RegisterFusionMatches(disabled)
      PROVE  PlacementInd'
  <2>1. phase = "find" /\ phase' = "collect" /\ UNCHANGED <<graph, provider, walkVars>>
    BY <1>2 DEF RegisterFusionMatches
  <2> QED
    BY <2>1, RestSound
<1>3. CASE CollectSupportedNodeCandidates
  <2>1. /\ phase = "collect" /\ UNCHANGED <<graph, walkVars>> /\ provider' \subseteq Node
        /\ phase' = IF provider' = {} THEN "register" ELSE "seed"
    BY <1>3 DEF CollectSupportedNodeCandidates
  <2>2. Fresh' /\ Node' = Node
    BY <2>1 DEF PlacementInd, Fresh, walkVars, Node
  <2> QED
    BY <2>1, <2>2 DEF PlacementInd
<1>4. CASE BeginWalk
  <2>1. phase = "seed" /\ UNCHANGED <<graph, provider>>
    BY <1>4 DEF BeginWalk
  <2>2. CASE phase' = "failed" /\ UNCHANGED walkVars
    BY <2>1, <2>2, RestSound
  <2>3. CASE phase' = "walk" /\ SeedCandidates
    BY <2>1, <2>3, SeedSound, SameGraph DEF PlacementInd
  <2> QED
    BY <1>4, <2>2, <2>3 DEF BeginWalk
<1>5. CASE Walk
  <2>1. phase = "walk" /\ phase' = "walk" /\ VisitCandidate /\ UNCHANGED <<graph, provider>>
    BY <1>5 DEF Walk
  <2> QED
    BY <2>1, VisitSound, SameGraph DEF PlacementInd
<1>6. CASE RegisterSingleNodeCapabilities
  <2>1. /\ phase = "register" \/ (phase = "walk" /\ candidates = {})
        /\ phase' = "partition" /\ UNCHANGED <<graph, provider, walkVars>>
    BY <1>6 DEF RegisterSingleNodeCapabilities
  <2>2. candidates' = candidates
    BY <2>1 DEF walkVars
  <2> QED
    BY <2>1, <2>2, WalkIndStutter, SameGraph DEF PlacementInd
<1>7. CASE Partition \/ CompileImpl
  <2>1. /\ phase \in {"partition", "compile"} /\ phase' \in {"partition", "compile", "failed"}
        /\ UNCHANGED <<graph, provider, walkVars>>
    BY <1>7 DEF Partition, CompileImpl
  <2> QED
    BY <2>1, RestSound
<1>8. CASE Finish \/ UNCHANGED vars
  <2>1. phase' = phase /\ UNCHANGED <<graph, provider, walkVars>>
    BY <1>8 DEF Finish, vars
  <2> QED
    BY <2>1, RestSound
<1> QED
  BY <1>1, <1>2, <1>3, <1>4, <1>5, <1>6, <1>7, <1>8 DEF Next

\* What the invariant says when the walk is over.
LEMMA PlacementIndCloses == PlacementInd => PlacementIsClosed
<1> SUFFICES ASSUME PlacementInd, phase \in {"partition", "compile"}, NEW n \in provider
             PROVE  LET fits == n \in cpu_preferred_downstream /\ PlaceInCpu(n, cpu_output_args)
                        reached == \E v \in ToSet(In(n)) : v \in HostResults \/ Producer(v) \in cpu_nodes
                    IN  /\ n \in cpu_nodes => fits
                        /\ fits /\ reached => n \in cpu_nodes
  BY DEF PlacementIsClosed
<1>1. WalkInd /\ candidates = {} /\ n \in Node /\ InOrder(graph)
  BY DEF PlacementInd
<1>2. n \in cpu_nodes => n \in visited /\ Placeable(n)
  BY <1>1 DEF WalkInd
<1>3. ASSUME NEW v \in ToSet(In(n)), v \in HostResults \/ Producer(v) \in cpu_nodes
      PROVE  n \in visited
  <2>1. PICK i \in DOMAIN In(n) : v = In(n)[i]
    BY DEF ToSet
  <2>2. v # Missing
    <3>1. 0 \notin Node
      BY <1>1 DEF InOrder, Node
    <3>2. 0 \notin cpu_nodes
      BY <1>1, <3>1 DEF WalkInd
    <3> QED
      BY <1>3, <3>2 DEF HostResults, Producer
  <2>3. n \in ReaderNodes(v)
    BY <1>1, <2>1, <2>2, Order
  <2>4. CASE v \in HostResults
    BY <1>1, <2>3, <2>4 DEF WalkInd
  <2>5. CASE Producer(v) \in cpu_nodes
    <3>1. Producer(v) \in Node
      BY <1>1, <2>5 DEF WalkInd
    <3>2. v \in Outputs(Producer(v))
      BY <1>1, <2>1, <2>2, <3>1, Order
    <3> QED
      BY <1>1, <2>3, <2>5, <3>2 DEF WalkInd
  <2> QED
    BY <1>3, <2>4, <2>5
<1> QED
  BY <1>1, <1>2, <1>3 DEF WalkInd, Placeable

\* In any graph that is in order, whatever is fused, assigned or without a
\* kernel: GetCpuPreferredNodes leaves on the CPU exactly those nodes it can
\* reach that fit.  A node is visited once, and what is found out later about
\* other values does not change the verdict on it.
THEOREM PlacementIsAlwaysClosed == PlacementSpec => []PlacementIsClosed
<1>1. ASSUME \E g, eps, unsupported : \E disableAll \in BOOLEAN :
               Start(g, eps, unsupported, disableAll),
             InOrder(graph)
      PROVE  PlacementInd
  BY <1>1 DEF Start, WalkInit, PlacementInd, Fresh
<1> QED
  BY <1>1, PlacementIndStep, PlacementIndCloses, PTL DEF PlacementSpec

-----------------------------------------------------------------------------
\* Erasing matches.

\* f is the recursion of Enabled over the first n of ms.
Erasing(ms, off, n, f) ==
  f = [i \in 0..n |->
         IF i = 0 THEN <<>>
         ELSE IF ms[i].finder \in off THEN f[i - 1]
         ELSE Append(f[i - 1], ms[i])]

\* Enabled is what such a recursion ends with.
LEMMA EnabledErases ==
  ASSUME NEW off
  PROVE  Enabled(off) = (CHOOSE f : Erasing(matches, off, Len(matches), f))[Len(matches)]
BY DEF Enabled, Erasing

\* One turn of the recursion.
Turn(ms, off, i, kept) ==
  IF ms[i].finder \in off THEN kept ELSE Append(kept, ms[i])

\* The recursion, one turn at a time.
LEMMA ErasingTurns ==
  ASSUME NEW ms, NEW off, NEW n \in Nat, NEW f, Erasing(ms, off, n, f)
  PROVE  /\ f[0] = <<>>
         /\ \A i \in 1..n : f[i] = Turn(ms, off, i, f[i - 1])
<1>1. 0 \in 0..n /\ \A i \in 1..n : i \in 0..n /\ i # 0
  OBVIOUS
<1>2. \A i \in 0..n : f[i] = IF i = 0 THEN <<>>
                             ELSE IF ms[i].finder \in off THEN f[i - 1]
                             ELSE Append(f[i - 1], ms[i])
  BY Zenon DEF Erasing
<1> QED
  BY <1>1, <1>2, Zenon DEF Turn

\* There is one for any number of matches.
LEMMA ErasingExists ==
  ASSUME NEW ms, NEW off, NEW n \in Nat
  PROVE  \E f : Erasing(ms, off, n, f)
<1> DEFINE Bad == {k \in Nat : ~ \E f : Erasing(ms, off, k, f)}
<1>1. SUFFICES ASSUME Bad # {} PROVE FALSE
  OBVIOUS
<1>2. PICK m \in Bad : \A k \in Bad : m <= k
  <2> HIDE DEF Bad
  <2>1. Bad \subseteq Nat
    BY DEF Bad
  <2> QED
    BY <1>1, <2>1, FirstOfSet
<1>3. CASE m = 0
  <2> DEFINE h == [i \in 0..0 |-> <<>>]
  <2>1. Erasing(ms, off, 0, h)
    <3>1. \A i \in 0..0 : i = 0
      OBVIOUS
    <3>2. h = [i \in 0..0 |-> IF i = 0 THEN <<>>
                              ELSE IF ms[i].finder \in off THEN h[i - 1]
                              ELSE Append(h[i - 1], ms[i])]
      BY <3>1
    <3> QED
      BY <3>2 DEF Erasing
  <2> QED
    BY <1>3, <2>1
<1>4. CASE m # 0
  <2>1. m \in Nat /\ m - 1 \in Nat /\ ~(m <= m - 1)
    BY <1>4
  <2>2. PICK f : Erasing(ms, off, m - 1, f)
    BY <1>2, <2>1
  <2> DEFINE g == [i \in 0..m |-> IF i = m THEN Turn(ms, off, m, f[m - 1]) ELSE f[i]]
  <2>3. f[0] = <<>> /\ \A i \in 1..(m - 1) : f[i] = Turn(ms, off, i, f[i - 1])
    <3> HIDE DEF Bad
    <3>1. ASSUME NEW k \in Nat, Erasing(ms, off, k, f)
          PROVE  f[0] = <<>> /\ \A i \in 1..k : f[i] = Turn(ms, off, i, f[i - 1])
      BY <3>1, ErasingTurns
    <3> QED
      BY <2>1, <2>2, <3>1, Zenon
  <2>4. ASSUME NEW i \in 0..m
        PROVE  g[i] = IF i = 0 THEN <<>>
                      ELSE IF ms[i].finder \in off THEN g[i - 1]
                      ELSE Append(g[i - 1], ms[i])
    <3>1. CASE i = 0
      BY <1>4, <2>3, <3>1
    <3>2. CASE i = m
      <4>1. g[i] = Turn(ms, off, i, f[i - 1]) /\ g[i - 1] = f[i - 1] /\ i # 0
        BY <1>4, <2>1, <3>2
      <4> HIDE DEF g
      <4> QED
        BY <4>1 DEF Turn
    <3>3. CASE i # 0 /\ i # m
      <4>1. i \in 1..(m - 1) /\ i - 1 \in 0..m /\ i - 1 # m
        BY <2>1, <3>3
      <4>2. g[i] = f[i] /\ g[i - 1] = f[i - 1] /\ f[i] = Turn(ms, off, i, f[i - 1])
        BY <2>3, <3>3, <4>1
      <4> HIDE DEF g
      <4> QED
        BY <3>3, <4>2 DEF Turn
    <3> QED
      BY <3>1, <3>2, <3>3
  <2>5. Erasing(ms, off, m, g)
    <3>1. g = [i \in 0..m |-> g[i]]
      OBVIOUS
    <3> HIDE DEF g
    <3> QED
      BY <2>4, <3>1, Zenon DEF Erasing
  <2> HIDE DEF g
  <2> QED
    BY <2>1, <2>5
<1> QED
  BY <1>3, <1>4

\* Each element of gs is one of the first n of ms, at a position of its own.
PartOf(gs, ms, n) ==
  /\ \E S : gs \in Seq(S)
  /\ \A j \in DOMAIN gs : \E i \in 1..n : gs[j] = ms[i]
  /\ \A j, k \in DOMAIN gs : j # k =>
       \E i, l \in 1..n : i # l /\ gs[j] = ms[i] /\ gs[k] = ms[l]

\* One turn keeps that.
LEMMA TurnKeepsPart ==
  ASSUME NEW ms, NEW off, NEW n \in Nat, NEW gs, PartOf(gs, ms, n)
  PROVE  PartOf(Turn(ms, off, n + 1, gs), ms, n + 1)
<1>1. \A i \in 1..n : i \in 1..(n + 1) /\ i # n + 1
  OBVIOUS
<1>2. n + 1 \in 1..(n + 1)
  OBVIOUS
<1>3. CASE Turn(ms, off, n + 1, gs) = gs
  <2>1. PartOf(gs, ms, n + 1)
    BY <1>1 DEF PartOf
  <2> QED
    BY <1>3, <2>1
<1>4. CASE Turn(ms, off, n + 1, gs) = Append(gs, ms[n + 1])
  <2> DEFINE hs == Append(gs, ms[n + 1])
  <2>1. PICK S : gs \in Seq(S)
    BY DEF PartOf
  <2>2. hs \in Seq(S \cup {ms[n + 1]})
    <3>1. gs \in Seq(S \cup {ms[n + 1]})
      BY <2>1
    <3> QED
      BY <3>1
  <2>3. /\ Len(gs) \in Nat /\ DOMAIN gs = 1..Len(gs) /\ DOMAIN hs = 1..(Len(gs) + 1)
        /\ hs[Len(gs) + 1] = ms[n + 1]
        /\ \A j \in 1..Len(gs) : hs[j] = gs[j]
    BY <2>1
  <2> HIDE DEF hs
  <2>4. \A j \in DOMAIN hs : j \in DOMAIN gs \/ (j \notin DOMAIN gs /\ j = Len(gs) + 1)
    BY <2>3
  <2>5. /\ \A j \in DOMAIN gs : hs[j] = gs[j]
        /\ \A j \in DOMAIN hs : j \notin DOMAIN gs => hs[j] = ms[n + 1]
    BY <2>3, <2>4
  <2>6. \A j \in DOMAIN hs : \E i \in 1..(n + 1) : hs[j] = ms[i]
    BY <1>1, <1>2, <2>5 DEF PartOf
  <2>7. ASSUME NEW j \in DOMAIN hs, NEW k \in DOMAIN hs, j # k
        PROVE  \E i, l \in 1..(n + 1) : i # l /\ hs[j] = ms[i] /\ hs[k] = ms[l]
    <3>1. CASE j \in DOMAIN gs /\ k \in DOMAIN gs
      <4>1. PICK i \in 1..n, l \in 1..n : i # l /\ gs[j] = ms[i] /\ gs[k] = ms[l]
        BY <2>7, <3>1 DEF PartOf
      <4>2. hs[j] = gs[j] /\ hs[k] = gs[k] /\ i \in 1..(n + 1) /\ l \in 1..(n + 1)
        BY <1>1, <2>5, <3>1
      <4> QED
        BY <4>1, <4>2
    <3>2. CASE j \in DOMAIN gs /\ k \notin DOMAIN gs
      <4>1. PICK i \in 1..n : gs[j] = ms[i]
        BY <3>2 DEF PartOf
      <4> QED
        BY <1>1, <1>2, <2>5, <3>2, <4>1
    <3>3. CASE j \notin DOMAIN gs /\ k \in DOMAIN gs
      <4>1. PICK i \in 1..n : gs[k] = ms[i]
        BY <3>3 DEF PartOf
      <4> QED
        BY <1>1, <1>2, <2>5, <3>3, <4>1
    <3>4. j \in DOMAIN gs \/ k \in DOMAIN gs
      BY <2>4, <2>7
    <3> QED
      BY <3>1, <3>2, <3>3, <3>4
  <2>8. PartOf(hs, ms, n + 1)
    BY <2>2, <2>6, <2>7, Zenon DEF PartOf
  <2> QED
    BY <1>4, <2>8 DEF hs
<1> QED
  BY <1>3, <1>4 DEF Turn

\* What is left is part of what was there, with nothing twice.
LEMMA EnabledIsPart ==
  ASSUME NEW off, NEW S, matches \in Seq(S)
  PROVE  PartOf(Enabled(off), matches, Len(matches))
<1> DEFINE n == Len(matches)
           f == CHOOSE h : Erasing(matches, off, n, h)
           Bad == {k \in 0..n : ~PartOf(f[k], matches, k)}
<1>1. n \in Nat
  OBVIOUS
<1>2. Erasing(matches, off, n, f)
  <2> HIDE DEF n
  <2> QED
    BY <1>1, ErasingExists
<1>3. Enabled(off) = f[n]
  BY EnabledErases
<1>4. f[0] = <<>> /\ \A i \in 1..n : f[i] = Turn(matches, off, i, f[i - 1])
  <2> HIDE DEF n, f
  <2> QED
    BY <1>1, <1>2, ErasingTurns, ZenonT(60)
<1>5. Bad = {}
  <2>1. SUFFICES ASSUME Bad # {} PROVE FALSE
    OBVIOUS
  <2>2. PICK m \in Bad : \A k \in Bad : m <= k
    <3>1. Bad \subseteq Nat
      BY <1>1
    <3> HIDE DEF Bad
    <3> QED
      BY <2>1, <3>1, FirstOfSet
  <2>3. m \in 0..n /\ ~PartOf(f[m], matches, m)
    OBVIOUS
  <2>4. CASE m = 0
    <3>1. PartOf(<<>>, matches, 0)
      BY DEF PartOf
    <3> HIDE DEF f
    <3> QED
      BY <1>4, <2>3, <2>4, <3>1
  <2>5. CASE m # 0
    <3>1. m - 1 \in 0..n /\ m \in 1..n /\ ~(m <= m - 1) /\ m - 1 \in Nat /\ (m - 1) + 1 = m
      BY <1>1, <2>3, <2>5
    <3>2. PartOf(f[m - 1], matches, m - 1)
      BY <2>2, <3>1
    <3> HIDE DEF f, n
    <3>3. PartOf(Turn(matches, off, (m - 1) + 1, f[m - 1]), matches, (m - 1) + 1)
      BY <3>1, <3>2, TurnKeepsPart
    <3> QED
      BY <1>4, <2>3, <3>1, <3>3
  <2> QED
    BY <2>4, <2>5
<1>6. n \in 0..n
  BY <1>1
<1> HIDE DEF f, n
<1>7. PartOf(f[n], matches, n)
  BY <1>5, <1>6
<1> QED
  BY <1>3, <1>7 DEF n

-----------------------------------------------------------------------------
\* Nothing is claimed twice.

\* A call on any graph, in order or not.
CallSpec ==
  /\ \E g, eps, unsupported : \E disableAll \in BOOLEAN : Start(g, eps, unsupported, disableAll)
  /\ [][Next]_vars

\* Sets that were accepted, none of them empty, no two with a node in common.
Claims(ms, taken) ==
  /\ \A i \in DOMAIN ms : ms[i].nodes # {} /\ ms[i].nodes \subseteq taken
  /\ \A i, j \in DOMAIN ms : i # j => ms[i].nodes \cap ms[j].nodes = {}

\* What ClaimedOnce needs to be inductive: what is known at each step of the
\* pass, and that only the search for fusions has candidates.
ClaimInd ==
  /\ \E S : matches \in Seq(S)
  /\ Claims(matches, accepted_node_ids)
  /\ phase # "find" => proposed = <<>>
  /\ phase \in {"find", "collect"} => provider = {}
  /\ phase \in {"find", "collect", "seed"} => cpu_nodes = {}
  /\ phase \in {"find", "collect", "seed", "walk", "register"} => single = {}
  /\ phase \notin {"find", "collect"} => provider \cap Fused = {}
  /\ cpu_nodes \subseteq provider
  /\ single \subseteq provider \ cpu_nodes

\* Erasing matches keeps the others apart.
LEMMA EnabledClaims ==
  ASSUME NEW off, NEW S, matches \in Seq(S), Claims(matches, accepted_node_ids)
  PROVE  Claims(Enabled(off), accepted_node_ids)
<1>1. PartOf(Enabled(off), matches, Len(matches)) /\ DOMAIN matches = 1..Len(matches)
  BY EnabledIsPart
<1> DEFINE gs == Enabled(off)
<1> HIDE DEF gs
<1>2. PartOf(gs, matches, Len(matches))
  BY <1>1 DEF gs
<1>3. ASSUME NEW j \in DOMAIN gs
      PROVE  gs[j].nodes # {} /\ gs[j].nodes \subseteq accepted_node_ids
  <2>1. PICK i \in 1..Len(matches) : gs[j] = matches[i]
    BY <1>2 DEF PartOf
  <2> QED
    BY <1>1, <2>1 DEF Claims
<1>4. ASSUME NEW j \in DOMAIN gs, NEW k \in DOMAIN gs, j # k
      PROVE  gs[j].nodes \cap gs[k].nodes = {}
  <2>1. PICK i \in 1..Len(matches), l \in 1..Len(matches) :
          i # l /\ gs[j] = matches[i] /\ gs[k] = matches[l]
    BY <1>2, <1>4 DEF PartOf
  <2> QED
    BY <1>1, <2>1 DEF Claims
<1>5. Claims(gs, accepted_node_ids)
  BY <1>3, <1>4 DEF Claims
<1> QED
  BY <1>5 DEF gs

\* A set that meets no accepted node can be added.
LEMMA AcceptClaims ==
  ASSUME NEW S, matches \in Seq(S), Claims(matches, accepted_node_ids),
         NEW m, m.nodes # {}, m.nodes \cap accepted_node_ids = {}
  PROVE  /\ Append(matches, m) \in Seq(S \cup {m})
         /\ Claims(Append(matches, m), accepted_node_ids \cup m.nodes)
<1> DEFINE hs == Append(matches, m)
<1>1. hs \in Seq(S \cup {m})
  <2>1. matches \in Seq(S \cup {m})
    OBVIOUS
  <2> QED
    BY <2>1
<1>2. /\ DOMAIN matches = 1..Len(matches) /\ DOMAIN hs = 1..(Len(matches) + 1)
      /\ Len(matches) \in Nat /\ hs[Len(matches) + 1] = m
      /\ \A j \in 1..Len(matches) : hs[j] = matches[j]
  OBVIOUS
<1> HIDE DEF hs
<1>3. \A j \in DOMAIN hs : \/ j \in DOMAIN matches /\ hs[j] = matches[j]
                           \/ j = Len(matches) + 1 /\ hs[j] = m
  BY <1>2
<1>4. ASSUME NEW j \in DOMAIN hs
      PROVE  hs[j].nodes # {} /\ hs[j].nodes \subseteq accepted_node_ids \cup m.nodes
  BY <1>3 DEF Claims
<1>5. ASSUME NEW j \in DOMAIN hs, NEW k \in DOMAIN hs, j # k
      PROVE  hs[j].nodes \cap hs[k].nodes = {}
  <2>1. CASE j \in DOMAIN matches /\ hs[j] = matches[j] /\ k \in DOMAIN matches /\ hs[k] = matches[k]
    BY <1>5, <2>1 DEF Claims
  <2>2. CASE j \in DOMAIN matches /\ hs[j] = matches[j] /\ hs[k] = m
    <3>1. matches[j].nodes \subseteq accepted_node_ids
      BY <2>2 DEF Claims
    <3> QED
      BY <2>2, <3>1
  <2>3. CASE hs[j] = m /\ k \in DOMAIN matches /\ hs[k] = matches[k]
    <3>1. matches[k].nodes \subseteq accepted_node_ids
      BY <2>3 DEF Claims
    <3> QED
      BY <2>3, <3>1
  <2> QED
    BY <1>3, <1>5, <2>1, <2>2, <2>3
<1>6. Claims(hs, accepted_node_ids \cup m.nodes)
  BY <1>4, <1>5 DEF Claims
<1> QED
  BY <1>1, <1>6 DEF hs

\* What is fused depends on the matches alone.
LEMMA SameFused == matches' = matches => Fused' = Fused
BY DEF Fused

\* Every step keeps the claims apart.
LEMMA ClaimIndStep ==
  ASSUME ClaimInd, [Next]_vars
  PROVE  ClaimInd'
<1> USE DEF environment, compileVars
<1>1. CASE CallFinder
  BY <1>1, SameFused DEF ClaimInd, CallFinder, walkVars
<1>2. CASE SkipCandidate \/ RejectCandidate
  <2>1. phase = "find"
    BY <1>2 DEF ClaimInd, SkipCandidate, RejectCandidate, TakeCandidate
  <2> QED
    BY <1>2, <2>1, SameFused DEF ClaimInd, SkipCandidate, RejectCandidate, TakeCandidate, walkVars
<1>3. CASE AcceptCandidate
  <2>1. phase = "find" /\ phase' = phase
    BY <1>3 DEF ClaimInd, AcceptCandidate, TakeCandidate
  <2> DEFINE m == [finder |-> Considered, nodes |-> Head(proposed)]
  <2>2. /\ m.nodes = Head(proposed) /\ m.nodes # {} /\ m.nodes \cap accepted_node_ids = {}
        /\ matches' = Append(matches, m) /\ accepted_node_ids' = accepted_node_ids \cup m.nodes
    BY <1>3 DEF AcceptCandidate, NormalizeCandidate, CandidateOverlapsAccepted
  <2> HIDE DEF m
  <2>3. PICK S : matches \in Seq(S)
    BY DEF ClaimInd
  <2>4. matches' \in Seq(S \cup {m}) /\ Claims(matches', accepted_node_ids')
    BY <2>2, <2>3, AcceptClaims DEF ClaimInd
  <2>5. UNCHANGED <<provider, cpu_nodes, single>>
    BY <1>3 DEF AcceptCandidate, TakeCandidate, walkVars
  <2> QED
    BY <2>1, <2>4, <2>5 DEF ClaimInd
<1>4. CASE \E disabled \in SUBSET {"ShapeReshape", "TileConcat"} : RegisterFusionMatches(disabled)
  <2>1. PICK off \in SUBSET {"ShapeReshape", "TileConcat"} : RegisterFusionMatches(off)
    BY <1>4
  <2>2. PICK S : matches \in Seq(S)
    BY DEF ClaimInd
  <2>3. \E T : Enabled(off) \in Seq(T)
    BY <2>2, EnabledIsPart DEF PartOf
  <2>4. Claims(Enabled(off), accepted_node_ids)
    BY <2>2, EnabledClaims DEF ClaimInd
  <2>5. /\ phase = "find" /\ phase' = "collect" /\ proposed' = <<>> /\ matches' = Enabled(off)
        /\ UNCHANGED <<accepted_node_ids, provider, cpu_nodes, single>>
    BY <2>1 DEF RegisterFusionMatches, walkVars
  <2> QED
    BY <2>3, <2>4, <2>5 DEF ClaimInd
<1>5. CASE CollectSupportedNodeCandidates
  <2>1. /\ phase = "collect" /\ phase' \in {"register", "seed"} /\ provider' \cap Fused = {}
        /\ UNCHANGED <<matches, accepted_node_ids, proposed, cpu_nodes, single>>
    BY <1>5 DEF CollectSupportedNodeCandidates, selectVars, walkVars
  <2>2. cpu_nodes = {} /\ single = {}
    BY <2>1 DEF ClaimInd
  <2> QED
    BY <2>1, <2>2, SameFused DEF ClaimInd
<1>6. CASE BeginWalk
  <2>1. /\ phase = "seed" /\ phase' \in {"failed", "walk"}
        /\ UNCHANGED <<matches, accepted_node_ids, proposed, provider, cpu_nodes, single>>
    BY <1>6 DEF BeginWalk, SeedCandidates, selectVars, walkVars
  <2> QED
    BY <2>1, SameFused DEF ClaimInd
<1>7. CASE Walk
  <2>1. /\ phase = "walk" /\ phase' = phase
        /\ UNCHANGED <<matches, accepted_node_ids, proposed, provider, single>>
        /\ cpu_nodes' \subseteq cpu_nodes \cup provider
    BY <1>7 DEF Walk, VisitCandidate, selectVars
  <2> QED
    BY <2>1, SameFused DEF ClaimInd
<1>8. CASE RegisterSingleNodeCapabilities
  <2>1. /\ phase \in {"register", "walk"} /\ phase' = "partition"
        /\ UNCHANGED <<matches, accepted_node_ids, proposed, provider, cpu_nodes>>
        /\ single' = provider \ cpu_nodes
    BY <1>8 DEF RegisterSingleNodeCapabilities, selectVars, walkVars
  <2> QED
    BY <2>1, SameFused DEF ClaimInd
<1>9. CASE Partition \/ CompileImpl
  <2>1. /\ phase \in {"partition", "compile"} /\ phase' \in {"partition", "compile", "failed"}
        /\ UNCHANGED <<matches, accepted_node_ids, proposed, provider, cpu_nodes, single>>
    BY <1>9 DEF Partition, CompileImpl, selectVars, walkVars
  <2> QED
    BY <2>1, SameFused DEF ClaimInd
<1>10. CASE Finish \/ UNCHANGED vars
  BY <1>10, SameFused DEF ClaimInd, Finish, vars, selectVars, walkVars
<1> QED
  BY <1>1, <1>2, <1>3, <1>4, <1>5, <1>6, <1>7, <1>8, <1>9, <1>10 DEF Next

\* GetCapability claims no node twice and none that it leaves to the CPU,
\* whatever the finders propose, in any graph and with any switch.
THEOREM ClaimedOnceAlways == CallSpec => []ClaimedOnce
<1>1. ASSUME \E g, eps, unsupported : \E disableAll \in BOOLEAN :
               Start(g, eps, unsupported, disableAll)
      PROVE  ClaimInd
  <2>1. /\ phase \in {"find", "collect"} /\ proposed = <<>> /\ accepted_node_ids = {}
        /\ matches = <<>> /\ provider = {} /\ single = {} /\ cpu_nodes = {}
    BY <1>1 DEF Start, WalkInit
  <2>2. matches \in Seq({})
    BY <2>1
  <2>3. Claims(matches, accepted_node_ids)
    BY <2>1 DEF Claims
  <2> QED
    BY <2>1, <2>2, <2>3 DEF ClaimInd
<1>2. ClaimInd /\ [Next]_vars => ClaimInd'
  BY ClaimIndStep
<1>3. ClaimInd => ClaimedOnce
  <2> SUFFICES ASSUME ClaimInd PROVE ClaimedOnce
    OBVIOUS
  <2>1. single \cap Fused = {}
    BY DEF ClaimInd
  <2> QED
    BY <2>1 DEF ClaimInd, Claims, ClaimedOnce
<1> QED
  BY <1>1, <1>2, <1>3, PTL DEF CallSpec

-----------------------------------------------------------------------------
\* Folds over the first n numbers.

\* The last number of a set that holds it.
LEMMA LastOfInterval ==
  ASSUME NEW k \in Nat, NEW s, s \subseteq 1..k, k \in s
  PROVE  Max(s) = k
<1>1. \A x \in s : x \in Int /\ k >= x
  OBVIOUS
<1>2. Max(s) = CHOOSE x \in s : \A y \in s : x >= y
  BY DEF Max
<1>3. \A x \in s : (\A y \in s : x >= y) => x = k
  BY <1>1
<1> QED
  BY <1>1, <1>2, <1>3

\* A set of numbers up to n that is not empty has a last one.
LEMMA GreatestOf ==
  ASSUME NEW n \in Nat, NEW s, s \subseteq 1..n, s # {}
  PROVE  \E m \in s : \A y \in s : m >= y
<1> DEFINE T == {x \in 0..n : \A y \in s : y <= x}
<1>1. n \in T /\ T \subseteq Nat
  OBVIOUS
<1>2. PICK m \in T : \A x \in T : m <= x
  <2> HIDE DEF T
  <2> QED
    BY <1>1, FirstOfSet
<1>3. m \in s
  <2>1. PICK y \in s : TRUE
    OBVIOUS
  <2>2. m \in Nat /\ y \in Nat /\ y >= 1 /\ y <= m /\ m <= n
    BY <1>1
  <2>3. m - 1 \in 0..n /\ ~(m <= m - 1)
    BY <2>2
  <2>4. m - 1 \notin T
    BY <1>2, <2>3
  <2>5. PICK z \in s : ~(z <= m - 1)
    BY <2>3, <2>4
  <2>6. z \in Nat /\ z <= m
    BY <1>2
  <2> QED
    BY <2>2, <2>5, <2>6
<1>4. \A y \in s : m >= y
  OBVIOUS
<1> HIDE DEF T
<1> QED
  BY <1>3, <1>4

\* The last number of a set is one of them.
LEMMA LastIsIn ==
  ASSUME NEW n \in Nat, NEW s, s \subseteq 1..n, s # {}
  PROVE  Max(s) \in s /\ s \ {Max(s)} \subseteq 1..n
BY GreatestOf DEF Max

\* A set of numbers up to k without k is one of numbers before it.
LEMMA WithoutLast ==
  ASSUME NEW k \in Nat, k # 0, NEW s, s \subseteq 1..k
  PROVE  /\ k - 1 \in Nat
         /\ k \notin s => s \subseteq 1..(k - 1)
         /\ s \ {k} \subseteq 1..(k - 1)
         /\ (1..k) \ {k} = 1..(k - 1)
OBVIOUS

\* The function that a fold of step over the sets of numbers up to n defines.
FoldsBy(step, base, n, V, it) ==
  /\ it \in [SUBSET (1..n) -> V]
  /\ \A s \in SUBSET (1..n) :
       it[s] = IF s = {} THEN base ELSE step[<<Max(s), it[s \ {Max(s)}]>>]

\* One more number.
LEMMA FoldsByOneMore ==
  ASSUME NEW n \in Nat, n # 0, NEW m \in Nat, n <= m, NEW V, NEW base \in V,
         NEW step \in [(1..m) \X V -> V], NEW it, FoldsBy(step, base, n - 1, V, it)
  PROVE  \E g : FoldsBy(step, base, n, V, g)
<1> DEFINE g == [s \in SUBSET (1..n) |-> IF n \in s THEN step[<<n, it[s \ {n}]>>] ELSE it[s]]
<1>1. \A s \in SUBSET (1..n) : /\ s \ {n} \in SUBSET (1..(n - 1))
                               /\ n \notin s => s \in SUBSET (1..(n - 1))
                               /\ n \in s => Max(s) = n
  BY WithoutLast, LastOfInterval
<1>2. \A s \in SUBSET (1..(n - 1)) :
         /\ s \in SUBSET (1..n) /\ n \notin s /\ it[s] \in V
         /\ it[s] = IF s = {} THEN base ELSE step[<<Max(s), it[s \ {Max(s)}]>>]
  BY DEF FoldsBy
<1>3. \A s \in SUBSET (1..(n - 1)) : g[s] = it[s]
  BY <1>2
<1>4. \A s \in SUBSET (1..n) : n \in s => g[s] = step[<<n, it[s \ {n}]>>]
  OBVIOUS
<1>5. n \in 1..m
  OBVIOUS
<1>6. \A x \in V : step[<<n, x>>] \in V
  BY <1>5
<1>7. \A s \in SUBSET (1..n) : (IF n \in s THEN step[<<n, it[s \ {n}]>>] ELSE it[s]) \in V
  BY <1>1, <1>2, <1>6
<1>8. g \in [SUBSET (1..n) -> V]
  BY <1>7
<1> HIDE DEF g
<1>9. ASSUME NEW s \in SUBSET (1..n)
      PROVE  g[s] = IF s = {} THEN base ELSE step[<<Max(s), g[s \ {Max(s)}]>>]
  <2>1. CASE n \in s
    <3>1. Max(s) = n /\ g[s \ {n}] = it[s \ {n}] /\ s # {}
      BY <1>1, <1>3, <2>1
    <3> QED
      BY <1>4, <2>1, <3>1
  <2>2. CASE n \notin s
    <3>1. s \in SUBSET (1..(n - 1)) /\ s \ {Max(s)} \in SUBSET (1..(n - 1))
      BY <1>1, <2>2
    <3> QED
      BY <1>2, <1>3, <3>1
  <2> QED
    BY <2>1, <2>2
<1> QED
  BY <1>8, <1>9 DEF FoldsBy

\* There is such a function for every n.
LEMMA FoldsByExists ==
  ASSUME NEW n \in Nat, NEW V, NEW base \in V, NEW step \in [(1..n) \X V -> V]
  PROVE  \E it : FoldsBy(step, base, n, V, it)
<1> DEFINE Bad == {k \in 0..n : ~\E it : FoldsBy(step, base, k, V, it)}
<1>1. SUFFICES Bad = {}
  <2>1. n \in 0..n
    OBVIOUS
  <2> QED
    BY <2>1
<1>2. SUFFICES ASSUME Bad # {} PROVE FALSE
  OBVIOUS
<1>3. PICK k \in Bad : \A j \in Bad : k <= j
  <2>1. Bad \subseteq Nat
    OBVIOUS
  <2> HIDE DEF Bad
  <2> QED
    BY <1>2, <2>1, FirstOfSet
<1>4. k \in 0..n /\ ~\E it : FoldsBy(step, base, k, V, it)
  OBVIOUS
<1>5. CASE k = 0
  <2> DEFINE it == [s \in SUBSET (1..0) |-> base]
  <2>1. \A s \in SUBSET (1..0) : s = {}
    OBVIOUS
  <2>2. it \in [SUBSET (1..0) -> V] /\ \A s \in SUBSET (1..0) : it[s] = base
    OBVIOUS
  <2> HIDE DEF it
  <2>3. FoldsBy(step, base, 0, V, it)
    BY <2>1, <2>2 DEF FoldsBy
  <2> QED
    BY <1>4, <1>5, <2>3
<1>6. CASE k # 0
  <2>1. k \in Nat /\ k - 1 \in Nat /\ k - 1 \in 0..n /\ ~(k <= k - 1) /\ k <= n
    BY <1>4, <1>6
  <2>2. PICK it : FoldsBy(step, base, k - 1, V, it)
    BY <1>3, <2>1
  <2> HIDE DEF Bad
  <2> QED
    BY <1>4, <1>6, <2>1, <2>2, FoldsByOneMore
<1> QED
  BY <1>5, <1>6

\* Along the first numbers such a function goes on by one step at a time.
LEMMA PrefixSets ==
  ASSUME NEW n \in Nat, NEW i \in 1..n
  PROVE  /\ 1..i \in SUBSET (1..n) /\ 1..i # {} /\ Max(1..i) = i
         /\ (1..i) \ {i} = 1..(i - 1) /\ i - 1 \in 0..n /\ i \in Nat
<1>1. i \in Nat /\ i # 0 /\ i \in 1..i /\ 1..i \subseteq 1..n /\ i - 1 \in 0..n
  OBVIOUS
<1>2. Max(1..i) = i
  BY <1>1, LastOfInterval
<1>3. (1..i) \ {i} = 1..(i - 1)
  BY <1>1
<1> QED
  BY <1>1, <1>2, <1>3

-----------------------------------------------------------------------------
\* What a node leads to.

\* One turn of Below.
Onward(i, reached) ==
  IF \E v \in ToSet(In(i)) : Producer(v) \in reached THEN reached \cup {i} ELSE reached

\* What Below has reached after each node.
Reaching(S, f) ==
  /\ f[0] = S
  /\ \A i \in 1..Len(graph.node) : f[i] = Onward(i, f[i - 1])
  /\ Below(S) = f[Len(graph.node)]

\* Below is such a walk.
LEMMA BelowReaches ==
  ASSUME IsList(graph.node), NEW S
  PROVE  \E f : Reaching(S, f)
<1> DEFINE n == Len(graph.node)
           D == DOMAIN [i \in DOMAIN graph.node |-> i]
           V == SUBSET (S \cup 1..n)
           step == [p \in (1..n) \X V |-> Onward(p[1], p[2])]
           P(g) == g = [s \in SUBSET D |->
              IF s = {} THEN S
              ELSE IF \E v \in ToSet(In([i \in DOMAIN graph.node |-> i][Max(s)])) :
                        Producer(v) \in g[s \ {Max(s)}]
                   THEN g[s \ {Max(s)}] \cup {[i \in DOMAIN graph.node |-> i][Max(s)]}
                   ELSE g[s \ {Max(s)}]]
           h == CHOOSE g : P(g)
<1>1. n \in Nat /\ D = 1..n /\ DOMAIN graph.node = 1..n
  BY DEF IsList
<1>2. Below(S) = h[D]
  BY DEF Below, FoldLeftDomain, FoldLeft, MapThenFoldSet
<1>3. S \in V
  OBVIOUS
<1>4. step \in [(1..n) \X V -> V]
  <2> SUFFICES ASSUME NEW p \in (1..n) \X V PROVE Onward(p[1], p[2]) \in V
    OBVIOUS
  <2> QED
    BY DEF Onward
<1>5. \E it : FoldsBy(step, S, n, V, it)
  <2> HIDE DEF n, V, step
  <2> QED
    BY <1>1, <1>3, <1>4, FoldsByExists
<1>6. PICK it : FoldsBy(step, S, n, V, it)
  BY <1>5
<1>7. \A s \in SUBSET (1..n) : s # {} =>
         /\ Max(s) \in 1..n /\ s \ {Max(s)} \in SUBSET (1..n)
         /\ [i \in DOMAIN graph.node |-> i][Max(s)] = Max(s)
  <2> SUFFICES ASSUME NEW s \in SUBSET (1..n), s # {}
               PROVE  Max(s) \in 1..n
    BY <1>1
  <2> HIDE DEF n
  <2> QED
    BY <1>1, LastIsIn
<1>8. P(it)
  <2>1. \A s \in SUBSET (1..n) : s # {} =>
           it[s \ {Max(s)}] \in V /\ it[s] = Onward(Max(s), it[s \ {Max(s)}])
    BY <1>6, <1>7 DEF FoldsBy
  <2>2. it = [s \in SUBSET (1..n) |-> it[s]] /\ it[{}] = S
    BY <1>6 DEF FoldsBy
  <2> HIDE DEF V, step
  <2>3. \A s \in SUBSET D :
          it[s] = IF s = {} THEN S
              ELSE IF \E v \in ToSet(In([i \in DOMAIN graph.node |-> i][Max(s)])) :
                        Producer(v) \in it[s \ {Max(s)}]
                   THEN it[s \ {Max(s)}] \cup {[i \in DOMAIN graph.node |-> i][Max(s)]}
                   ELSE it[s \ {Max(s)}]
    BY <1>1, <1>7, <2>1, <2>2 DEF Onward
  <2> QED
    BY <1>1, <2>2, <2>3
<1>9. P(h)
  <2> HIDE DEF P
  <2> QED
    BY <1>8
<1>10. \A s \in SUBSET (1..n) :
         h[s] = IF s = {} THEN S ELSE Onward(Max(s), h[s \ {Max(s)}])
  <2>1. \A s \in SUBSET D :
          h[s] = IF s = {} THEN S
              ELSE IF \E v \in ToSet(In([i \in DOMAIN graph.node |-> i][Max(s)])) :
                        Producer(v) \in h[s \ {Max(s)}]
                   THEN h[s \ {Max(s)}] \cup {[i \in DOMAIN graph.node |-> i][Max(s)]}
                   ELSE h[s \ {Max(s)}]
    <3> HIDE DEF h
    <3> QED
      BY <1>9, Zenon
  <2> HIDE DEF h, P
  <2> QED
    BY <1>1, <1>7, <2>1 DEF Onward
<1> DEFINE f == [i \in 0..n |-> h[1..i]]
<1> HIDE DEF h, P, D, V, step
<1>11. f[0] = S
  <2>1. 1..0 = {} /\ {} \in SUBSET (1..n) /\ 0 \in 0..n
    BY <1>1
  <2> QED
    BY <1>10, <2>1
<1>12. ASSUME NEW i \in 1..n PROVE f[i] = Onward(i, f[i - 1])
  <2>1. /\ 1..i \in SUBSET (1..n) /\ 1..i # {} /\ Max(1..i) = i
        /\ (1..i) \ {i} = 1..(i - 1) /\ i - 1 \in 0..n /\ i \in 0..n
    BY <1>1, PrefixSets
  <2> QED
    BY <1>10, <2>1
<1>13. f[n] = h[D]
  BY <1>1
<1> HIDE DEF f
<1> QED
  BY <1>2, <1>11, <1>12, <1>13 DEF Reaching

\* The graph as ONNX Runtime hands it over, without what no proof needs.
LEMMA WellFormedNodes ==
  ASSUME WellFormed(graph)
  PROVE  /\ InOrder(graph) /\ IsList(graph.node)
         /\ Len(graph.node) \in Nat /\ Node = 1..Len(graph.node)
BY DEF WellFormed, IsList, Node

\* A node reads what is written before it.
LEMMA ProducerIsBefore ==
  ASSUME WellFormed(graph), NEW m \in Node, NEW v \in ToSet(In(m)), Producer(v) \in Node
  PROVE  Producer(v) < m /\ v \in Outputs(Producer(v)) /\ m \in ReaderNodes(v) /\ v # Missing
<1>1. v # Missing
  BY WellFormedNodes DEF Producer
<1>2. PICK i \in DOMAIN In(m) : v = In(m)[i]
  BY DEF ToSet
<1>3. v \in Outputs(Producer(v)) /\ m \in ReaderNodes(v)
  BY <1>1, <1>2, WellFormedNodes, Order
<1>4. m > Producer(v) /\ m \in Nat /\ Producer(v) \in Nat
  BY <1>3, WellFormedNodes, Order
<1> QED
  BY <1>1, <1>3, <1>4

\* As far as node i, Below has found all there is before it.
LEMMA ReachingGrows ==
  ASSUME WellFormed(graph), NEW S, NEW f, Reaching(S, f),
         NEW i \in 0..Len(graph.node), NEW j \in 0..Len(graph.node), j <= i
  PROVE  /\ S \subseteq f[j] /\ f[j] \subseteq f[i]
         /\ f[i] \subseteq f[j] \cup {x \in Node : x > j}
<1> DEFINE n == Len(graph.node)
           Holds(k) == \A l \in 0..k :
                         /\ S \subseteq f[l] /\ f[l] \subseteq f[k]
                         /\ f[k] \subseteq f[l] \cup {x \in Node : x > l}
           Bad == {k \in 0..n : ~Holds(k)}
<1>1. n \in Nat /\ Node = 1..n
  BY WellFormedNodes
<1>2. f[0] = S /\ \A k \in 1..n : f[k] = Onward(k, f[k - 1])
  BY DEF Reaching
<1> HIDE DEF n
<1>3. Bad = {}
  <2>1. SUFFICES ASSUME Bad # {} PROVE FALSE
    OBVIOUS
  <2>2. PICK k \in Bad : \A l \in Bad : k <= l
    <3>1. Bad \subseteq Nat
      BY <1>1
    <3> HIDE DEF Bad
    <3> QED
      BY <2>1, <3>1, FirstOfSet
  <2>3. k \in 0..n /\ ~Holds(k)
    OBVIOUS
  <2>4. k # 0
    <3>1. \A l \in 0..0 : l = 0
      OBVIOUS
    <3>2. Holds(0)
      BY <1>2, <3>1
    <3> QED
      BY <2>3, <3>2
  <2>5. k \in 1..n /\ k - 1 \in 0..n /\ ~(k <= k - 1) /\ k \in Nat
    BY <1>1, <2>3, <2>4
  <2>6. Holds(k - 1)
    BY <2>2, <2>5
  <2>7. f[k - 1] \subseteq f[k] /\ f[k] \subseteq f[k - 1] \cup {k}
    BY <1>2, <2>5 DEF Onward
  <2>8. ASSUME NEW l \in 0..k
        PROVE  /\ S \subseteq f[l] /\ f[l] \subseteq f[k]
               /\ f[k] \subseteq f[l] \cup {x \in Node : x > l}
    <3>1. CASE l = k
      <4>1. S \subseteq f[k - 1]
        <5>1. k - 1 \in 0..(k - 1)
          BY <2>5
        <5> QED
          BY <2>6, <5>1
      <4> QED
        BY <2>7, <3>1, <4>1
    <3>2. CASE l # k
      <4>1. l \in 0..(k - 1) /\ k > l /\ k \in Node
        BY <1>1, <2>5, <3>2
      <4> QED
        BY <2>6, <2>7, <4>1
    <3> QED
      BY <3>1, <3>2
  <2> QED
    BY <2>3, <2>8
<1>4. Holds(i)
  BY <1>3 DEF n
<1>5. j \in 0..i
  BY <1>1 DEF n
<1> QED
  BY <1>4, <1>5

\* Below of a set: it holds the set, whatever reads its results, and no more.
LEMMA BelowHolds ==
  ASSUME WellFormed(graph), NEW S
  PROVE  S \subseteq Below(S) /\ Below(S) \subseteq S \cup Node
<1> DEFINE n == Len(graph.node)
<1>1. n \in Nat /\ Node = 1..n /\ IsList(graph.node)
  BY WellFormedNodes
<1>2. PICK f : Reaching(S, f)
  BY <1>1, BelowReaches
<1>3. 0 \in 0..n /\ n \in 0..n /\ 0 <= n
  BY <1>1
<1>4. f[0] \subseteq f[n] /\ f[n] \subseteq f[0] \cup {x \in Node : x > 0}
  BY <1>2, <1>3, ReachingGrows
<1> QED
  BY <1>2, <1>4 DEF Reaching

\* What reads a result of one of its nodes is in it,
LEMMA BelowGoesOn ==
  ASSUME WellFormed(graph), NEW S, NEW m \in Node, NEW v \in ToSet(In(m)),
         Producer(v) \in Below(S)
  PROVE  m \in Below(S)
<1> DEFINE n == Len(graph.node)
<1>1. n \in Nat /\ Node = 1..n /\ IsList(graph.node)
  BY WellFormedNodes
<1>2. PICK f : Reaching(S, f)
  BY <1>1, BelowReaches
<1>3. /\ m - 1 \in 0..n /\ m \in 0..n /\ n \in 0..n /\ m - 1 <= n /\ m <= n /\ m \in 1..n
      /\ m \in Nat
  BY <1>1
<1>4. Below(S) = f[n] /\ f[m] = Onward(m, f[m - 1])
  BY <1>2, <1>3 DEF Reaching
<1>5. /\ f[n] \subseteq f[m - 1] \cup {x \in Node : x > m - 1}
      /\ f[m] \subseteq f[n]
  BY <1>2, <1>3, ReachingGrows
<1>6. Producer(v) \in f[m - 1]
  <2> SUFFICES ASSUME Producer(v) \in Node, Producer(v) > m - 1 PROVE FALSE
    BY <1>4, <1>5
  <2>1. Producer(v) < m /\ Producer(v) \in Nat
    BY <1>1, ProducerIsBefore
  <2> QED
    BY <1>3, <2>1
<1>7. m \in f[m]
  BY <1>4, <1>6 DEF Onward
<1> QED
  BY <1>4, <1>5, <1>7

\* and it is the least such set.
LEMMA BelowIsLeast ==
  ASSUME WellFormed(graph), NEW S, NEW T, S \subseteq T,
         \A m \in Node : \A v \in ToSet(In(m)) : Producer(v) \in T => m \in T
  PROVE  Below(S) \subseteq T
<1> DEFINE n == Len(graph.node)
<1>1. n \in Nat /\ Node = 1..n /\ IsList(graph.node)
  BY WellFormedNodes
<1>2. PICK f : Reaching(S, f)
  BY <1>1, BelowReaches
<1> DEFINE Bad == {k \in 0..n : ~(f[k] \subseteq T)}
<1>3. f[0] = S /\ Below(S) = f[n] /\ \A k \in 1..n : f[k] = Onward(k, f[k - 1])
  BY <1>2 DEF Reaching
<1> HIDE DEF n
<1>4. Bad = {}
  <2>1. SUFFICES ASSUME Bad # {} PROVE FALSE
    OBVIOUS
  <2>2. PICK k \in Bad : \A l \in Bad : k <= l
    <3>1. Bad \subseteq Nat
      BY <1>1
    <3> HIDE DEF Bad
    <3> QED
      BY <2>1, <3>1, FirstOfSet
  <2>3. k \in 0..n /\ ~(f[k] \subseteq T) /\ k # 0
    BY <1>3
  <2>4. k \in 1..n /\ k - 1 \in 0..n /\ ~(k <= k - 1)
    BY <1>1, <2>3
  <2>5. f[k - 1] \subseteq T
    BY <2>2, <2>4
  <2>6. f[k] \subseteq T
    BY <1>1, <1>3, <2>4, <2>5 DEF Onward
  <2> QED
    BY <2>3, <2>6
<1> QED
  BY <1>1, <1>3, <1>4

-----------------------------------------------------------------------------
\* The edges of the graph.

\* m reads a result of n.
Feeds(n, m) == \E v \in ToSet(In(m)) : Producer(v) = n

\* What a node writes has that producer, and is read by the nodes it lists.
LEMMA OutputsAreRead ==
  ASSUME WellFormed(graph), NEW n \in Node, NEW v \in Outputs(n)
  PROVE  /\ Producer(v) = n
         /\ \A m \in ReaderNodes(v) : m \in Node /\ m > n /\ v \in ToSet(In(m))
<1>1. v \in ToSet(graph.node[n].outs) /\ v # Missing
  BY DEF Outputs, Out
<1>2. v \in Values(graph.node)
  BY <1>1 DEF Values, Node
<1>3. /\ graph.producer[v] = Indexed(graph.node, graph.info, graph.outputs).producer[v]
      /\ graph.readers[v] = Indexed(graph.node, graph.info, graph.outputs).readers[v]
  BY DEF WellFormed
<1>4. graph.producer[v] = CHOOSE m \in Node : v \in ToSet(graph.node[m].outs)
  BY <1>1, <1>2, <1>3 DEF Indexed, Node
<1>5. \A m \in Node : v \in ToSet(graph.node[m].outs) => m = n
  <2>1. \A k, m \in Node : k # m =>
          ToSet(graph.node[k].outs) \cap ToSet(graph.node[m].outs) \subseteq {Missing}
    BY DEF WellFormed, Node
  <2> QED
    BY <1>1, <2>1
<1>6. graph.producer[v] = n
  BY <1>1, <1>4, <1>5
<1>7. graph.readers[v] = UNION {{<<m, i>> : i \in {k \in DOMAIN graph.node[m].ins :
                                                    graph.node[m].ins[k] = v}} : m \in Node}
  BY <1>2, <1>3 DEF Indexed, Node
<1>8. \A m \in ReaderNodes(v) : v \in ToSet(In(m))
  <2> SUFFICES ASSUME NEW r \in graph.readers[v] PROVE v \in ToSet(In(r[1]))
    BY DEF ReaderNodes, Readers
  <2>1. PICK m \in Node : \E i \in DOMAIN graph.node[m].ins :
          graph.node[m].ins[i] = v /\ r = <<m, i>>
    BY <1>7
  <2> QED
    BY <2>1 DEF In, ToSet
<1>9. \A m \in ReaderNodes(v) : m \in Node /\ m > n
  BY WellFormedNodes, Order
<1> QED
  BY <1>1, <1>6, <1>8, <1>9 DEF Producer

\* What a node reads is written by a node, or by none.
LEMMA ProducerType ==
  ASSUME WellFormed(graph), NEW m \in Node, NEW v \in ToSet(In(m))
  PROVE  Producer(v) \in Node \cup {0} /\ 0 \notin Node
<1>1. v \in Values(graph.node)
  BY DEF Values, Node, In
<1>2. graph.producer[v] = Indexed(graph.node, graph.info, graph.outputs).producer[v]
  BY DEF WellFormed
<1>3. graph.producer[v] \in Node \cup {0}
  BY <1>1, <1>2 DEF Indexed, Node
<1>4. 0 \notin Node
  BY WellFormedNodes
<1> QED
  BY <1>3, <1>4 DEF Producer

\* The nodes that read what nodes write.
LEMMA SuccessorsAre ==
  ASSUME WellFormed(graph), NEW S, S \subseteq Node
  PROVE  Successors(S) = {m \in Node : \E n \in S : Feeds(n, m)}
<1>1. ASSUME NEW m \in Successors(S)
      PROVE  m \in Node /\ \E n \in S : Feeds(n, m)
  <2>1. PICK n \in S : \E v \in Outputs(n) : m \in ReaderNodes(v)
    BY DEF Successors
  <2> QED
    BY <2>1, OutputsAreRead DEF Feeds
<1>2. ASSUME NEW m \in Node, NEW n \in S, Feeds(n, m)
      PROVE  m \in Successors(S)
  <2>1. PICK v \in ToSet(In(m)) : Producer(v) = n
    BY <1>2 DEF Feeds
  <2>2. v \in Outputs(n) /\ m \in ReaderNodes(v)
    BY <2>1, ProducerIsBefore
  <2> QED
    BY <2>2 DEF Successors
<1> QED
  BY <1>1, <1>2

\* The same of one node.
LEMMA SuccessorsOfOne ==
  ASSUME WellFormed(graph), NEW n \in Node
  PROVE  Successors({n}) = {m \in Node : Feeds(n, m)}
BY SuccessorsAre

\* An edge leads on to a later node.
LEMMA EdgeGoesUp ==
  ASSUME WellFormed(graph), NEW m \in Node, NEW n \in Node, Feeds(n, m)
  PROVE  n < m /\ n \in Nat /\ m \in Nat
<1>1. n < m
  BY ProducerIsBefore DEF Feeds
<1> QED
  BY <1>1, WellFormedNodes

\* The producers that a set of nodes reads from outside.
LEMMA FeedingAre ==
  ASSUME WellFormed(graph), NEW S, S \subseteq Node
  PROVE  Feeding(S) = {p \in Node \ S : \E m \in S : Feeds(p, m)}
<1>1. \A p : p \in Feeding(S) <=>
        /\ p \notin S /\ p # 0
        /\ \E m \in S : \E v \in ToSet(In(m)) : v # Missing /\ p = Producer(v)
  BY DEF Feeding
<1>2. \A m \in S : \A v \in ToSet(In(m)) : /\ Producer(v) \in Node \cup {0}
                                           /\ Producer(v) \in Node => v # Missing
  BY ProducerType, ProducerIsBefore
<1>3. S = {} \/ 0 \notin Node
  BY WellFormedNodes
<1> QED
  BY <1>1, <1>2, <1>3 DEF Feeds

-----------------------------------------------------------------------------
\* Below, edge by edge.

\* It goes on along an edge,
LEMMA BelowEdge ==
  ASSUME WellFormed(graph), NEW S, NEW n \in Below(S), NEW m \in Node, Feeds(n, m)
  PROVE  m \in Below(S)
BY BelowGoesOn DEF Feeds

\* and no further than any set that does.
LEMMA BelowClosedSet ==
  ASSUME WellFormed(graph), NEW S, NEW T, S \subseteq T,
         \A n \in T, m \in Node : Feeds(n, m) => m \in T
  PROVE  Below(S) \subseteq T
BY BelowIsLeast DEF Feeds

\* What is below a part of it is in it.
LEMMA BelowOfBelow ==
  ASSUME WellFormed(graph), NEW S, NEW T, T \subseteq Below(S)
  PROVE  Below(T) \subseteq Below(S)
BY BelowClosedSet, BelowEdge

\* The same of one of its nodes.
LEMMA BelowOfOne ==
  ASSUME WellFormed(graph), NEW S, NEW x \in Below(S)
  PROVE  Below({x}) \subseteq Below(S)
BY BelowOfBelow

\* A node is below itself.
LEMMA BelowSelf ==
  ASSUME WellFormed(graph), NEW n
  PROVE  n \in Below({n})
BY BelowHolds

\* What a node leads to comes after it.
LEMMA BelowIsLater ==
  ASSUME WellFormed(graph), NEW n \in Node, NEW x \in Below({n})
  PROVE  x \in Node /\ x >= n /\ n \in Nat /\ x \in Nat
<1> DEFINE T == {k \in Node : k >= n}
<1>1. n \in Nat /\ Node \subseteq Nat
  BY WellFormedNodes
<1>2. \A k \in T, m \in Node : Feeds(k, m) => m \in T
  <2> SUFFICES ASSUME NEW k \in T, NEW m \in Node, Feeds(k, m) PROVE m >= n
    OBVIOUS
  <2>1. k < m /\ k \in Nat /\ m \in Nat /\ k >= n
    BY EdgeGoesUp
  <2> QED
    BY <1>1, <2>1
<1>3. {n} \subseteq T
  BY <1>1
<1> HIDE DEF T
<1>4. x \in T
  BY <1>2, <1>3, BelowClosedSet
<1> QED
  BY <1>1, <1>4 DEF T

\* From a node of a set one stays in the set or leaves it.
LEMMA BelowLeaves ==
  ASSUME WellFormed(graph), NEW S, S \subseteq Node, NEW n \in S
  PROVE  Below({n}) \subseteq S \cup Below(Successors(S) \ S)
<1> DEFINE T == S \cup Below(Successors(S) \ S)
<1>1. ASSUME NEW k \in T, NEW m \in Node, Feeds(k, m), m \notin S PROVE m \in T
  <2>1. CASE k \in S
    <3>1. m \in Successors(S) \ S
      BY <1>1, <2>1, SuccessorsAre
    <3> QED
      BY <3>1, BelowHolds
  <2>2. CASE k \in Below(Successors(S) \ S)
    BY <1>1, <2>2, BelowEdge
  <2> QED
    BY <2>1, <2>2
<1>2. \A k \in T, m \in Node : Feeds(k, m) => m \in T
  BY <1>1
<1>3. {n} \subseteq T
  OBVIOUS
<1> HIDE DEF T
<1>4. Below({n}) \subseteq T
  BY <1>2, <1>3, BelowClosedSet
<1> QED
  BY <1>4 DEF T

-----------------------------------------------------------------------------
\* Groups that wait for each other.

\* No path leaves a set of nodes and comes back.
Convex(S) == FusionHasNoExternalPathBetweenSelectedNodes(S)

\* A group waits for another one at an exit of the other that feeds it.
LEMMA WaitsAtExit ==
  ASSUME WellFormed(graph), NEW g, NEW h, g \subseteq Node, h \subseteq Node,
         g \cap h = {}, Waits(g, h)
  PROVE  \E n \in Exits(g) \cap Feeding(h) : \E m \in h : Feeds(n, m) /\ m \in Below({n})
<1>1. PICK n \in g, m \in h : \E v \in Outputs(n) : m \in ReaderNodes(v)
  BY DEF Waits
<1>2. Feeds(n, m)
  BY <1>1, OutputsAreRead DEF Feeds
<1>3. m \in Below({n})
  BY <1>2, BelowSelf, BelowEdge
<1>4. n \in Feeding(h)
  BY <1>2, FeedingAre
<1>5. n \in Exits(g)
  <2>1. m \in Successors({n})
    BY <1>2, SuccessorsOfOne
  <2> QED
    BY <2>1 DEF Exits
<1> QED
  BY <1>2, <1>3, <1>4, <1>5

\* Disjoint groups of nodes, each of which one node can stand for by itself.
Grouping(G) ==
  /\ \A g \in G : g \subseteq Node /\ (Funnel(g) \/ Convex(g))
  /\ \A g, h \in G : g # h => g \cap h = {}

\* Where an open group waits, a path leads on from one of its exits; where a funnel
\* waits, one leads on to each of its exits.
LEMMA WaitsBack ==
  ASSUME WellFormed(graph), NEW g, NEW h, g \subseteq Node, h \subseteq Node,
         g \cap h = {}, Waits(g, h), Funnel(h)
  PROVE  \E n \in Exits(g) : \A x \in Exits(h) : x \in Below({n}) /\ n < x /\ n \in Nat /\ x \in Nat
<1>1. PICK n \in Exits(g) \cap Feeding(h) : TRUE
  BY WaitsAtExit
<1>2. n \in g /\ n \in Node /\ \A x \in Exits(h) : x \in h
  BY <1>1 DEF Exits
<1>3. ASSUME NEW x \in Exits(h)
      PROVE  x \in Below({n}) /\ n < x /\ n \in Nat /\ x \in Nat
  <2>1. x \in Below({n})
    BY <1>1 DEF Funnel
  <2>2. x >= n /\ n \in Nat /\ x \in Nat
    BY <1>2, <2>1, BelowIsLater
  <2>3. x # n
    BY <1>2
  <2> QED
    BY <2>1, <2>2, <2>3
<1> QED
  BY <1>1, <1>3

\* Funnels among themselves do not wait in a ring.
LEMMA FunnelsHaveFirst ==
  ASSUME WellFormed(graph), NEW L, L # {},
         \A g \in L : g \subseteq Node /\ Funnel(g),
         \A g, h \in L : g # h => g \cap h = {}
  PROVE  \E h \in L : \A g \in L : ~Waits(g, h)
<1> SUFFICES ASSUME \A h \in L : \E g \in L : Waits(g, h) PROVE FALSE
  OBVIOUS
<1> DEFINE E == UNION {Exits(g) : g \in L}
<1>1. ASSUME NEW h \in L
      PROVE  \E g \in L : \E n \in Exits(g) :
               \A x \in Exits(h) : n < x /\ n \in Nat /\ x \in Nat
  <2>1. PICK g \in L : Waits(g, h)
    OBVIOUS
  <2>2. g \cap h = {}
    BY <2>1 DEF Waits
  <2>3. g \subseteq Node /\ h \subseteq Node /\ Funnel(h)
    BY <2>1
  <2>4. PICK n \in Exits(g) : \A x \in Exits(h) : x \in Below({n}) /\ n < x /\ n \in Nat /\ x \in Nat
    BY <2>1, <2>2, <2>3, WaitsBack
  <2> QED
    BY <2>1, <2>4
<1>2. E # {} /\ E \subseteq Nat
  <2>1. \A g \in L : Exits(g) \subseteq Nat
    BY WellFormedNodes DEF Exits
  <2>2. PICK h \in L : TRUE
    OBVIOUS
  <2>3. PICK g \in L : \E n \in Exits(g) : TRUE
    BY <1>1, <2>2
  <2> QED
    BY <2>1, <2>3
<1>3. PICK x \in E : \A y \in E : x <= y
  <2> HIDE DEF E
  <2> QED
    BY <1>2, FirstOfSet
<1>4. PICK h \in L : x \in Exits(h)
  OBVIOUS
<1>5. PICK g \in L : \E n \in Exits(g) : n < x /\ n \in Nat /\ x \in Nat
  BY <1>1, <1>4
<1>6. PICK n \in Exits(g) : n < x /\ n \in Nat /\ x \in Nat
  BY <1>5
<1>7. x <= n
  BY <1>3, <1>6
<1> QED
  BY <1>6, <1>7

\* Nor do groups with an open one among them to which no other open one leads.
LEMMA OpenHasFirst ==
  ASSUME WellFormed(graph), NEW L,
         \A g \in L : g \subseteq Node /\ (Funnel(g) \/ Convex(g)),
         \A g, h \in L : g # h => g \cap h = {},
         NEW T \in L, Open(T), \A S \in L \ {T} : Open(S) => ~Reaches(S, T)
  PROVE  \E h \in L : \A g \in L : ~Waits(g, h)
<1> SUFFICES ASSUME \A h \in L : \E g \in L : Waits(g, h) PROVE FALSE
  OBVIOUS
<1>1. Convex(T)
  BY DEF Open
<1> DEFINE E == {n \in UNION {Exits(g) : g \in L \ {T}} : Below({n}) \cap T # {}}
<1>2. E # {}
  <2>1. PICK g \in L : Waits(g, T)
    OBVIOUS
  <2>2. g # T /\ g \cap T = {}
    BY <2>1 DEF Waits
  <2>3. PICK n \in Exits(g) : \E m \in T : m \in Below({n})
    BY <2>1, <2>2, WaitsAtExit
  <2> QED
    BY <2>2, <2>3
<1>3. E \subseteq Nat
  BY WellFormedNodes DEF Exits
<1>4. PICK x \in E : \A y \in E : x <= y
  <2> HIDE DEF E
  <2> QED
    BY <1>2, <1>3, FirstOfSet
<1>5. PICK h \in L \ {T} : x \in Exits(h)
  OBVIOUS
<1>6. x \in h /\ x \notin T /\ h \subseteq Node /\ Below({x}) \cap T # {} /\ x \in Nat /\ h \cap T = {}
  BY <1>3, <1>5 DEF Exits
<1>7. Funnel(h)
  <2>1. Below({x}) \subseteq h \cup Below(Successors(h) \ h)
    BY <1>6, BelowLeaves
  <2>2. Reaches(h, T)
    BY <1>6, <2>1 DEF Reaches
  <2> QED
    BY <2>2 DEF Open
<1>8. PICK k \in L : Waits(k, h)
  BY <1>5
<1>9. k # h /\ k \cap h = {} /\ k \subseteq Node
  BY <1>5, <1>8 DEF Waits
<1>10. PICK n \in Exits(k) : x \in Below({n}) /\ n < x /\ n \in Nat /\ x \in Nat
  BY <1>5, <1>6, <1>7, <1>8, <1>9, WaitsBack
<1>11. Below({x}) \subseteq Below({n})
  BY <1>10, BelowOfOne
<1>12. CASE k # T
  <2>1. n \in E
    BY <1>6, <1>10, <1>11, <1>12, ZenonT(60)
  <2>2. x <= n
    BY <1>4, <2>1
  <2> QED
    BY <1>10, <2>2
<1>13. CASE k = T
  <2>1. n \in T /\ T \subseteq Node
    BY <1>10, <1>13 DEF Exits
  <2>2. x \in Below(Successors(T) \ T)
    BY <1>6, <1>10, <2>1, BelowLeaves
  <2>3. Below({x}) \subseteq Below(Successors(T) \ T)
    BY <2>2, BelowOfOne
  <2> QED
    BY <1>1, <1>6, <2>3 DEF Convex, FusionHasNoExternalPathBetweenSelectedNodes
<1> QED
  BY <1>12, <1>13

-----------------------------------------------------------------------------
\* The rounds of Stuck.

\* One round leaves the groups that wait for one that is left.
Round(left) == {h \in left : \E g \in left : Waits(g, h)}

\* What is left after each round.
Rounds(f) ==
  /\ f[0] = Groups
  /\ \A i \in 1..Cardinality(Groups) : f[i] = Round(f[i - 1])
  /\ Stuck = f[Cardinality(Groups)]

\* Stuck is such rounds.
LEMMA StuckIsRounds ==
  ASSUME IsFiniteSet(Groups)
  PROVE  \E f : Rounds(f)
<1> DEFINE n == Cardinality(Groups)
           D == DOMAIN [k \in 1..n |-> k]
           V == SUBSET Groups
           step == [p \in (1..n) \X V |-> Round(p[2])]
           P(g) == g = [s \in SUBSET D |->
              IF s = {} THEN Groups
              ELSE {h \in g[s \ {Max(s)}] : \E e \in g[s \ {Max(s)}] : Waits(e, h)}]
           h0 == CHOOSE g : P(g)
<1>1. n \in Nat /\ D = 1..n
  BY FS_CardinalityType
<1>2. Stuck = h0[D]
  BY DEF Stuck, FoldLeft, MapThenFoldSet
<1>3. Groups \in V /\ step \in [(1..n) \X V -> V]
  BY DEF Round
<1>4. PICK it : FoldsBy(step, Groups, n, V, it)
  <2> HIDE DEF n, V, step
  <2> QED
    BY <1>1, <1>3, FoldsByExists
<1>5. \A s \in SUBSET (1..n) : s # {} => Max(s) \in 1..n /\ s \ {Max(s)} \in SUBSET (1..n)
  <2> HIDE DEF n
  <2> QED
    BY <1>1, LastIsIn
<1>6. P(it)
  <2>1. \A s \in SUBSET (1..n) : s # {} =>
           it[s \ {Max(s)}] \in V /\ it[s] = Round(it[s \ {Max(s)}])
    BY <1>4, <1>5 DEF FoldsBy
  <2>2. it = [s \in SUBSET (1..n) |-> it[s]] /\ it[{}] = Groups
    BY <1>4 DEF FoldsBy
  <2> HIDE DEF V, step, n
  <2> QED
    BY <1>1, <2>1, <2>2 DEF Round
<1>7. P(h0)
  <2> HIDE DEF P
  <2> QED
    BY <1>6
<1>8. \A s \in SUBSET (1..n) :
         h0[s] = IF s = {} THEN Groups ELSE Round(h0[s \ {Max(s)}])
  <2> HIDE DEF h0
  <2> QED
    BY <1>1, <1>7 DEF Round
<1> DEFINE f == [i \in 0..n |-> h0[1..i]]
<1> HIDE DEF h0, P, D, V, step
<1>9. f[0] = Groups
  <2>1. 1..0 = {} /\ {} \in SUBSET (1..n) /\ 0 \in 0..n
    BY <1>1
  <2> QED
    BY <1>8, <2>1
<1>10. ASSUME NEW i \in 1..n PROVE f[i] = Round(f[i - 1])
  <2>1. /\ 1..i \in SUBSET (1..n) /\ 1..i # {} /\ Max(1..i) = i
        /\ (1..i) \ {i} = 1..(i - 1) /\ i - 1 \in 0..n /\ i \in 0..n
    BY <1>1, PrefixSets
  <2> QED
    BY <1>8, <2>1
<1>11. f[n] = h0[D]
  BY <1>1
<1> HIDE DEF f
<1> QED
  BY <1>2, <1>9, <1>10, <1>11 DEF Rounds

\* There are finitely many groups of nodes.
LEMMA GroupsAreFinite ==
  ASSUME WellFormed(graph), \A g \in Groups : g \subseteq Node
  PROVE  IsFiniteSet(Groups)
<1>1. IsFiniteSet(Node)
  BY WellFormedNodes, FS_Interval
<1>2. IsFiniteSet(SUBSET Node)
  BY <1>1, FS_SUBSET
<1> QED
  BY <1>2, FS_Subset

\* A round takes one group off at least, so nothing is left after as many rounds
\* as there are groups.
LEMMA NothingIsStuck ==
  ASSUME WellFormed(graph), Grouping(Groups),
         \A C \in SUBSET {g \in Groups : Open(g)} :
            C # {} => \E T \in C : \A S \in C \ {T} : ~Reaches(S, T)
  PROVE  Stuck = {}
<1> DEFINE n == Cardinality(Groups)
<1>1. IsFiniteSet(Groups) /\ n \in Nat
  BY GroupsAreFinite, FS_CardinalityType DEF Grouping
<1>2. PICK f : Rounds(f)
  BY <1>1, StuckIsRounds
<1>3. f[0] = Groups /\ Stuck = f[n] /\ \A i \in 1..n : f[i] = Round(f[i - 1])
  BY <1>2 DEF Rounds
<1>4. ASSUME NEW L \in SUBSET Groups, L # {}
      PROVE  \E h \in L : \A g \in L : ~Waits(g, h)
  <2>1. /\ \A g \in L : g \subseteq Node /\ (Funnel(g) \/ Convex(g))
        /\ \A g, h \in L : g # h => g \cap h = {}
    BY DEF Grouping
  <2> DEFINE C == {g \in L : Open(g)}
  <2>2. CASE C = {}
    <3>1. \A g \in L : Funnel(g)
      BY <2>2 DEF Open
    <3> QED
      BY <1>4, <2>1, <3>1, FunnelsHaveFirst
  <2>3. CASE C # {}
    <3>1. C \in SUBSET {g \in Groups : Open(g)}
      OBVIOUS
    <3>2. PICK T \in C : \A S \in C \ {T} : ~Reaches(S, T)
      BY <2>3, <3>1
    <3>3. T \in L /\ Open(T) /\ \A S \in L \ {T} : Open(S) => ~Reaches(S, T)
      BY <3>2
    <3> QED
      BY <2>1, <3>3, OpenHasFirst
  <2> QED
    BY <2>2, <2>3
<1> DEFINE Few(k) == f[k] \subseteq Groups /\ Cardinality(f[k]) <= n - k
           Bad == {k \in 0..n : ~Few(k)}
<1> HIDE DEF n
<1>5. Bad = {}
  <2>1. SUFFICES ASSUME Bad # {} PROVE FALSE
    OBVIOUS
  <2>2. PICK k \in Bad : \A l \in Bad : k <= l
    <3>1. Bad \subseteq Nat
      BY <1>1
    <3> HIDE DEF Bad
    <3> QED
      BY <2>1, <3>1, FirstOfSet
  <2>3. k \in 0..n /\ ~Few(k)
    OBVIOUS
  <2>4. k # 0
    <3>1. Few(0)
      BY <1>1, <1>3 DEF n
    <3> QED
      BY <2>3, <3>1
  <2>5. k \in 1..n /\ k - 1 \in 0..n /\ ~(k <= k - 1) /\ k \in Nat
    BY <1>1, <2>3, <2>4
  <2>6. Few(k - 1)
    BY <2>2, <2>5
  <2> DEFINE L == f[k - 1]
  <2>7. f[k] = Round(L) /\ L \subseteq Groups
    BY <1>3, <2>5, <2>6
  <2>8. IsFiniteSet(L) /\ Cardinality(L) \in Nat /\ Cardinality(L) <= n - (k - 1)
    BY <1>1, <2>6, <2>7, FS_Subset, FS_CardinalityType
  <2> HIDE DEF L, Bad
  <2>9. CASE L = {}
    <3>1. f[k] = {}
      BY <2>7, <2>9 DEF Round
    <3>2. Cardinality(f[k]) = 0
      BY <3>1, FS_EmptySet
    <3> QED
      BY <1>1, <2>3, <2>5, <3>1, <3>2
  <2>10. CASE L # {}
    <3>1. PICK h \in L : \A g \in L : ~Waits(g, h)
      BY <1>4, <2>7, <2>10
    <3>2. f[k] \subseteq L \ {h}
      BY <2>7, <3>1 DEF Round
    <3>3. IsFiniteSet(L \ {h}) /\ Cardinality(L \ {h}) = Cardinality(L) - 1
      BY <2>8, <3>1, FS_RemoveElement
    <3>4. Cardinality(f[k]) <= Cardinality(L \ {h}) /\ Cardinality(f[k]) \in Nat
      BY <3>2, <3>3, FS_Subset, FS_CardinalityType
    <3> QED
      BY <1>1, <2>3, <2>5, <2>7, <2>8, <3>2, <3>3, <3>4
  <2> QED
    BY <2>9, <2>10
<1>6. f[n] \subseteq Groups /\ Cardinality(f[n]) <= 0
  <2>1. n \in 0..n
    BY <1>1
  <2>2. Few(n)
    BY <1>5, <2>1
  <2> QED
    BY <1>1, <2>2
<1>7. IsFiniteSet(f[n]) /\ Cardinality(f[n]) = 0
  <2>1. IsFiniteSet(f[n]) /\ Cardinality(f[n]) \in Nat
    BY <1>1, <1>6, FS_Subset, FS_CardinalityType
  <2> QED
    BY <1>6, <2>1
<1> QED
  BY <1>3, <1>7, FS_EmptySet

-----------------------------------------------------------------------------
\* How funnels are made.

\* What a candidate needs for its group.
Sound(S) == Funnel(S) \/ Convex(S)

\* When every node of a set but one feeds another one of the set, that one is below
\* them all.
LEMMA LeadsToLast ==
  ASSUME WellFormed(graph), NEW S, S \subseteq Node, NEW t \in S,
         \A n \in S \ {t} : \E m \in S : Feeds(n, m)
  PROVE  \A n \in S : t \in Below({n})
<1> DEFINE Missed == {n \in S : t \notin Below({n})}
<1>1. SUFFICES ASSUME Missed # {} PROVE FALSE
  OBVIOUS
<1>2. PICK n \in Missed : \A x \in Missed : n >= x
  <2>1. Len(graph.node) \in Nat /\ Missed \subseteq 1..Len(graph.node)
    BY WellFormedNodes
  <2> HIDE DEF Missed
  <2> QED
    BY <1>1, <2>1, GreatestOf
<1>3. n \in S /\ t \notin Below({n}) /\ n # t
  BY BelowSelf
<1>4. PICK m \in S : Feeds(n, m)
  BY <1>3
<1>5. n < m /\ n \in Nat /\ m \in Nat
  BY <1>3, <1>4, EdgeGoesUp
<1>6. m \notin Missed
  BY <1>2, <1>5
<1>7. t \in Below({m})
  BY <1>6
<1>8. m \in Below({n})
  BY <1>3, <1>4, BelowSelf, BelowEdge
<1> QED
  BY <1>3, <1>7, <1>8, BelowOfOne

\* When every node of a set but one reads from another one of the set, they are all
\* below that one.
LEMMA LeadsFromFirst ==
  ASSUME WellFormed(graph), NEW S, S \subseteq Node, NEW s \in S,
         \A m \in S \ {s} : \E n \in S : Feeds(n, m)
  PROVE  S \subseteq Below({s})
<1> DEFINE Missed == {n \in S : n \notin Below({s})}
<1>1. SUFFICES ASSUME Missed # {} PROVE FALSE
  OBVIOUS
<1>2. PICK m \in Missed : \A x \in Missed : m <= x
  <2>1. Missed \subseteq Nat
    BY WellFormedNodes
  <2> HIDE DEF Missed
  <2> QED
    BY <1>1, <2>1, FirstOfSet
<1>3. m \in S /\ m \notin Below({s}) /\ m # s
  BY BelowSelf
<1>4. PICK n \in S : Feeds(n, m)
  BY <1>3
<1>5. n < m /\ n \in Nat /\ m \in Nat
  BY <1>3, <1>4, EdgeGoesUp
<1>6. n \notin Missed
  BY <1>2, <1>5
<1>7. n \in Below({s})
  BY <1>6
<1> QED
  BY <1>3, <1>4, <1>7, BelowEdge

\* A set is a funnel when all that reads from outside leads to a node that is above
\* all that hands something out.
LEMMA FunnelThrough ==
  ASSUME WellFormed(graph), NEW S, S \subseteq Node, NEW w,
         \A m \in S : (\E p \in Node \ S : Feeds(p, m)) => w \in Below({m}),
         \A x \in Exits(S) : x \in Below({w})
  PROVE  Funnel(S)
<1> SUFFICES ASSUME NEW p \in Feeding(S), NEW x \in Exits(S) PROVE x \in Below({p})
  BY DEF Funnel
<1>1. p \in Node \ S
  BY FeedingAre
<1>2. PICK m \in S : Feeds(p, m)
  BY FeedingAre
<1>3. m \in Below({p})
  BY <1>2, BelowSelf, BelowEdge
<1>4. w \in Below({m})
  BY <1>1, <1>2
<1>5. w \in Below({p})
  BY <1>3, <1>4, BelowOfOne
<1> QED
  BY <1>5, BelowOfOne

\* The nodes that read what n writes are some of a set, and there are any.
PassesOn(n, S) == Successors({n}) # {} /\ Successors({n}) \subseteq S

\* A set whose nodes pass all they write on to others of the set, but for one, is a
\* funnel: the last one is all that hands something out.
LEMMA SinkIsFunnel ==
  ASSUME WellFormed(graph), NEW S, S \subseteq Node, NEW t \in S,
         \A n \in S \ {t} : PassesOn(n, S)
  PROVE  Funnel(S)
<1>1. \A n \in S \ {t} : \E m \in S : Feeds(n, m)
  BY SuccessorsOfOne DEF PassesOn
<1>2. \A n \in S : t \in Below({n})
  BY <1>1, LeadsToLast
<1>3. Exits(S) \subseteq {t}
  BY DEF Exits, PassesOn
<1> QED
  BY <1>2, <1>3, BelowSelf, FunnelThrough

\* n reads from the set and nothing else that a node writes.
Draws(n, S) ==
  /\ \E p \in S : Feeds(p, n)
  /\ \A p \in Node : Feeds(p, n) => p \in S

\* A set whose nodes read from others of the set only, but for one, is a funnel: the
\* first one is all that takes something in.
LEMMA SourceIsFunnel ==
  ASSUME WellFormed(graph), NEW S, S \subseteq Node, NEW s \in S,
         \A n \in S \ {s} : Draws(n, S)
  PROVE  Funnel(S)
<1>1. S \subseteq Below({s})
  BY LeadsFromFirst DEF Draws
<1>2. \A m \in S : (\E p \in Node \ S : Feeds(p, m)) => m = s
  BY DEF Draws
<1>3. Exits(S) \subseteq S
  BY DEF Exits
<1> QED
  BY <1>1, <1>2, <1>3, BelowSelf, FunnelThrough

-----------------------------------------------------------------------------
\* Nodes with one reader.

\* What a node with one output writes is its first output.
LEMMA OneOutput ==
  ASSUME WellFormed(graph), NEW n \in Node, Len(Out(n)) = 1
  PROVE  /\ Outputs(n) = {Out(n)[1]} /\ Out(n)[1] \in Outputs(n)
         /\ Successors({n}) = ReaderNodes(Out(n)[1])
<1>1. IsList(Out(n)) /\ Outputs(n) # {}
  BY DEF WellFormed, MatchesSchema, Node, Out, Outputs
<1>2. ToSet(Out(n)) = {Out(n)[1]}
  BY <1>1 DEF IsList, ToSet
<1>3. Outputs(n) = {Out(n)[1]}
  BY <1>1, <1>2 DEF Outputs
<1>4. Successors({n}) = ReaderNodes(Out(n)[1])
  BY <1>3 DEF Successors
<1> QED
  BY <1>3, <1>4

\* An only consumer is the only reader.
LEMMA OnlyConsumerIs ==
  ASSUME NEW v, NEW m, NEW i, HasOnlyConsumer(v, m, i)
  PROVE  ReaderNodes(v) = {m}
BY DEF HasOnlyConsumer, ReaderNodes

\* So is a single one.
LEMMA SingleConsumerIs ==
  ASSUME NEW v, NEW m, NEW i, HasSingleConsumerAt(v, m, i)
  PROVE  ReaderNodes(v) = {m}
BY OnlyConsumerIs DEF HasSingleConsumerAt


\* A node passes on to its only reader.
LEMMA PassesToReader ==
  ASSUME WellFormed(graph), NEW n \in Node, Len(Out(n)) = 1,
         NEW m, ReaderNodes(Out(n)[1]) = {m}, NEW S, m \in S
  PROVE  PassesOn(n, S)
BY OneOutput DEF PassesOn

\* An operator that is found is that of a node.
LEMMA OpIsNode ==
  ASSUME NEW n, NEW op, IsOp(n, op), op # "none"
  PROVE  n \in Node
BY DEF IsOp, Op

\* A value that a node writes or reads is read where its readers say.
LEMMA ReadersOfValue ==
  ASSUME WellFormed(graph), NEW v \in Values(graph.node)
  PROVE  /\ IsFiniteSet(Readers(v))
         /\ \A r \in Readers(v) : r[1] \in Node /\ r[2] \in DOMAIN In(r[1]) /\ In(r[1])[r[2]] = v
<1> DEFINE ends == {DOMAIN In(m) : m \in Node}
<1> DEFINE end == [m \in Node |-> DOMAIN In(m)]
<1>1. graph.readers[v] = Indexed(graph.node, graph.info, graph.outputs).readers[v]
  BY DEF WellFormed
<1>2. Readers(v) = UNION {{<<m, i>> : i \in {k \in DOMAIN graph.node[m].ins :
                                           graph.node[m].ins[k] = v}} : m \in Node}
  BY <1>1 DEF Indexed, Node, Readers
<1>3. Len(graph.node) \in Nat /\ Node = 1..Len(graph.node)
  BY WellFormedNodes
<1>4. \A m \in Node : IsFiniteSet(DOMAIN In(m))
  <2> SUFFICES ASSUME NEW m \in Node PROVE IsFiniteSet(DOMAIN In(m))
    OBVIOUS
  <2>1. IsList(In(m))
    BY DEF WellFormed, MatchesSchema, Node, In
  <2> QED
    BY <2>1, FS_Interval DEF IsList
<1>5. IsFiniteSet(Node)
  BY <1>3, FS_Interval
<1>6. \A r \in Readers(v) : r[1] \in Node /\ r[2] \in DOMAIN In(r[1]) /\ In(r[1])[r[2]] = v
  BY <1>2 DEF In
<1>7. IsFiniteSet(ends)
  <2>1. end \in Surjection(Node, ends)
    BY DEF Surjection
  <2> HIDE DEF end, ends
  <2> QED
    BY <1>5, <2>1, FS_Surjection
<1>8. IsFiniteSet(UNION ends)
  <2>1. \A T \in ends : IsFiniteSet(T)
    BY <1>4
  <2> HIDE DEF ends
  <2> QED
    BY <1>7, <2>1, FS_UNION
<1>9. Readers(v) \subseteq Node \X UNION ends
  BY <1>2 DEF In
<1>10. IsFiniteSet(Node \X UNION ends)
  <2> HIDE DEF ends
  <2> QED
    BY <1>5, <1>8, FS_Product
<1>11. IsFiniteSet(Readers(v))
  <2> HIDE DEF ends
  <2> QED
    BY <1>9, <1>10, FS_Subset
<1> QED
  BY <1>6, <1>11

\* Where there is one reader in all, it is the only one.
LEMMA SoleReader ==
  ASSUME WellFormed(graph), NEW v \in Values(graph.node), Cardinality(Readers(v)) = 1
  PROVE  \E m \in Node : ReaderNodes(v) = {m} /\ SingleReader(v) = m
<1>1. PICK r : Readers(v) = {r}
  BY ReadersOfValue, FS_Singleton
<1>2. r[1] \in Node
  BY <1>1, ReadersOfValue
<1>3. ReaderNodes(v) = {r[1]}
  BY <1>1 DEF ReaderNodes
<1>4. SingleReader(v) = r[1]
  BY <1>3 DEF SingleReader
<1> QED
  BY <1>2, <1>3, <1>4

\* A single reader that is a node is the only one.
LEMMA SingleReaderIs ==
  ASSUME WellFormed(graph), NEW v \in Values(graph.node), SingleReader(v) \in Node
  PROVE  ReaderNodes(v) = {SingleReader(v)}
<1>1. 0 \notin Node
  BY WellFormedNodes
<1>2. Cardinality(Readers(v)) = 1
  BY <1>1 DEF SingleReader
<1> QED
  BY <1>2, SoleReader

\* What a node reads and writes are values of the graph.
LEMMA ValuesOfNode ==
  ASSUME NEW n \in Node
  PROVE  ToSet(In(n)) \subseteq Values(graph.node) /\ ToSet(Out(n)) \subseteq Values(graph.node)
BY DEF Values, In, Out, Node

\* The lists of a node.
LEMMA ListsOfNode ==
  ASSUME WellFormed(graph), NEW n \in Node
  PROVE  /\ Len(In(n)) \in Nat /\ DOMAIN In(n) = 1..Len(In(n))
         /\ Len(Out(n)) \in Nat /\ DOMAIN Out(n) = 1..Len(Out(n))
         /\ Outputs(n) # {}
BY DEF WellFormed, MatchesSchema, IsList, Node, In, Out, Outputs

\* A constant is written by no node.
LEMMA ConstantHasNoWriter ==
  ASSUME WellFormed(graph), NEW m \in Node, NEW v \in ToSet(In(m)), IsConst(v)
  PROVE  Producer(v) \notin Node
<1> SUFFICES ASSUME Producer(v) \in Node PROVE FALSE
  OBVIOUS
<1>1. v \in ToSet(graph.node[Producer(v)].outs) \ {Missing}
  BY ProducerIsBefore DEF Outputs, Out
<1>2. ~graph.info[v].const
  BY <1>1 DEF WellFormed, Node
<1> QED
  BY <1>2 DEF IsConst

\* A constant of integers is one.
LEMMA IntegersAreConstant ==
  ASSUME NEW v, IntInitializer(v) # {} \/ SmallIntInitializer(v) # {}
  PROVE  IsConst(v)
BY DEF IntInitializer, SmallIntInitializer

\* A node whose only result has one reader passes on to it.
LEMMA PassesToOne ==
  ASSUME WellFormed(graph), NEW m \in Node, NEW v \in ToSet(In(m)), Producer(v) \in Node,
         Len(Out(Producer(v))) = 1, ReaderNodes(v) = {m}, NEW S, m \in S
  PROVE  PassesOn(Producer(v), S)
<1>1. v \in Outputs(Producer(v))
  BY ProducerIsBefore
<1>2. v = Out(Producer(v))[1]
  BY <1>1, OneOutput
<1> QED
  BY <1>2, PassesToReader

\* A node passes on when everything it writes has readers in the set only.
LEMMA PassesAll ==
  ASSUME WellFormed(graph), NEW n \in Node, NEW S,
         \A v \in Outputs(n) : ReaderNodes(v) \subseteq S /\ ReaderNodes(v) # {}
  PROVE  PassesOn(n, S)
<1>1. Outputs(n) # {}
  BY ListsOfNode
<1> QED
  BY <1>1 DEF PassesOn, Successors

-----------------------------------------------------------------------------
\* The matchers that move data.

\* ConcatReshape looks for a path.
LEMMA ConcatReshapeIsConvex ==
  ASSUME NEW n, NEW taken, NEW S \in ConcatReshape(n, taken)
  PROVE  Convex(S)
BY DEF ConcatReshape, Fuse, Convex

\* So does TileConcat.
LEMMA TileConcatIsConvex ==
  ASSUME NEW n, NEW taken, NEW S \in TileConcat(n, taken)
  PROVE  Convex(S)
BY DEF TileConcat, Fuse, Convex

\* The slices are read by the Concat only.
LEMMA StridedViewIsFunnel ==
  ASSUME WellFormed(graph), NEW concat, NEW taken, NEW S \in StridedView(concat, taken),
         S \subseteq Node
  PROVE  Funnel(S)
<1> DEFINE slice(i) == Producer(In(concat)[i])
<1>1. /\ S = {slice(i) : i \in DOMAIN In(concat)} \cup {concat}
      /\ \A i \in DOMAIN In(concat) :
           Arity(slice(i), 4, 1) /\ HasOnlyConsumer(Out(slice(i))[1], concat, i)
  BY DEF StridedView, Fuse
<1> HIDE DEF slice
<1>2. ASSUME NEW m \in S \ {concat} PROVE PassesOn(m, S)
  <2>1. PICK i \in DOMAIN In(concat) : m = slice(i)
    BY <1>1
  <2>2. Len(Out(m)) = 1 /\ ReaderNodes(Out(m)[1]) = {concat}
    BY <1>1, <2>1, OnlyConsumerIs DEF Arity
  <2> QED
    BY <1>1, <2>2, PassesToReader
<1> QED
  BY <1>1, <1>2, SinkIsFunnel

\* A zero fill and the Shape it may read.
LEMMA ZeroFillPassesOn ==
  ASSUME WellFormed(graph), NEW fill \in Node, NEW P \in ZeroFill(fill), NEW n \in P \ {fill},
         n \in Node
  PROVE  Successors({n}) = {fill}
<1>1. /\ n = Producer(In(fill)[1]) /\ IsOp(n, "Shape") /\ Len(In(fill)) = 1
      /\ HasOnlyConsumer(In(fill)[1], fill, 1)
  BY DEF ZeroFill, Fuse
<1>2. In(fill)[1] \in ToSet(In(fill))
  BY <1>1, ListsOfNode DEF ToSet
<1>3. Len(Out(n)) = 1
  BY <1>1 DEF IsOp, Op, WellFormed, MatchesSchema, Node, Out
<1>4. In(fill)[1] \in Outputs(n)
  BY <1>1, <1>2, ProducerIsBefore
<1> QED
  BY <1>1, <1>3, <1>4, OneOutput, OnlyConsumerIs

\* The shape of a zero fill belongs to its ConstantOfShape.
LEMMA ZeroFillHasFill ==
  ASSUME NEW fill, NEW P \in ZeroFill(fill)
  PROVE  fill \in P
BY DEF ZeroFill, Fuse

\* What is moved is read by the Concat only, and the Shape of a zero fill by the fill.
LEMMA SliceConcatIsFunnel ==
  ASSUME WellFormed(graph), NEW concat, NEW taken, NEW S \in SliceConcat(concat, taken),
         S \subseteq Node
  PROVE  Funnel(S)
<1> DEFINE from(v) == Producer(v)
           moved == {v \in ToSet(In(concat)) : Op(from(v)) \in {"Slice", "ConstantOfShape"}}
           Parts(v) == IF IsOp(from(v), "Slice")
                       THEN Fuse(ColumnSlice(from(v)), {from(v)}) ELSE ZeroFill(from(v))
<1>1. /\ S = {concat} \cup UNION UNION {Parts(v) : v \in moved}
      /\ \A v \in moved : ReaderNodes(v) = {concat}
  BY DEF SliceConcat, Fuse, ValueHasOnlyConsumers
<1>2. ASSUME NEW v \in moved
      PROVE  from(v) \in Node /\ Successors({from(v)}) = {concat}
  <2>1. from(v) \in Node /\ Len(Out(from(v))) = 1
    BY DEF Op, WellFormed, MatchesSchema, Node, Out
  <2>2. v \in Outputs(from(v))
    BY <1>1, <2>1, ProducerIsBefore
  <2> QED
    BY <1>1, <2>1, <2>2, OneOutput
<1>3. ASSUME NEW n \in S \ {concat} PROVE PassesOn(n, S)
  <2>1. PICK v \in moved : \E P \in Parts(v) : n \in P
    BY <1>1
  <2>2. PICK P \in Parts(v) : n \in P
    BY <2>1
  <2>3. from(v) \in P /\ (n = from(v) \/ P \in ZeroFill(from(v)))
    <3>1. P \in Fuse(ColumnSlice(from(v)), {from(v)}) \/ P \in ZeroFill(from(v))
      BY <2>2
    <3>2. P \in Fuse(ColumnSlice(from(v)), {from(v)}) => P = {from(v)}
      BY DEF Fuse
    <3> QED
      BY <2>2, <3>1, <3>2, ZeroFillHasFill
  <2>4. P \subseteq S
    <3>1. Parts(v) \in {Parts(u) : u \in moved}
      OBVIOUS
    <3> HIDE DEF moved, Parts
    <3> QED
      BY <1>1, <2>2, <3>1
  <2>5. CASE n = from(v)
    BY <1>1, <1>2, <2>5 DEF PassesOn
  <2>6. CASE n # from(v)
    <3>1. Successors({n}) = {from(v)}
      BY <1>2, <2>2, <2>3, <2>6, ZeroFillPassesOn
    <3> QED
      BY <2>3, <2>4, <3>1 DEF PassesOn
  <2> QED
    BY <2>5, <2>6
<1> HIDE DEF moved, Parts
<1> QED
  BY <1>1, <1>3, SinkIsFunnel

\* What a free node of an operator is.
LEMMA FreeOpIs ==
  ASSUME NEW n, NEW op, NEW taken, FreeOp(n, op, taken) # 0
  PROVE  FreeOp(n, op, taken) = n /\ IsOp(n, op) /\ (op # "none" => n \in Node)
BY OpIsNode DEF FreeOp

\* The Split passes on to the Concat, the Reshape to the Split, and the Concat to the
\* Transpose.
LEMMA SplitConcatIsFunnel ==
  ASSUME WellFormed(graph), NEW split, NEW taken, NEW S \in SplitConcat(split, taken),
         S \subseteq Node
  PROVE  Funnel(S)
<1> DEFINE reshape == FreeOp(Producer(In(split)[1]), "Reshape", taken)
           concat == SingleReader(Out(split)[1])
           transpose == IF Len(Out(concat)) = 1
                        THEN FreeOp(SingleReader(Out(concat)[1]), "Transpose", taken) ELSE 0
<1>1. /\ S = {reshape, split, concat, transpose} \ {0}
      /\ IsOp(split, "Split") /\ In(split) # <<>> /\ IsOp(concat, "Concat")
      /\ CanFuseSplitConcat(reshape, split, concat, transpose)
  BY DEF SplitConcat, Fuse
<1>2. /\ split \in Node /\ concat \in Node /\ 0 \notin Node
      /\ split \in S /\ concat \in S
  BY <1>1, OpIsNode, WellFormedNodes
<1>3. transpose # 0 =>
        transpose = SingleReader(Out(concat)[1]) /\ transpose \in Node
  BY FreeOpIs
<1>4. reshape # 0 => reshape = Producer(In(split)[1]) /\ reshape \in Node
  BY FreeOpIs
<1> HIDE DEF reshape, concat, transpose
<1>5. /\ \A i \in 1..Len(Out(split)) : HasSingleConsumerAt(Out(split)[i], concat, i)
      /\ Len(Out(concat)) = 1
      /\ reshape # 0 => Out(reshape) = <<In(split)[1]>> /\ Cardinality(Readers(In(split)[1])) = 1
  BY <1>1 DEF CanFuseSplitConcat
<1>6. PassesOn(split, S)
  <2>1. \A v \in Outputs(split) : ReaderNodes(v) = {concat}
    BY <1>2, <1>5, SingleConsumerIs, ListsOfNode DEF Outputs, ToSet
  <2> QED
    BY <1>2, <2>1, PassesAll
<1>7. ASSUME reshape # 0 PROVE PassesOn(reshape, S)
  <2>1. In(split)[1] \in ToSet(In(split))
    BY <1>1, <1>2, ListsOfNode DEF ToSet
  <2>2. split \in ReaderNodes(In(split)[1])
    BY <1>2, <1>4, <1>7, <2>1, ProducerIsBefore
  <2>3. ReaderNodes(In(split)[1]) = {split}
    BY <1>2, <1>5, <1>7, <2>1, <2>2, ValuesOfNode, SoleReader
  <2> QED
    BY <1>2, <1>4, <1>5, <1>7, <2>1, <2>3, PassesToOne
<1>8. ASSUME transpose # 0 PROVE PassesOn(concat, S)
  <2>1. Out(concat)[1] \in Values(graph.node)
    BY <1>2, <1>5, OneOutput, ValuesOfNode DEF Outputs
  <2>2. ReaderNodes(Out(concat)[1]) = {transpose}
    BY <1>3, <1>8, <2>1, SingleReaderIs
  <2> QED
    BY <1>1, <1>2, <1>5, <1>8, <2>2, PassesToReader
<1> DEFINE last == IF transpose # 0 THEN transpose ELSE concat
<1>9. last \in S /\ \A n \in S \ {last} : PassesOn(n, S)
  BY <1>1, <1>2, <1>6, <1>7, <1>8
<1> HIDE DEF last
<1> QED
  BY <1>9, SinkIsFunnel

\* The pieces of a Split pass on to what stacks them, and that to the Concat.
LEMMA SplitUnsqueezeConcatIsFunnel ==
  ASSUME WellFormed(graph), NEW split, NEW taken, NEW S \in SplitUnsqueezeConcat(split, taken),
         S \subseteq Node
  PROVE  Funnel(S)
<1> DEFINE before == FreeOp(Producer(In(split)[1]), "Reshape", taken)
           static == \/ Len(In(before)) < 2 \/ In(before)[2] = Missing
                     \/ IntInitializer(In(before)[2]) # {}
           reshape == IF before # 0 /\ static /\ Len(Out(before)) = 1
                         /\ Cardinality(Readers(Out(before)[1])) = 1 THEN before ELSE 0
           unsqueeze(v) == SingleReader(v)
           concat == SingleReader(Out(unsqueeze(Out(split)[1]))[1])
           after == IF Len(Out(concat)) = 1
                    THEN FreeOp(SingleReader(Out(concat)[1]), "Transpose", taken) ELSE 0
           pieces == {unsqueeze(v) : v \in ToSet(Out(split))}
           FitsWith(t) == CanFuseSplitUnsqueezeConcat(reshape, split, concat, t)
           transpose == IF after # 0 /\ FitsWith(after) THEN after ELSE 0
<1>1. /\ S = ({reshape, split, concat, transpose} \ {0}) \cup pieces
      /\ IsOp(split, "Split") /\ In(split) # <<>> /\ IsOp(concat, "Concat")
      /\ \A n \in pieces : /\ IsOp(n, "Unsqueeze") /\ Free(n, taken)
                           /\ Len(Out(n)) = 1 /\ SingleReader(Out(n)[1]) = concat
      /\ transpose # 0 \/ FitsWith(0)
  BY DEF SplitUnsqueezeConcat, Fuse
<1>2. FitsWith(transpose)
  BY <1>1
<1>3. /\ split \in Node /\ concat \in Node /\ 0 \notin Node
      /\ split \in S /\ concat \in S /\ pieces \subseteq S
  BY <1>1, OpIsNode, WellFormedNodes, SMTT(30)
<1>4. transpose # 0 => transpose \in Node
  BY FreeOpIs
<1>5. reshape # 0 => /\ reshape = Producer(In(split)[1]) /\ reshape \in Node
                     /\ Cardinality(Readers(Out(reshape)[1])) = 1 /\ Len(Out(reshape)) = 1
  BY FreeOpIs
<1>6. /\ \A i \in 1..Len(Out(split)) :
           HasSingleConsumerAt(Out(split)[i], SingleReader(Out(split)[i]), 1)
      /\ Len(Out(concat)) = 1
      /\ transpose # 0 => HasSingleConsumerAt(Out(concat)[1], transpose, 1)
      /\ reshape # 0 => Out(reshape) = <<In(split)[1]>>
  <2> HIDE DEF reshape, concat, transpose
  <2> QED
    BY <1>2 DEF CanFuseSplitUnsqueezeConcat
<1>7. pieces = {SingleReader(v) : v \in ToSet(Out(split))}
  OBVIOUS
<1> HIDE DEF reshape, concat, transpose, pieces
<1>8. PassesOn(split, S)
  <2>1. \A v \in Outputs(split) : ReaderNodes(v) = {SingleReader(v)} /\ SingleReader(v) \in S
    BY <1>3, <1>6, <1>7, SingleConsumerIs, ListsOfNode DEF Outputs, ToSet
  <2> QED
    BY <1>3, <2>1, PassesAll
<1>9. ASSUME NEW n \in pieces PROVE PassesOn(n, S)
  <2>1. n \in Node /\ Len(Out(n)) = 1 /\ SingleReader(Out(n)[1]) = concat
    BY <1>1, <1>3
  <2>2. Out(n)[1] \in Values(graph.node)
    BY <2>1, OneOutput, ValuesOfNode DEF Outputs
  <2>3. ReaderNodes(Out(n)[1]) = {concat}
    BY <1>3, <2>1, <2>2, SingleReaderIs
  <2> QED
    BY <1>3, <2>1, <2>3, PassesToReader
<1>10. ASSUME reshape # 0 PROVE PassesOn(reshape, S)
  <2>1. In(split)[1] \in ToSet(In(split)) /\ In(split)[1] = Out(reshape)[1]
    BY <1>1, <1>3, <1>6, <1>10, ListsOfNode DEF ToSet
  <2>2. split \in ReaderNodes(In(split)[1])
    BY <1>3, <1>5, <1>10, <2>1, ProducerIsBefore
  <2>3. ReaderNodes(In(split)[1]) = {split}
    BY <1>3, <1>5, <1>10, <2>1, <2>2, ValuesOfNode, SoleReader
  <2> QED
    BY <1>3, <1>5, <1>10, <2>1, <2>3, PassesToOne
<1>11. ASSUME transpose # 0 PROVE PassesOn(concat, S)
  <2>1. ReaderNodes(Out(concat)[1]) = {transpose} /\ transpose \in S
    BY <1>1, <1>6, <1>11, SingleConsumerIs
  <2> QED
    BY <1>3, <1>6, <2>1, PassesToReader
<1> DEFINE last == IF transpose # 0 THEN transpose ELSE concat
<1>12. last \in S /\ \A n \in S \ {last} : PassesOn(n, S)
  BY <1>1, <1>3, <1>8, <1>9, <1>10, <1>11
<1> HIDE DEF last
<1> QED
  BY <1>12, SinkIsFunnel

\* Where the only reader of a result reads it.
LEMMA OnlyConsumerReads ==
  ASSUME WellFormed(graph), NEW v \in Values(graph.node), NEW m, NEW i, HasOnlyConsumer(v, m, i)
  PROVE  m \in Node /\ i \in DOMAIN In(m) /\ In(m)[i] = v
<1>1. <<m, i>> \in Readers(v)
  BY DEF HasOnlyConsumer
<1> QED
  BY <1>1, ReadersOfValue

\* A node of two inputs draws from one when the other is constant.
LEMMA DrawsFromFirst ==
  ASSUME WellFormed(graph), NEW n \in Node, NEW p \in Node, NEW S, p \in S,
         In(n) # <<>>, Producer(In(n)[1]) = p,
         \A i \in DOMAIN In(n) : i # 1 => Producer(In(n)[i]) \notin Node \/ Producer(In(n)[i]) = p
  PROVE  Draws(n, S)
<1>1. In(n)[1] \in ToSet(In(n))
  BY ListsOfNode DEF ToSet
<1>2. Feeds(p, n)
  BY <1>1 DEF Feeds
<1>3. ASSUME NEW q \in Node, Feeds(q, n) PROVE q = p
  BY <1>3 DEF Feeds, ToSet
<1> QED
  BY <1>2, <1>3 DEF Draws

\* Every reduction reads one piece and constant axes.
LEMMA SplitReduceIsFunnel ==
  ASSUME WellFormed(graph), NEW split, NEW taken, NEW S \in SplitReduce(split, taken),
         S \subseteq Node
  PROVE  Funnel(S)
<1>1. /\ S = {split} \cup {SingleReader(v) : v \in ToSet(Out(split))}
      /\ IsOp(split, "Split")
      /\ \A v \in ToSet(Out(split)) :
           /\ HasSingleConsumerAt(v, SingleReader(v), 1)
           /\ Op(SingleReader(v)) \in {"ReduceProd", "ReduceMean"}
           /\ ReduceAxesInputIsAxis1(SingleReader(v))
  BY DEF SplitReduce, Fuse
<1>2. split \in Node /\ split \in S /\ Outputs(split) = ToSet(Out(split))
  BY <1>1, OpIsNode DEF WellFormed, MatchesSchema, Node, Out, Outputs, IsOp, Op
<1>3. ASSUME NEW v \in ToSet(Out(split)) PROVE Draws(SingleReader(v), S)
  <2> DEFINE m == SingleReader(v)
  <2>1. m \in Node /\ m \in S
    BY <1>1
  <2>2. HasOnlyConsumer(v, m, 1) /\ v \in Values(graph.node)
    BY <1>1, <1>2, ValuesOfNode DEF HasSingleConsumerAt
  <2>3. In(m)[1] = v /\ Producer(v) = split
    BY <1>2, <2>2, OnlyConsumerReads, OutputsAreRead
  <2>4. Len(In(m)) <= 2
    BY <1>1, <2>1 DEF WellFormed, MatchesSchema, Node, In, Op
  <2>5. SmallIntInitializer(In(m)[2]) # {} /\ Len(In(m)) >= 2
    BY <1>1 DEF ReduceAxesInputIsAxis1
  <2> HIDE DEF m
  <2>6. Len(In(m)) \in Nat /\ DOMAIN In(m) = 1..Len(In(m))
    BY <2>1, ListsOfNode
  <2>7. DOMAIN In(m) = {1, 2} /\ In(m)[2] \in ToSet(In(m)) /\ In(m) # <<>>
    BY <2>4, <2>5, <2>6 DEF ToSet
  <2>8. Producer(In(m)[2]) \notin Node
    BY <2>1, <2>5, <2>7, IntegersAreConstant, ConstantHasNoWriter
  <2>9. Draws(m, S)
    BY <1>2, <2>1, <2>3, <2>7, <2>8, DrawsFromFirst
  <2> QED
    BY <2>9 DEF m
<1>4. \A n \in S \ {split} : Draws(n, S)
  BY <1>1, <1>3
<1> QED
  BY <1>2, <1>4, SourceIsFunnel

\* All that is read from outside comes through the Split, or with the Concat that
\* feeds nothing else; the Split's pieces feed all the rest.
LEMMA ConcatSplitIsFunnel ==
  ASSUME WellFormed(graph), NEW concat, NEW taken, NEW S \in ConcatSplit(concat, taken),
         S \subseteq Node
  PROVE  Funnel(S)
<1> DEFINE split == SingleReader(Out(concat)[1])
           type == DType(Out(split)[1])
           sizes == CHOOSE s \in IntInitializer(In(split)[2]) : TRUE
           Width(v) == {sizes[i] : i \in {k \in DOMAIN sizes : Out(split)[k] = v}}
           Joins(n) == /\ IsOp(n, "Concat") /\ AxisIs(n, 2, 1)
                       /\ DType(Out(n)[1]) = type
           Adds(n) == /\ IsOp(n, "Sum") /\ Len(In(n)) >= 2
                      /\ type = "float" /\ IsFloat(Out(n)[1])
                      /\ Cardinality(UNION {Width(v) : v \in ToSet(In(n))}) = 1
           joined == {n \in UNION {ReaderNodes(v) : v \in ToSet(Out(split))} :
                        /\ Free(n, taken) /\ Len(Out(n)) = 1
                        /\ ToSet(In(n)) \subseteq ToSet(Out(split))
                        /\ Joins(n) \/ Adds(n)}
<1>1. S = {concat, split} \cup joined
  BY DEF ConcatSplit, Fuse
<1>2. /\ IsOp(concat, "Concat") /\ Len(Out(concat)) = 1 /\ IsOp(split, "Split")
      /\ Len(In(split)) = 2 /\ In(split)[1] = Out(concat)[1]
      /\ IntInitializer(In(split)[2]) # {}
  BY DEF ConcatSplit, Fuse
<1> HIDE DEF Joins, Adds
<1>3. /\ S = {concat, split} \cup joined
      /\ \A n \in joined : /\ ToSet(In(n)) \subseteq ToSet(Out(split))
                           /\ \E v \in ToSet(Out(split)) : n \in ReaderNodes(v)
  BY <1>1
<1> HIDE DEF split, type, sizes, Width, joined
<1>4. /\ concat \in Node /\ split \in Node /\ Outputs(split) = ToSet(Out(split))
      /\ Out(concat)[1] \in Outputs(concat) /\ Out(concat)[1] \in Values(graph.node)
  <2>1. concat \in Node /\ split \in Node
    BY <1>2, OpIsNode
  <2>2. Outputs(split) = ToSet(Out(split))
    BY <1>2, <2>1 DEF WellFormed, MatchesSchema, Node, Out, Outputs, IsOp, Op
  <2>3. Out(concat)[1] \in Outputs(concat)
    BY <1>2, <2>1, OneOutput
  <2> QED
    BY <2>1, <2>2, <2>3, ValuesOfNode DEF Outputs
<1>5. Successors({concat}) = {split} /\ Feeds(concat, split)
  <2>1. ReaderNodes(Out(concat)[1]) = {split}
    BY <1>4, SingleReaderIs DEF split
  <2>2. Successors({concat}) = {split}
    BY <1>2, <1>4, <2>1, OneOutput
  <2> QED
    BY <1>4, <2>2, SuccessorsOfOne
<1>6. ASSUME NEW n \in joined
      PROVE  /\ Feeds(split, n)
             /\ \A p \in Node : Feeds(p, n) => p = split
  <2>1. PICK v \in ToSet(Out(split)) : n \in ReaderNodes(v)
    BY <1>3
  <2>2. v \in ToSet(In(n))
    BY <1>4, <2>1, OutputsAreRead
  <2>3. \A u \in ToSet(In(n)) : Producer(u) = split
    BY <1>3, <1>4, OutputsAreRead
  <2> QED
    BY <2>2, <2>3 DEF Feeds
<1>7. \A m \in S : (\E p \in Node \ S : Feeds(p, m)) => split \in Below({m})
  <2>1. split \in Below({concat}) /\ split \in Below({split})
    BY <1>4, <1>5, BelowSelf, BelowEdge
  <2> QED
    BY <1>3, <1>6, <2>1
<1>8. \A x \in Exits(S) : x \in Below({split})
  <2> SUFFICES ASSUME NEW x \in Exits(S) PROVE x \in Below({split})
    OBVIOUS
  <2>1. x \in S /\ x # concat
    BY <1>3, <1>5 DEF Exits
  <2> QED
    BY <1>3, <1>4, <1>6, <2>1, BelowSelf, BelowEdge
<1> QED
  BY <1>7, <1>8, FunnelThrough

-----------------------------------------------------------------------------
\* The matchers of matrix products.

\* The reader that is chosen where there is one.
LEMMA ChosenReader ==
  ASSUME WellFormed(graph), NEW v \in Values(graph.node), Cardinality(Readers(v)) = 1
  PROVE  LET r == CHOOSE r \in Readers(v) : TRUE
         IN  /\ Readers(v) = {r} /\ ReaderNodes(v) = {r[1]}
             /\ r[1] \in Node /\ r[2] \in DOMAIN In(r[1]) /\ In(r[1])[r[2]] = v
<1> DEFINE r == CHOOSE r \in Readers(v) : TRUE
<1>1. PICK q : Readers(v) = {q}
  BY ReadersOfValue, FS_Singleton
<1>2. r = q
  BY <1>1
<1> HIDE DEF r
<1>3. Readers(v) = {r} /\ ReaderNodes(v) = {r[1]}
  BY <1>1, <1>2 DEF ReaderNodes
<1>4. r[1] \in Node /\ r[2] \in DOMAIN In(r[1]) /\ In(r[1])[r[2]] = v
  BY <1>3, ReadersOfValue
<1> QED
  BY <1>3, <1>4 DEF r

\* The only result of a node is a value.
LEMMA OnlyResult ==
  ASSUME WellFormed(graph), NEW n \in Node, Len(Out(n)) = 1
  PROVE  /\ Out(n)[1] \in Outputs(n) /\ Out(n)[1] \in Values(graph.node)
         /\ Producer(Out(n)[1]) = n
<1>1. Out(n)[1] \in Outputs(n)
  BY OneOutput
<1> QED
  BY <1>1, ValuesOfNode, OutputsAreRead DEF Outputs

\* The product feeds the Add only, and the sum the activation.
LEMMA FusedGemmIsFunnel ==
  ASSUME WellFormed(graph), NEW matmul, NEW taken, NEW S \in FusedGemm(matmul, taken),
         S \subseteq Node
  PROVE  Funnel(S)
<1> DEFINE product == Out(matmul)[1]
           reader == CHOOSE r \in Readers(product) : TRUE
           add == reader[1]
           sum == Out(add)[1]
           activation == SingleReader(sum)
           activated == /\ IsLinearActivation(activation) /\ Free(activation, taken)
                        /\ HasOnlyConsumer(sum, activation, 1) /\ Arity(activation, 1, 1)
                        /\ MatMulPlusBias(matmul, add, reader[2], Out(activation)[1])
<1>1. /\ S = {matmul, add} \cup (IF activated THEN {activation} ELSE {})
      /\ Len(Out(matmul)) = 1 /\ Cardinality(Readers(product)) = 1 /\ Len(Out(add)) = 1
  BY DEF FusedGemm, Fuse
<1>2. matmul \in Node /\ matmul \in S /\ add \in Node /\ add \in S
  BY <1>1
<1>3. ReaderNodes(product) = {add}
  BY <1>1, <1>2, OnlyResult, ChosenReader
<1>4. PassesOn(matmul, S)
  BY <1>1, <1>2, <1>3, PassesToReader
<1>5. activated => HasOnlyConsumer(Out(add)[1], activation, 1)
  OBVIOUS
<1> HIDE DEF add, activation, activated
<1>6. activated => PassesOn(add, S) /\ activation \in S
  BY <1>1, <1>2, <1>5, OnlyConsumerIs, PassesToReader
<1> DEFINE last == IF activated THEN activation ELSE add
<1>7. last \in S /\ \A n \in S \ {last} : PassesOn(n, S)
  BY <1>1, <1>2, <1>4, <1>6
<1> HIDE DEF last
<1> QED
  BY <1>7, SinkIsFunnel

\* The product feeds the activation only.
LEMMA GemmActivationDirectIsFunnel ==
  ASSUME WellFormed(graph), NEW gemm, NEW taken, NEW S \in GemmActivationDirect(gemm, taken),
         S \subseteq Node
  PROVE  Funnel(S)
<1> DEFINE activation == SingleReader(Out(gemm)[1])
<1>1. /\ S = {gemm, activation} /\ Len(Out(gemm)) = 1
      /\ HasOnlyConsumer(Out(gemm)[1], activation, 1)
  BY DEF GemmActivationDirect, Fuse
<1> HIDE DEF activation
<1>2. PassesOn(gemm, S)
  BY <1>1, OnlyConsumerIs, PassesToReader
<1> QED
  BY <1>1, <1>2, SinkIsFunnel

\* The same through the Reshapes around.
LEMMA GemmActivationAroundIsFunnel ==
  ASSUME WellFormed(graph), NEW gemm, NEW taken, NEW S \in GemmActivationAround(gemm, taken),
         S \subseteq Node
  PROVE  Funnel(S)
<1> DEFINE before == Producer(In(gemm)[1])
           after == SingleReader(Out(gemm)[1])
           activation == SingleReader(Out(after)[1])
           result == Out(activation)[1]
           tail == SingleReader(result)
           viewed == /\ Is(before, "Reshape", taken) /\ AliasOnly(before)
                     /\ HasOnlyConsumer(In(gemm)[1], gemm, 1)
                     /\ Rank(In(before)[1]) >= 2 /\ Rank(In(gemm)[1]) = 2
           reshaped == /\ ~Exported(result) /\ tail # 0 /\ Free(tail, taken)
                       /\ AliasOnly(tail) /\ HasOnlyConsumer(result, tail, 1)
<1>1. /\ S = {gemm, after, activation} \cup (IF viewed THEN {before} ELSE {})
                                       \cup (IF reshaped THEN {tail} ELSE {})
      /\ Len(In(gemm)) \in 2..3 /\ Len(Out(gemm)) = 1
      /\ AliasOnly(after) /\ HasOnlyConsumer(Out(gemm)[1], after, 1)
      /\ HasOnlyConsumer(Out(after)[1], activation, 1) /\ Len(Out(activation)) = 1
  BY DEF GemmActivationAround, Fuse
<1>2. /\ gemm \in S /\ after \in S /\ activation \in S
      /\ viewed => before \in S
      /\ reshaped => tail \in S
      /\ \A n \in S : n = gemm \/ n = after \/ n = activation \/ (viewed /\ n = before)
                      \/ (reshaped /\ n = tail)
  BY <1>1
<1>3. viewed => Len(Out(before)) = 1 /\ HasOnlyConsumer(In(gemm)[1], gemm, 1)
  BY DEF AliasOnly, Arity
<1>4. reshaped => HasOnlyConsumer(Out(activation)[1], tail, 1)
  OBVIOUS
<1>5. Len(Out(after)) = 1
  BY <1>1 DEF AliasOnly, Arity
<1> HIDE DEF after, activation, tail, viewed, reshaped
<1>6. PassesOn(gemm, S) /\ PassesOn(after, S)
  BY <1>1, <1>2, <1>5, OnlyConsumerIs, PassesToReader
<1>7. viewed => PassesOn(before, S)
  <2>1. In(gemm)[1] \in ToSet(In(gemm))
    BY <1>1, <1>2, ListsOfNode DEF ToSet
  <2> QED
    BY <1>2, <1>3, <2>1, OnlyConsumerIs, PassesToOne
<1>8. reshaped => PassesOn(activation, S)
  BY <1>1, <1>2, <1>4, OnlyConsumerIs, PassesToReader
<1> DEFINE last == IF reshaped THEN tail ELSE activation
<1>9. last \in S /\ \A n \in S \ {last} : PassesOn(n, S)
  BY <1>2, <1>6, <1>7, <1>8
<1> HIDE DEF last
<1> QED
  BY <1>9, SinkIsFunnel

\* The Concat feeds the MatMul only.
LEMMA ConcatMatMulIsFunnel ==
  ASSUME WellFormed(graph), NEW concat, NEW taken, NEW S \in ConcatMatMul(concat, taken),
         S \subseteq Node
  PROVE  Funnel(S)
<1> DEFINE reader == CHOOSE r \in Readers(Out(concat)[1]) : TRUE
<1>1. /\ S = {concat, reader[1]} /\ Len(Out(concat)) = 1
      /\ Cardinality(Readers(Out(concat)[1])) = 1
  BY DEF ConcatMatMul, Fuse
<1>2. ReaderNodes(Out(concat)[1]) = {reader[1]}
  BY <1>1, OnlyResult, ChosenReader
<1> HIDE DEF reader
<1>3. PassesOn(concat, S)
  BY <1>1, <1>2, PassesToReader
<1> QED
  BY <1>1, <1>3, SinkIsFunnel

\* What a half of a Silu is.
LEMMA SiluAtIs ==
  ASSUME NEW mul, NEW i, NEW taken, NEW s \in SiluAt(mul, i, taken)
  PROVE  /\ s.sigmoid = Producer(In(mul)[i]) /\ s.gate = In(mul)[3 - i]
         /\ Len(In(mul)) = 2 /\ Len(Out(s.sigmoid)) = 1
         /\ ReaderNodes(Out(s.sigmoid)[1]) = {mul}
<1>1. /\ s = [sigmoid |-> Producer(In(mul)[i]), gate |-> In(mul)[3 - i]]
      /\ Arity(mul, 2, 1) /\ Arity(Producer(In(mul)[i]), 1, 1)
      /\ HasSingleConsumerAt(Out(Producer(In(mul)[i]))[1], mul, i)
  BY DEF SiluAt, Fuse
<1> QED
  BY <1>1, SingleConsumerIs DEF Arity

\* The Sigmoid feeds the Mul only.
LEMMA SiluIsFunnel ==
  ASSUME WellFormed(graph), NEW mul, NEW taken, NEW S \in Silu(mul, taken), S \subseteq Node
  PROVE  Funnel(S)
<1>1. PICK s \in SiluAt(mul, 1, taken) \cup SiluAt(mul, 2, taken) : S = {s.sigmoid, mul}
  BY DEF Silu
<1>2. Len(Out(s.sigmoid)) = 1 /\ ReaderNodes(Out(s.sigmoid)[1]) = {mul}
  <2>1. CASE s \in SiluAt(mul, 1, taken)
    BY <2>1, SiluAtIs
  <2>2. CASE s \in SiluAt(mul, 2, taken)
    BY <2>2, SiluAtIs
  <2> QED
    BY <2>1, <2>2
<1>3. PassesOn(s.sigmoid, S)
  BY <1>1, <1>2, PassesToReader
<1> QED
  BY <1>1, <1>3, SinkIsFunnel

\* Both products feed nothing but the gate, and the gate nothing but the last Mul.
LEMMA SwiGluAtIsFunnel ==
  ASSUME WellFormed(graph), NEW mul, NEW i \in {1, 2}, NEW taken,
         NEW S \in SwiGluAt(mul, i, taken), S \subseteq Node
  PROVE  Funnel(S)
<1> DEFINE gated == Producer(In(mul)[i])
           up == In(mul)[3 - i]
           upMatMul == Producer(up)
           weight(n) == In(n)[2]
           Half(s) ==
             LET gate == s.gate
                 matmul == Producer(gate)
                 input == In(matmul)[1]
             IN  Fuse(/\ ~Exported(gate) /\ ~Exported(up)
                      /\ Cardinality(Readers(gate)) = 2
                      /\ ReaderNodes(gate) = {s.sigmoid, gated}
                      /\ HasOnlyConsumer(up, mul, 3 - i)
                      /\ Projection(gate, taken) /\ Projection(up, taken)
                      /\ matmul # upMatMul /\ In(upMatMul)[1] = input
                      /\ Dims(weight(matmul)) = Dims(weight(upMatMul))
                      /\ Ranked(input) /\ Rank(input) \in 2..kSwiGluMaxInputRank
                      /\ Last(Dims(input)) \in {-1, Dims(weight(matmul))[1]}
                      /\ SameTypeIn({input, weight(matmul), weight(upMatMul), gate, up,
                                     Out(s.sigmoid)[1], Out(gated)[1], Out(mul)[1]},
                                    HalfOrSingle),
                      {matmul, upMatMul, s.sigmoid, gated, mul})
<1>1. /\ Arity(mul, 2, 1) /\ Arity(gated, 2, 1)
      /\ HasSingleConsumerAt(Out(gated)[1], mul, i)
      /\ S \in UNION {Half(s) : s \in SiluAt(gated, 1, taken) \cup SiluAt(gated, 2, taken)}
  BY DEF SwiGluAt
<1>2. PICK s \in SiluAt(gated, 1, taken) \cup SiluAt(gated, 2, taken) : S \in Half(s)
  <2> HIDE DEF Half, gated
  <2> QED
    BY <1>1
<1>3. /\ S = {Producer(s.gate), upMatMul, s.sigmoid, gated, mul}
      /\ ReaderNodes(s.gate) = {s.sigmoid, gated}
      /\ HasOnlyConsumer(up, mul, 3 - i)
      /\ Projection(s.gate, taken) /\ Projection(up, taken)
  BY <1>2 DEF Fuse
<1>4. /\ Len(Out(Producer(s.gate))) = 1 /\ Len(Out(upMatMul)) = 1
      /\ Len(In(mul)) = 2 /\ Len(In(gated)) = 2 /\ Len(Out(gated)) = 1
  BY <1>1, <1>3 DEF Projection, Arity
<1> HIDE DEF gated, Half
<1>5. /\ Len(Out(s.sigmoid)) = 1 /\ ReaderNodes(Out(s.sigmoid)[1]) = {gated}
      /\ s.gate = In(gated)[1] \/ s.gate = In(gated)[2]
  <2>1. CASE s \in SiluAt(gated, 1, taken)
    BY <2>1, SiluAtIs
  <2>2. CASE s \in SiluAt(gated, 2, taken)
    BY <2>2, SiluAtIs
  <2> QED
    BY <2>1, <2>2
<1>6. s.gate \in ToSet(In(gated)) /\ In(mul)[3 - i] \in ToSet(In(mul))
  BY <1>3, <1>4, <1>5, ListsOfNode DEF ToSet
<1>7. PassesOn(Producer(s.gate), S)
  <2>1. Producer(s.gate) \in Node /\ gated \in Node
    BY <1>3
  <2>2. s.gate \in Outputs(Producer(s.gate))
    BY <1>6, <2>1, ProducerIsBefore
  <2>3. Outputs(Producer(s.gate)) = {s.gate}
    BY <1>4, <2>1, <2>2, OneOutput
  <2> QED
    BY <1>3, <2>1, <2>3, PassesAll
<1>8. PassesOn(upMatMul, S)
  BY <1>3, <1>4, <1>6, OnlyConsumerIs, PassesToOne
<1>9. PassesOn(s.sigmoid, S)
  BY <1>3, <1>5, PassesToReader
<1>10. PassesOn(gated, S)
  <2>1. ReaderNodes(Out(gated)[1]) = {mul}
    BY <1>1, SingleConsumerIs
  <2>2. gated \in Node /\ mul \in S
    BY <1>3
  <2> QED
    BY <1>4, <2>1, <2>2, PassesToReader
<1>11. mul \in S /\ \A n \in S \ {mul} : PassesOn(n, S)
  BY <1>3, <1>7, <1>8, <1>9, <1>10
<1> QED
  BY <1>11, SinkIsFunnel

\* The gate may be on either side.
LEMMA SwiGluIsFunnel ==
  ASSUME WellFormed(graph), NEW mul, NEW taken, NEW S \in SwiGlu(mul, taken), S \subseteq Node
  PROVE  Funnel(S)
<1>1. S \in SwiGluAt(mul, 1, taken) \/ S \in SwiGluAt(mul, 2, taken)
  BY DEF SwiGlu
<1> QED
  BY <1>1, SwiGluAtIsFunnel

\* Every product feeds its Unsqueeze only, and that the Concat.
LEMMA ParallelMatMulConcatIsFunnel ==
  ASSUME WellFormed(graph), NEW concat, NEW taken, NEW S \in ParallelMatMulConcat(concat, taken),
         S \subseteq Node
  PROVE  Funnel(S)
<1> DEFINE unsqueeze(i) == Producer(In(concat)[i])
           matmul(i) == Producer(In(unsqueeze(i))[1])
<1>1. /\ S = {concat} \cup UNION {{unsqueeze(i), matmul(i)} : i \in DOMAIN In(concat)}
      /\ \A i \in DOMAIN In(concat) :
           /\ HasSingleConsumerAt(In(concat)[i], concat, i)
           /\ In(unsqueeze(i)) # <<>> /\ Len(Out(unsqueeze(i))) = 1
           /\ HasSingleConsumerAt(In(unsqueeze(i))[1], unsqueeze(i), 1)
           /\ Arity(matmul(i), 2, 1)
  BY DEF ParallelMatMulConcat, Fuse
<1> HIDE DEF unsqueeze, matmul
<1>2. ASSUME NEW i \in DOMAIN In(concat)
      PROVE  PassesOn(unsqueeze(i), S) /\ PassesOn(matmul(i), S)
  <2>1. unsqueeze(i) \in S /\ matmul(i) \in S /\ concat \in S
    BY <1>1
  <2>2. In(concat)[i] \in ToSet(In(concat)) /\ ReaderNodes(In(concat)[i]) = {concat}
    BY <1>1, SingleConsumerIs DEF ToSet
  <2>3. PassesOn(unsqueeze(i), S)
    BY <1>1, <2>1, <2>2, PassesToOne DEF unsqueeze
  <2>4. /\ In(unsqueeze(i))[1] \in ToSet(In(unsqueeze(i)))
        /\ ReaderNodes(In(unsqueeze(i))[1]) = {unsqueeze(i)} /\ Len(Out(matmul(i))) = 1
    BY <1>1, <2>1, SingleConsumerIs, ListsOfNode DEF ToSet, Arity
  <2>5. PassesOn(matmul(i), S)
    BY <2>1, <2>4, PassesToOne DEF matmul
  <2> QED
    BY <2>3, <2>5
<1>3. concat \in S /\ \A n \in S \ {concat} : PassesOn(n, S)
  BY <1>1, <1>2
<1> QED
  BY <1>3, SinkIsFunnel

\* The chain of a branch of ParallelEinsum, each node of which feeds the next one.
LEMMA EinsumBranchPassesOn ==
  ASSUME WellFormed(graph), NEW concat \in Node, NEW i \in DOMAIN In(concat), NEW taken,
         NEW b \in EinsumBranch(concat, i, taken), NEW S, S \subseteq Node, concat \in S,
         b.nodes \subseteq S
  PROVE  \A n \in b.nodes : PassesOn(n, S)
<1> DEFINE e == EinsumNodes(concat, i)
<1>1. /\ b.nodes = {e.first, e.tanh1, e.second, e.tanh2, e.third, e.add, e.mul}
      /\ HasSingleConsumerAt(In(concat)[i], concat, i)
      /\ Arity(e.mul, 2, 1) /\ Arity(e.add, 2, 1) /\ Arity(e.third, 2, 1)
      /\ HasSingleConsumerAt(In(e.mul)[e.addAt], e.mul, e.addAt)
      /\ HasSingleConsumerAt(In(e.add)[e.thirdAt], e.add, e.thirdAt)
      /\ Arity(e.tanh2, 1, 1) /\ HasSingleConsumerAt(Out(e.tanh2)[1], e.third, 2)
      /\ Arity(e.second, 2, 1) /\ HasSingleConsumerAt(Out(e.second)[1], e.tanh2, 1)
      /\ Arity(e.tanh1, 1, 1) /\ HasSingleConsumerAt(Out(e.tanh1)[1], e.second, 2)
      /\ Arity(e.first, 2, 1) /\ HasSingleConsumerAt(Out(e.first)[1], e.tanh1, 1)
  <2> HIDE DEF e
  <2> QED
    BY DEF EinsumBranch, Fuse, e
<1>2. /\ e.mul = Producer(In(concat)[i])
      /\ e.add = Producer(In(e.mul)[e.addAt]) /\ e.addAt \in {1, 2}
      /\ e.third = Producer(In(e.add)[e.thirdAt]) /\ e.thirdAt \in {1, 2}
  BY DEF EinsumNodes
<1> HIDE DEF e
<1>3. In(concat)[i] \in ToSet(In(concat))
  BY DEF ToSet
<1>4. PassesOn(e.mul, S)
  BY <1>1, <1>2, <1>3, SingleConsumerIs, PassesToOne DEF Arity
<1>5. In(e.mul)[e.addAt] \in ToSet(In(e.mul)) /\ In(e.add)[e.thirdAt] \in ToSet(In(e.add))
  BY <1>1, <1>2, ListsOfNode DEF ToSet, Arity
<1>6. PassesOn(e.add, S) /\ PassesOn(e.third, S)
  BY <1>1, <1>2, <1>5, SingleConsumerIs, PassesToOne DEF Arity
<1>7. PassesOn(e.tanh2, S) /\ PassesOn(e.second, S)
  BY <1>1, SingleConsumerIs, PassesToReader DEF Arity
<1>8. PassesOn(e.tanh1, S) /\ PassesOn(e.first, S)
  BY <1>1, SingleConsumerIs, PassesToReader DEF Arity
<1> QED
  BY <1>1, <1>4, <1>6, <1>7, <1>8

\* Every branch leads to the Concat.
LEMMA ParallelEinsumIsFunnel ==
  ASSUME WellFormed(graph), NEW concat, NEW taken, NEW S \in ParallelEinsum(concat, taken),
         S \subseteq Node
  PROVE  Funnel(S)
<1> DEFINE branches == [i \in 1..4 |-> EinsumBranch(concat, i, taken)]
           found == UNION {branches[i] : i \in 1..4}
<1>1. S = {concat} \cup UNION {b.nodes : b \in found} /\ Len(In(concat)) = 4
  BY DEF ParallelEinsum, Fuse, Arity
<1>2. concat \in S /\ concat \in Node /\ DOMAIN In(concat) = 1..4
  BY <1>1, ListsOfNode
<1>3. ASSUME NEW n \in S \ {concat} PROVE PassesOn(n, S)
  <2>1. PICK b \in found : n \in b.nodes
    BY <1>1
  <2>2. PICK i \in 1..4 : b \in EinsumBranch(concat, i, taken)
    OBVIOUS
  <2>3. b.nodes \subseteq S
    BY <1>1
  <2> HIDE DEF found
  <2> QED
    BY <1>2, <2>1, <2>2, <2>3, EinsumBranchPassesOn
<1> QED
  BY <1>2, <1>3, SinkIsFunnel

\* A mixture of experts looks for a path,
LEMMA MoEOfIsConvex ==
  ASSUME NEW reduce, NEW concat, NEW stacked, NEW axis, NEW taken,
         NEW S \in MoEOf(reduce, concat, stacked, axis, taken)
  PROVE  Convex(S)
BY DEF MoEOf, Convex

\* whichever Concat stacks the experts,
LEMMA MoEIsConvex ==
  ASSUME NEW n, NEW taken, NEW S \in MoE(n, taken)
  PROVE  Convex(S)
<1> DEFINE Stacked(concat) == MoEOf(n, concat, Out(concat)[1],
             NormalizeAxis(AttrOr(concat, "axis", 0), Rank(Out(concat)[1])), taken)
<1>1. \E concat : S \in Stacked(concat)
  <2> HIDE DEF Stacked
  <2> QED
    BY DEF MoE, Stacked
<1>2. PICK concat : S \in Stacked(concat)
  BY <1>1
<1> QED
  BY <1>2, MoEOfIsConvex

\* and so does the one over a split sequence.
LEMMA SplitSequenceMoEIsConvex ==
  ASSUME NEW n, NEW taken, NEW S \in SplitSequenceMoE(n, taken)
  PROVE  Convex(S)
BY DEF SplitSequenceMoE, Convex

-----------------------------------------------------------------------------
\* ParallelLinear: branches behind one value.

\* When everything that comes from outside comes from one node, and every node of the
\* set reads from it or from the set, the set is a funnel.
LEMMA OneSourceIsFunnel ==
  ASSUME WellFormed(graph), NEW S, S \subseteq Node, NEW w,
         \A m \in S : Feeds(w, m) \/ \E p \in S : Feeds(p, m),
         \A m \in S, p \in Node \ S : Feeds(p, m) => p = w
  PROVE  Funnel(S)
<1> SUFFICES ASSUME NEW p \in Feeding(S), NEW x \in Exits(S) PROVE x \in Below({p})
  BY DEF Funnel
<1>1. p = w /\ p \in Node
  BY FeedingAre
<1> DEFINE T == S \cup {p}
<1>2. T \subseteq Node /\ \A m \in T \ {p} : \E n \in T : Feeds(n, m)
  BY <1>1
<1>3. p \in T /\ x \in T
  BY DEF Exits
<1> HIDE DEF T
<1>4. T \subseteq Below({p})
  BY <1>2, <1>3, LeadsFromFirst
<1> QED
  BY <1>3, <1>4

\* What draws from a part draws from the whole.
LEMMA DrawsFromMore ==
  ASSUME NEW n, NEW S, NEW T, S \subseteq T, Draws(n, S)
  PROVE  Draws(n, T)
BY DEF Draws

\* Behind the product of a branch come only nodes that read one another and constants.
LEMMA LinearBranchIs ==
  ASSUME WellFormed(graph), NEW n, NEW taken, NEW b \in LinearBranch(n, taken),
         b.nodes \subseteq Node
  PROVE  /\ b.linear = n /\ n \in b.nodes /\ b.key[1] = In(n)[1]
         /\ In(n)[1] \in ToSet(In(n))
         /\ \A v \in ToSet(In(n)) : v = In(n)[1] \/ Producer(v) \notin Node
         /\ \A m \in b.nodes \ {n} : Draws(m, b.nodes)
         /\ b.key[3] = FALSE => Producer(b.out) \in b.nodes
<1> DEFINE weight == In(n)[2]
           product == Out(n)[1]
           type == DType(product)
           reader == CHOOSE r \in Readers(product) : TRUE
           add == reader[1]
           Bias(v) == IsConst(v) /\ DType(v) = type /\ BiasOf(v, Dims(weight)[2])
           adds == /\ IsOp(n, "MatMul") /\ Cardinality(Readers(product)) = 1
                   /\ reader[2] \in 1..2 /\ Is(reader[1], "Add", taken)
                   /\ Arity(reader[1], 2, 1) /\ Bias(In(reader[1])[3 - reader[2]])
           biased == \/ adds
                     \/ IsOp(n, "Gemm") /\ Len(In(n)) = 3 /\ In(n)[3] # Missing
           sum == IF adds THEN Out(reader[1])[1] ELSE product
           relu == SingleReader(sum)
           activated == IsOp(relu, "Relu") /\ HasOnlyConsumer(sum, relu, 1)
<1>1. /\ b = [linear |-> n,
              nodes |-> {n} \cup (IF adds THEN {reader[1]} ELSE {})
                            \cup (IF activated THEN {relu} ELSE {}),
              out |-> IF activated THEN Out(relu)[1] ELSE sum,
              type |-> type,
              key |-> <<In(n)[1], Dims(weight), activated>>]
      /\ \/ IsOp(n, "MatMul") /\ Len(In(n)) = 2
         \/ IsOp(n, "Gemm") /\ Len(In(n)) \in 2..3
      /\ Len(Out(n)) = 1 /\ IsConst(weight)
      /\ biased /\ ~adds => Bias(In(n)[3])
  BY DEF LinearBranch, Fuse, Is
<1>2. adds => /\ Cardinality(Readers(product)) = 1 /\ reader[2] \in 1..2
              /\ Arity(add, 2, 1) /\ IsConst(In(add)[3 - reader[2]])
  OBVIOUS
<1>3. biased /\ ~adds => IsConst(In(n)[3])
  BY <1>1
<1>4. ASSUME Len(In(n)) = 3, In(n)[3] # Missing PROVE biased /\ ~adds
  <2>1. IsOp(n, "Gemm")
    <3>1. \/ (IsOp(n, "MatMul") /\ Len(In(n)) = 2)
          \/ (IsOp(n, "Gemm") /\ Len(In(n)) \in 2..3)
      BY <1>1
    <3> HIDE DEF weight, reader, Bias, adds, biased, sum, relu, activated
    <3> QED
      BY <1>4, <3>1
  <2>2. ~IsOp(n, "MatMul")
    BY <2>1 DEF IsOp
  <2> QED
    BY <1>4, <2>1, <2>2
<1>5. /\ activated => IsOp(relu, "Relu") /\ HasOnlyConsumer(sum, relu, 1)
      /\ adds => sum = Out(add)[1]
      /\ ~adds => sum = Out(n)[1]
  OBVIOUS
<1> HIDE DEF weight, reader, Bias, adds, biased, sum, relu, activated
<1>6. /\ b.linear = n /\ b.key[1] = In(n)[1]
      /\ b.key[3] = FALSE => ~activated
      /\ ~activated => b.out = sum
  BY <1>1
<1>7. /\ b.nodes = {n} \cup (IF adds THEN {add} ELSE {}) \cup (IF activated THEN {relu} ELSE {})
      /\ n \in b.nodes /\ n \in Node
      /\ adds => add \in b.nodes /\ add \in Node
      /\ activated => relu \in b.nodes /\ relu \in Node
  BY <1>1
<1>8. /\ Len(In(n)) \in 2..3 /\ DOMAIN In(n) = 1..Len(In(n)) /\ Len(Out(n)) = 1
      /\ product \in Values(graph.node) /\ Producer(product) = n
  BY <1>1, <1>7, ListsOfNode, OnlyResult
<1>9. In(n)[1] \in ToSet(In(n)) /\ In(n)[2] \in ToSet(In(n))
  BY <1>8 DEF ToSet
<1>10. \A v \in ToSet(In(n)) : v = In(n)[1] \/ Producer(v) \notin Node
  <2> SUFFICES ASSUME NEW v \in ToSet(In(n)), v # In(n)[1] PROVE Producer(v) \notin Node
    OBVIOUS
  <2>1. v = In(n)[2] \/ (v = In(n)[3] /\ Len(In(n)) = 3)
    BY <1>8 DEF ToSet
  <2>2. CASE v = In(n)[2]
    BY <1>1, <1>7, <2>2, ConstantHasNoWriter DEF weight
  <2>3. CASE v = In(n)[3] /\ Len(In(n)) = 3 /\ v # Missing
    BY <1>3, <1>4, <1>7, <2>3, ConstantHasNoWriter
  <2>4. CASE v = Missing
    BY <2>4, WellFormedNodes DEF Producer
  <2> QED
    BY <2>1, <2>2, <2>3, <2>4
<1>11. ASSUME adds
       PROVE  /\ Draws(add, b.nodes)
              /\ Out(add)[1] \in Values(graph.node) /\ Producer(Out(add)[1]) = add
  <2>1. reader[2] \in DOMAIN In(add) /\ In(add)[reader[2]] = product
    BY <1>2, <1>8, <1>11, ChosenReader DEF reader
  <2>2. /\ Len(In(add)) = 2 /\ DOMAIN In(add) = 1..2 /\ Len(Out(add)) = 1
        /\ reader[2] \in 1..2 /\ IsConst(In(add)[3 - reader[2]])
    BY <1>2, <1>7, <1>11, ListsOfNode DEF Arity
  <2> HIDE DEF add, product
  <2>3. /\ ToSet(In(add)) = {product, In(add)[3 - reader[2]]}
    <3>1. CASE reader[2] = 1
      BY <2>1, <2>2, <3>1 DEF ToSet
    <3>2. CASE reader[2] = 2
      BY <2>1, <2>2, <3>2 DEF ToSet
    <3> QED
      BY <2>2, <3>1, <3>2
  <2>4. Producer(In(add)[3 - reader[2]]) \notin Node
    BY <1>7, <1>11, <2>2, <2>3, ConstantHasNoWriter
  <2>5. Feeds(n, add) /\ \A p \in Node : Feeds(p, add) => p = n
    BY <1>8, <2>3, <2>4 DEF Feeds
  <2>6. Draws(add, b.nodes)
    BY <1>7, <2>5 DEF Draws
  <2> QED
    BY <1>7, <1>11, <2>2, <2>6, OnlyResult
<1>12. sum \in Values(graph.node) /\ Producer(sum) \in b.nodes
  BY <1>5, <1>7, <1>8, <1>11
<1>13. ASSUME activated PROVE Draws(relu, b.nodes)
  <2>1. In(relu)[1] = sum
    BY <1>5, <1>12, <1>13, OnlyConsumerReads
  <2>2. Len(In(relu)) = 1
    BY <1>5, <1>7, <1>13 DEF WellFormed, MatchesSchema, Node, In, IsOp, Op
  <2>3. ToSet(In(relu)) = {sum}
    BY <1>7, <1>13, <2>1, <2>2, ListsOfNode DEF ToSet
  <2> QED
    BY <1>12, <2>3 DEF Draws, Feeds
<1>14. \A m \in b.nodes \ {n} : Draws(m, b.nodes)
  BY <1>7, <1>11, <1>13
<1> QED
  BY <1>6, <1>7, <1>9, <1>10, <1>12, <1>14

\* The gated part behind two branches draws from their results only.
LEMMA GatedMlpDraws ==
  ASSUME WellFormed(graph), NEW gate, NEW up, NEW taken, NEW T \in GatedMlp(gate, up, taken),
         T \subseteq Node, NEW S, T \subseteq S, S \subseteq Node,
         Producer(gate) \in S, Producer(up) \in S
  PROVE  \A m \in T : Draws(m, S)
<1> DEFINE g(s) == SingleReader(Out(s)[1])
           m(s) == SingleReader(Out(g(s))[1])
<1>1. \E s \in Node : /\ T = {s, g(s), m(s)} /\ In(s) = <<gate>>
                      /\ \A n \in {s, g(s), m(s)} : Len(Out(n)) = 1
                      /\ ToSet(In(g(s))) = {gate, Out(s)[1]}
                      /\ ToSet(In(m(s))) = {Out(g(s))[1], up}
  BY DEF GatedMlp, Fuse
<1>2. PICK s \in Node : /\ T = {s, g(s), m(s)} /\ In(s) = <<gate>>
                        /\ \A n \in {s, g(s), m(s)} : Len(Out(n)) = 1
                        /\ ToSet(In(g(s))) = {gate, Out(s)[1]}
                        /\ ToSet(In(m(s))) = {Out(g(s))[1], up}
  BY <1>1
<1> HIDE DEF g, m
<1>3. ToSet(In(s)) = {gate}
  BY <1>2 DEF ToSet
<1>4. Producer(Out(s)[1]) = s /\ Producer(Out(g(s))[1]) = g(s)
  BY <1>2, OnlyResult
<1>5. \A n \in T : (\E v \in ToSet(In(n)) : TRUE) /\ \A v \in ToSet(In(n)) : Producer(v) \in S
  BY <1>2, <1>3, <1>4
<1> QED
  BY <1>5 DEF Draws, Feeds

\* All branches read one value, and nothing else comes in.
LEMMA ParallelLinearIsFunnel ==
  ASSUME WellFormed(graph), NEW linear, NEW taken, NEW S \in ParallelLinear(linear, taken),
         S \subseteq Node
  PROVE  Funnel(S)
<1> DEFINE branches == UNION {LinearBranch(n, taken) : n \in Node}
           own == {b \in branches : b.linear = linear}
           group == {b \in branches : \E o \in own : b.key = o.key}
           gated == {pair \in group \X group :
                       /\ Cardinality(group) = 2 /\ pair[1] # pair[2]
                       /\ \A b \in group : b.key[3] = FALSE /\ b.type = "float"}
           w == Producer(In(linear)[1])
           mlps == UNION {GatedMlp(p[1].out, p[2].out, taken) : p \in gated}
<1>1. S = (UNION {b.nodes : b \in group}) \cup UNION mlps
  BY DEF ParallelLinear, Fuse
<1>2. ASSUME NEW b \in group
      PROVE  /\ b.nodes \subseteq S
             /\ \E n \in Node :
                  /\ b.linear = n /\ n \in b.nodes /\ b.key[1] = In(n)[1]
                  /\ In(n)[1] \in ToSet(In(n))
                  /\ \A v \in ToSet(In(n)) : v = In(n)[1] \/ Producer(v) \notin Node
                  /\ \A m \in b.nodes \ {n} : Draws(m, b.nodes)
                  /\ b.key[3] = FALSE => Producer(b.out) \in b.nodes
  <2>1. b.nodes \subseteq S
    BY <1>1
  <2>2. PICK n \in Node : b \in LinearBranch(n, taken)
    OBVIOUS
  <2> HIDE DEF group
  <2> QED
    BY <2>1, <2>2, LinearBranchIs
<1>3. \A b \in group : b.key[1] = In(linear)[1]
  <2> SUFFICES ASSUME NEW b \in group PROVE b.key[1] = In(linear)[1]
    OBVIOUS
  <2>1. PICK o \in own : b.key = o.key
    OBVIOUS
  <2>2. o \in group /\ o.linear = linear
    OBVIOUS
  <2> HIDE DEF group, own
  <2> QED
    BY <1>2, <2>1, <2>2
<1>4. ASSUME NEW T \in mlps PROVE \A m \in T : Draws(m, S)
  <2>1. PICK p \in gated : T \in GatedMlp(p[1].out, p[2].out, taken)
    OBVIOUS
  <2>2. p[1] \in group /\ p[2] \in group /\ \A b \in group : b.key[3] = FALSE
    OBVIOUS
  <2>3. T \subseteq S
    BY <1>1
  <2> HIDE DEF group, gated, mlps
  <2>4. Producer(p[1].out) \in S /\ Producer(p[2].out) \in S
    BY <1>2, <2>2
  <2> QED
    BY <2>1, <2>3, <2>4, GatedMlpDraws
<1> HIDE DEF group, gated, mlps
<1>5. ASSUME NEW m \in S, ~Draws(m, S)
      PROVE  Feeds(w, m) /\ \A p \in Node : Feeds(p, m) => p = w
  <2>1. PICK b \in group : m \in b.nodes
    BY <1>1, <1>4, <1>5
  <2>2. PICK n \in Node :
          /\ b.linear = n /\ n \in b.nodes /\ b.key[1] = In(n)[1]
          /\ In(n)[1] \in ToSet(In(n))
          /\ \A v \in ToSet(In(n)) : v = In(n)[1] \/ Producer(v) \notin Node
          /\ \A k \in b.nodes \ {n} : Draws(k, b.nodes)
          /\ b.key[3] = FALSE => Producer(b.out) \in b.nodes
    BY <1>2
  <2>3. b.nodes \subseteq S
    BY <1>2
  <2>4. m = n
    BY <1>5, <2>1, <2>2, <2>3, DrawsFromMore
  <2>5. In(m)[1] = In(linear)[1]
    BY <1>3, <2>2, <2>4
  <2> QED
    BY <2>2, <2>4, <2>5 DEF Feeds
<1>6. \A m \in S : Feeds(w, m) \/ \E p \in S : Feeds(p, m)
  BY <1>5 DEF Draws
<1>7. \A m \in S, p \in Node \ S : Feeds(p, m) => p = w
  BY <1>5 DEF Draws
<1> HIDE DEF w
<1> QED
  BY <1>6, <1>7, OneSourceIsFunnel

-----------------------------------------------------------------------------
\* The matchers of normalisations and of identifiers.

\* RmsNorm looks for a path.
LEMMA RmsNormIsConvex ==
  ASSUME NEW n, NEW taken, NEW S \in RmsNorm(n, taken)
  PROVE  Convex(S)
BY DEF RmsNorm, Fuse, Convex

\* So does CastRmsNorm,
LEMMA CastRmsNormIsConvex ==
  ASSUME NEW n, NEW taken, NEW S \in CastRmsNorm(n, taken)
  PROVE  Convex(S)
BY DEF CastRmsNorm, Fuse, Convex

\* CenteredReduce,
LEMMA CenteredReduceIsConvex ==
  ASSUME NEW n, NEW taken, NEW S \in CenteredReduce(n, taken)
  PROVE  Convex(S)
BY DEF CenteredReduce, Fuse, Convex

\* MathConcatLog,
LEMMA MathConcatLogIsConvex ==
  ASSUME NEW n, NEW taken, NEW S \in MathConcatLog(n, taken)
  PROVE  Convex(S)
BY DEF MathConcatLog, Fuse, Convex

\* RecRankCalibration,
LEMMA RecRankCalibrationIsConvex ==
  ASSUME NEW log, NEW taken, NEW S \in RecRankCalibration(log, taken)
  PROVE  Convex(S)
<1> DEFINE r == RecRankNodes(log)
<1> HIDE DEF r
<1> QED
  BY DEF RecRankCalibration, Fuse, Convex, r

\* ModuloGather,
LEMMA ModuloGatherIsConvex ==
  ASSUME NEW gather, NEW taken, NEW S \in ModuloGather(gather, taken)
  PROVE  Convex(S)
<1> DEFINE h == HashNodes(At(gather, 2))
<1> HIDE DEF h
<1> QED
  BY DEF ModuloGather, Fuse, Convex, h

\* BucketizeGather,
LEMMA BucketizeGatherIsConvex ==
  ASSUME NEW squeeze, NEW taken, NEW S \in BucketizeGather(squeeze, taken)
  PROVE  Convex(S)
<1> DEFINE h == HashNodes(At(At(squeeze, 1), 2))
<1> HIDE DEF h
<1> QED
  BY DEF BucketizeGather, Fuse, Convex, h

\* LogBucketizeGather,
LEMMA LogBucketizeGatherIsConvex ==
  ASSUME NEW anchor, NEW taken, NEW S \in LogBucketizeGather(anchor, taken)
  PROVE  Convex(S)
<1> DEFINE b == LogBucketNodes(IF IsOp(anchor, "Cast") THEN At(anchor, 1) ELSE anchor)
<1> HIDE DEF b
<1> QED
  BY DEF LogBucketizeGather, Fuse, Convex, b

\* MaskedEmbeddingLookup
LEMMA MaskedEmbeddingLookupIsConvex ==
  ASSUME NEW unsqueeze, NEW taken, NEW S \in MaskedEmbeddingLookup(unsqueeze, taken)
  PROVE  Convex(S)
<1> DEFINE m == MaskedNodes(unsqueeze)
<1> HIDE DEF m
<1> QED
  BY DEF MaskedEmbeddingLookup, Fuse, Convex, m

\* and SparseIdToMask.
LEMMA SparseIdToMaskIsConvex ==
  ASSUME NEW cast, NEW taken, NEW S \in SparseIdToMask(cast, taken)
  PROVE  Convex(S)
<1> DEFINE s == Selection(Via(At(cast, 1), "Add"))
<1> HIDE DEF s
<1> QED
  BY DEF SparseIdToMask, Fuse, Convex, s

\* A node with one reader passes on to it.
LEMMA SolePassesOn ==
  ASSUME WellFormed(graph), NEW n \in Node, NEW m, Sole(n, m), NEW S, m \in S
  PROVE  PassesOn(n, S)
BY PassesToReader DEF Sole

\* Every node of a selection feeds another one but the Add.
LEMMA ReplaceInvalidIdIsFunnel ==
  ASSUME WellFormed(graph), NEW add, NEW taken, NEW S \in ReplaceInvalidId(add, taken),
         S \subseteq Node
  PROVE  Funnel(S)
<1> DEFINE s == Selection(add)
<1>1. S = Range(s) /\ IsSelection(add)
  <2> HIDE DEF s
  <2> QED
    BY DEF ReplaceInvalidId, Fuse, s
<1>2. /\ IsGated(s.keep, add) /\ IsGated(s.replace, add) /\ Once(s.not, s.keepCast)
      /\ Arity(s.less, 2, 1) /\ ReadByBoth(Out(s.less)[1], s.not, s.replaceCast)
  <2> HIDE DEF s
  <2> QED
    BY <1>1 DEF IsSelection, s
<1>3. /\ s.add = add /\ s.keepCast = Gate(s.keep) /\ s.replaceCast = Gate(s.replace)
      /\ DOMAIN s = {"add", "keep", "replace", "keepCast", "replaceCast", "not", "less"}
  BY DEF Selection
<1> HIDE DEF s
<1>4. S = {s.add, s.keep, s.replace, s.keepCast, s.replaceCast, s.not, s.less}
  BY <1>1, <1>3 DEF Range
<1>5. /\ Sole(s.keep, add) /\ Sole(s.replace, add) /\ Sole(s.not, s.keepCast)
      /\ Sole(s.keepCast, s.keep) /\ Sole(s.replaceCast, s.replace)
  BY <1>2, <1>3 DEF IsGated, Once
<1>6. PassesOn(s.less, S)
  <2> DEFINE v == Out(s.less)[1]
  <2>1. s.less \in Node /\ Len(Out(s.less)) = 1
    BY <1>2, <1>4 DEF Arity
  <2>2. Successors({s.less}) = ReaderNodes(v) /\ v \in Values(graph.node)
    BY <2>1, OneOutput, OnlyResult
  <2> HIDE DEF v
  <2>3. Readers(v) # {}
    BY <1>2, FS_EmptySet DEF ReadByBoth, v
  <2>4. ReaderNodes(v) # {} /\ ReaderNodes(v) \subseteq {s.not, s.replaceCast}
    BY <1>2, <2>3 DEF ReadByBoth, ReaderNodes, v
  <2> QED
    BY <1>4, <2>2, <2>4 DEF PassesOn
<1>7. add \in S /\ \A n \in S \ {add} : PassesOn(n, S)
  BY <1>3, <1>4, <1>5, <1>6, SolePassesOn
<1> QED
  BY <1>7, SinkIsFunnel

\* What writes an input, when a node does.
LEMMA WriterAtIs ==
  \A n, ins, i : WriterAt(n, ins, i) # 0
                 => n # 0 /\ i \in DOMAIN ins /\ WriterAt(n, ins, i) = Producer(ins[i])
BY Zenon DEF WriterAt

\* The same for the inputs the node has.
LEMMA AtIs ==
  \A n, i : At(n, i) # 0 => n # 0 /\ i \in DOMAIN In(n) /\ At(n, i) = Producer(In(n)[i])
BY WriterAtIs, Zenon DEF At

\* It feeds the node.
LEMMA AtFeeds ==
  \A n, i : At(n, i) # 0 => Feeds(At(n, i), n)
<1> SUFFICES ASSUME NEW n, NEW i, At(n, i) # 0
             PROVE  Feeds(At(n, i), n)
  OBVIOUS
<1>1. i \in DOMAIN In(n) /\ At(n, i) = Producer(In(n)[i])
  BY AtIs, Zenon
<1>2. In(n)[i] \in ToSet(In(n))
  BY <1>1, Zenon DEF ToSet
<1> QED
  BY <1>1, <1>2, Zenon DEF Feeds

\* An output of an operator is that of the node.
LEMMA WhenOutputIs ==
  \A m, op, k, v : WhenOutput(m, op, k, v) # 0 => WhenOutput(m, op, k, v) = m
BY Zenon DEF WhenOutput

\* So it does when it is the output of an operator.
LEMMA FromFeeds ==
  \A n, i, op, k : From(n, i, op, k) # 0 => Feeds(From(n, i, op, k), n)
<1> SUFFICES ASSUME NEW n, NEW i, NEW op, NEW k, From(n, i, op, k) # 0
             PROVE  Feeds(From(n, i, op, k), n)
  OBVIOUS
<1>1. From(n, i, op, k) = At(n, i)
  BY WhenOutputIs, Zenon DEF From
<1> QED
  BY <1>1, AtFeeds, Zenon

-----------------------------------------------------------------------------
\* Every node of SegmentMaxBroadcast but the last is an input of another one.
LEMMA SegmentMaxLinks ==
  ASSUME NEW final, 0 \notin Range(SegmentMaxNodes(final))
  PROVE  LET s == SegmentMaxNodes(final)
         IN  s.final = final /\ \A f \in DOMAIN s \ {"final"} : \E g \in DOMAIN s : Feeds(s[f], s[g])
<1> DEFINE s == SegmentMaxNodes(final)
<1>1. /\ DOMAIN s = {"final", "finalReduce", "valueGather", "scatter", "fill", "indexConcat", "topk", "shapeConcat", "modUnsqueeze", "sizeUnsqueeze", "mod", "sizeCast64", "range", "countGather", "sizeSqueeze", "sizeSlice", "sizeCast32", "idSqueeze", "indexCast64", "indexCast32", "topkUnsqueeze", "countReduce", "firstShape", "second", "idShape", "first"}
      /\ s.final = final
  BY SMTT(30) DEF SegmentMaxNodes
<1>2. /\ s.finalReduce = From(s.final, 1, "ReduceMax", 1)
      /\ s.valueGather = From(s.finalReduce, 1, "Gather", 1)
      /\ s.scatter = From(s.valueGather, 2, "ScatterND", 1)
      /\ s.fill = From(s.scatter, 1, "ConstantOfShape", 1)
      /\ s.indexConcat = From(s.scatter, 2, "Concat", 1)
  BY DEF SegmentMaxNodes
<1>3. /\ s.topk = From(s.scatter, 3, "TopK", 2)
      /\ s.shapeConcat = From(s.fill, 1, "Concat", 1)
      /\ s.modUnsqueeze = From(s.indexConcat, 2, "Unsqueeze", 1)
      /\ s.sizeUnsqueeze = From(s.shapeConcat, 1, "Unsqueeze", 1)
      /\ s.mod = From(s.modUnsqueeze, 1, "Mod", 1)
  BY DEF SegmentMaxNodes
<1>4. /\ s.sizeCast64 = From(s.sizeUnsqueeze, 1, "Cast", 1)
      /\ s.range = From(s.mod, 1, "Range", 1)
      /\ s.countGather = From(s.mod, 2, "Gather", 1)
      /\ s.sizeSqueeze = From(s.sizeCast64, 1, "Squeeze", 1)
      /\ s.sizeSlice = From(s.sizeSqueeze, 1, "Slice", 1)
  BY DEF SegmentMaxNodes
<1>5. /\ s.sizeCast32 = From(s.sizeSlice, 1, "Cast", 1)
      /\ s.idSqueeze = From(s.range, 2, "Squeeze", 1)
      /\ s.indexCast64 = From(s.topk, 1, "Cast", 1)
      /\ s.indexCast32 = From(s.indexCast64, 1, "Cast", 1)
      /\ s.topkUnsqueeze = From(s.indexConcat, 1, "Unsqueeze", 1)
  BY DEF SegmentMaxNodes
<1>6. /\ s.countReduce = From(s.shapeConcat, 2, "ReduceMax", 1)
      /\ s.firstShape = From(s.sizeCast32, 1, "Shape", 1)
      /\ s.second = From(s.countGather, 1, "Unique", 4)
      /\ s.idShape = From(s.idSqueeze, 1, "Shape", 1)
      /\ s.first = From(s.indexCast32, 1, "Unique", 3)
  BY DEF SegmentMaxNodes
<1> HIDE DEF s
<1>7. \A f \in DOMAIN s : s[f] # 0
  BY DEF Range, s
<1>8. ASSUME NEW f \in DOMAIN s \ {"final"}
      PROVE  \E g \in DOMAIN s : Feeds(s[f], s[g])
  <2>1. \E g \in DOMAIN s : \E i, op, k : s[f] = From(s[g], i, op, k)
    BY <1>1, <1>2, <1>3, <1>4, <1>5, <1>6
  <2>2. PICK g \in DOMAIN s : \E i, op, k : s[f] = From(s[g], i, op, k)
    BY <2>1
  <2>3. s[f] # 0
    BY <1>7
  <2> QED
    BY <2>2, <2>3, FromFeeds
<1> QED
  BY <1>1, <1>8 DEF s

\* SegmentMaxBroadcast lets nothing out but what its last node writes.
LEMMA SegmentMaxBroadcastIsFunnel ==
  ASSUME WellFormed(graph), NEW final, NEW taken, NEW S \in SegmentMaxBroadcast(final, taken),
         S \subseteq Node
  PROVE  Funnel(S)
<1> DEFINE s == SegmentMaxNodes(final)
<1>1. S = Range(s) /\ 0 \notin Range(s) /\ HasNoEscapingInternalOutputs(S, final)
  <2> HIDE DEF s
  <2> QED
    BY DEF SegmentMaxBroadcast, Fuse, s
<1>2. s.final = final /\ \A f \in DOMAIN s \ {"final"} : \E g \in DOMAIN s : Feeds(s[f], s[g])
  BY <1>1, SegmentMaxLinks
<1>3. "final" \in DOMAIN s
  BY DEF SegmentMaxNodes
<1> HIDE DEF s
<1>4. final \in S
  BY <1>1, <1>2, <1>3 DEF Range
<1>5. ASSUME NEW n \in S \ {final}
      PROVE  PassesOn(n, S)
  <2>1. PICK f \in DOMAIN s : n = s[f]
    BY <1>1 DEF Range
  <2>2. PICK g \in DOMAIN s : Feeds(n, s[g])
    BY <1>2, <2>1
  <2>3. s[g] \in Node
    BY <1>1 DEF Range
  <2>4. Successors({n}) # {}
    BY <2>2, <2>3, SuccessorsOfOne
  <2>5. \A v \in Outputs(n) : ReaderNodes(v) \subseteq S
    BY <1>1 DEF HasNoEscapingInternalOutputs, Outputs
  <2> QED
    BY <2>4, <2>5 DEF PassesOn, Successors
<1> QED
  BY <1>4, <1>5, SinkIsFunnel

-----------------------------------------------------------------------------
\* The matchers of attention.  A linked node hands what it writes to one node.
LEMMA LinkIs ==
  \A n, i, op, ins, taken :
     Link(n, i, op, ins, taken) # 0
     => /\ Link(n, i, op, ins, taken) = At(n, i)
        /\ n # 0 /\ Arity(At(n, i), ins, 1) /\ HasSingleConsumer(In(n)[i])
<1> SUFFICES ASSUME NEW n, NEW i, NEW op, NEW ins, NEW taken, Link(n, i, op, ins, taken) # 0
             PROVE  /\ Link(n, i, op, ins, taken) = At(n, i)
                    /\ n # 0 /\ Arity(At(n, i), ins, 1) /\ HasSingleConsumer(In(n)[i])
  OBVIOUS
<1>1. OwnedBy(n, i, At(n, i), op, ins, taken) # 0
  BY Zenon DEF Link
<1>2. \A m : OwnedBy(n, i, m, op, ins, taken) # 0
             => /\ OwnedBy(n, i, m, op, ins, taken) = m
                /\ n # 0 /\ Arity(m, ins, 1) /\ HasSingleConsumer(In(n)[i])
  BY Zenon DEF OwnedBy
<1> QED
  BY <1>1, <1>2, Zenon DEF Link

\* It passes on to the node that it is linked to.
LEMMA LinkPassesOn ==
  ASSUME WellFormed(graph), NEW n \in Node, NEW i, NEW op, NEW ins, NEW taken,
         Link(n, i, op, ins, taken) \in Node, NEW S, n \in S
  PROVE  PassesOn(Link(n, i, op, ins, taken), S)
<1> DEFINE m == Link(n, i, op, ins, taken)
<1> DEFINE v == In(n)[i]
<1>1. m # 0
  BY WellFormedNodes
<1>2. m = At(n, i) /\ Arity(m, ins, 1) /\ HasSingleConsumer(v)
  BY <1>1, LinkIs
<1> HIDE DEF m
<1>3. i \in DOMAIN In(n) /\ m = Producer(v)
  BY <1>1, <1>2, AtIs, Zenon
<1> HIDE DEF v
<1>4. v \in ToSet(In(n))
  BY <1>3 DEF ToSet, v
<1>5. v \in Values(graph.node)
  BY <1>4, ValuesOfNode
<1>6. PICK r \in Node : ReaderNodes(v) = {r}
  BY <1>2, <1>5, SoleReader DEF HasSingleConsumer
<1>7. n \in ReaderNodes(v)
  <2>1. Producer(v) \in Node
    BY <1>3 DEF m
  <2> QED
    BY <1>4, <2>1, ProducerIsBefore
<1>8. ReaderNodes(v) = {n}
  BY <1>6, <1>7
<1>9. Producer(v) \in Node /\ Len(Out(Producer(v))) = 1
  BY <1>2, <1>3 DEF Arity, m
<1>10. PassesOn(Producer(v), S)
  BY <1>4, <1>8, <1>9, PassesToOne
<1> QED
  BY <1>3, <1>10 DEF m

\* The scores of the single-query form are linked to the Add.
LEMMA SimRank3ScoresAre ==
  ASSUME NEW add, NEW taken, NEW c \in SimRank3Scores(add, taken)
  PROVE  /\ Range(c) = {c[1], c[2]}
         /\ \E i : c[1] = Link(add, i, "Mul", 2, taken)
         /\ \E j : c[2] = Link(c[1], j, "Einsum", 2, taken)
<1> DEFINE Score(scale, j) == {<<scale, n>> : n \in {Link(scale, j, "Einsum", 2, taken)} \ {0}}
<1>1. \E i, j : c \in Score(Link(add, i, "Mul", 2, taken), j)
  <2> HIDE DEF Score
  <2> QED
    BY DEF SimRank3Scores, Score
<1>2. PICK i, j : c \in Score(Link(add, i, "Mul", 2, taken), j)
  BY <1>1
<1>3. c = <<Link(add, i, "Mul", 2, taken), Link(Link(add, i, "Mul", 2, taken), j, "Einsum", 2, taken)>>
  BY <1>2
<1>4. Range(c) = {c[1], c[2]}
  BY <1>3 DEF Range
<1> QED
  BY <1>3, <1>4

\* What the single-query form matches.
LEMMA SimRank3MhtaIs ==
  ASSUME NEW reshape, NEW taken, NEW S \in SimRank3Mhta(reshape, taken)
  PROVE  LET t == SimRank3Tail(reshape, taken)
         IN  \E i : LET add == Link(t.temper, i, "Add", 2, taken)
                    IN  \E c \in SimRank3Scores(add, taken) : S = Range(t) \cup Range(c) \cup {add, reshape}
<1> DEFINE t == SimRank3Tail(reshape, taken)
<1> DEFINE Data == IF IsOp(At(t.temper, 1), "Add") THEN 1 ELSE IF IsOp(t.temper, "Mul") THEN 2 ELSE 0
<1> DEFINE add == Link(t.temper, Data, "Add", 2, taken)
<1>1. \E c \in SimRank3Scores(add, taken) : S = Range(t) \cup Range(c) \cup {add, reshape}
  <2> HIDE DEF t
  <2> QED
    BY DEF SimRank3Mhta, Fuse, t
<1> HIDE DEF t
<1> QED
  BY <1>1 DEF t

\* Each node of the single-query form passes on to the next one.
LEMMA SimRank3MhtaIsFunnel ==
  ASSUME WellFormed(graph), NEW reshape, NEW taken, NEW S \in SimRank3Mhta(reshape, taken),
         S \subseteq Node
  PROVE  Funnel(S)
<1> DEFINE t == SimRank3Tail(reshape, taken)
<1>1. /\ Range(t) = {t.value, t.unsqueeze, t.softmax, t.temper}
      /\ t.value = Link(reshape, 1, "MatMul", 2, taken)
      /\ t.unsqueeze = Link(t.value, 1, "Unsqueeze", 2, taken)
      /\ t.softmax = Link(t.unsqueeze, 1, "Softmax", 1, taken)
      /\ \E op : t.temper = Link(t.softmax, 1, op, 2, taken)
  BY DEF SimRank3Tail, Range
<1> HIDE DEF t
<1>2. PICK i : \E c \in SimRank3Scores(Link(t.temper, i, "Add", 2, taken), taken) :
                 S = Range(t) \cup Range(c) \cup {Link(t.temper, i, "Add", 2, taken), reshape}
  BY SimRank3MhtaIs DEF t
<1> DEFINE add == Link(t.temper, i, "Add", 2, taken)
<1>3. PICK c \in SimRank3Scores(add, taken) : S = Range(t) \cup Range(c) \cup {add, reshape}
  BY <1>2
<1>4. add = Link(t.temper, i, "Add", 2, taken)
  OBVIOUS
<1> HIDE DEF add
<1>5. /\ Range(c) = {c[1], c[2]}
      /\ \E k : c[1] = Link(add, k, "Mul", 2, taken)
      /\ \E j : c[2] = Link(c[1], j, "Einsum", 2, taken)
  BY <1>3, SimRank3ScoresAre
<1>6. S = {t.value, t.unsqueeze, t.softmax, t.temper, c[1], c[2], add, reshape}
  BY <1>1, <1>3, <1>5
<1>7. \A n \in S \ {reshape} : \E m \in S : \E k, op, ins : n = Link(m, k, op, ins, taken)
  BY <1>1, <1>4, <1>5, <1>6
<1>8. \A n \in S \ {reshape} : PassesOn(n, S)
  BY <1>7, LinkPassesOn
<1>9. reshape \in S
  BY <1>6
<1> QED
  BY <1>8, <1>9, SinkIsFunnel

\* The plain form of attention looks for a path, after the transposes are added.
LEMMA PlainMhtaIsConvex ==
  ASSUME NEW value, NEW taken, NEW S \in PlainMhta(value, taken)
  PROVE  Convex(S)
<1> DEFINE c == PlainNodes(value, taken)
<1> HIDE DEF c
<1> QED
  BY DEF PlainMhta, Convex, c

\* So does the boolean form,
LEMMA BooleanMhtaIsConvex ==
  ASSUME NEW value, NEW taken, NEW S \in BooleanMhta(value, taken)
  PROVE  Convex(S)
BY DEF BooleanMhta, Convex

\* and the rank-3 form, once without its boundary and once with it.
LEMMA LseqMhtaIsConvex ==
  ASSUME NEW value, NEW taken, NEW S \in LseqMhta(value, taken)
  PROVE  Convex(S)
<1> DEFINE c == LseqNodes(value, taken)
<1> HIDE DEF c
<1> QED
  BY DEF LseqMhta, Convex, c

\* The first form that matches is taken, and each is sound.
LEMMA MhtaIsSound ==
  ASSUME WellFormed(graph), NEW n, NEW taken, NEW S \in MhtaScaledDotProductAttention(n, taken),
         S \subseteq Node
  PROVE  Sound(S)
<1>1. \/ S \in BooleanMhta(n, taken) \/ S \in LseqMhta(n, taken)
      \/ S \in PlainMhta(n, taken) \/ S \in SimRank3Mhta(n, taken)
  BY DEF MhtaScaledDotProductAttention
<1> QED
  BY <1>1, BooleanMhtaIsConvex, LseqMhtaIsConvex, PlainMhtaIsConvex, SimRank3MhtaIsFunnel DEF Sound

\* The projection of one attention looks for a path,
LEMMA QkvAttentionOutputProjectionIsConvex ==
  ASSUME NEW gemm, NEW taken, NEW S \in QkvAttentionOutputProjection(gemm, taken)
  PROVE  Convex(S)
BY DEF QkvAttentionOutputProjection, Fuse, Convex

\* so does the one of several inputs,
LEMMA MultiKqvMhaOutputProjectionIsConvex ==
  ASSUME NEW slice, NEW taken, NEW S \in MultiKqvMhaOutputProjection(slice, taken)
  PROVE  Convex(S)
BY DEF MultiKqvMhaOutputProjection, Convex

\* and the mask.
LEMMA GenerateMTGRCustomMaskIsConvex ==
  ASSUME NEW unsqueeze, NEW taken, NEW S \in GenerateMTGRCustomMask(unsqueeze, taken)
  PROVE  Convex(S)
BY DEF GenerateMTGRCustomMask, Convex

-----------------------------------------------------------------------------
\* What a finder proposes.

\* A match is looked into when its finder is not one of the two that ask nothing
\* of what is between the nodes, and is of nodes of the graph.
SoundFor(fusion, S) == fusion \notin Unguarded /\ S \subseteq Node => Sound(S)

\* Every matcher that asks finds funnels or convex sets.
LEMMA MatchIsSound ==
  ASSUME WellFormed(graph), NEW fusion \in ToSet(Finders), fusion # "GemmActivation",
         NEW n, NEW taken, NEW S \in MatchAt(fusion, n, taken)
  PROVE  SoundFor(fusion, S)
<1> SUFFICES ASSUME fusion \notin Unguarded, S \subseteq Node
             PROVE  Sound(S)
  BY DEF SoundFor
<1>1. CASE fusion = "MultiKqvMhaOutputProjection"
  <2>1. S \in MultiKqvMhaOutputProjection(n, taken)
    BY <1>1 DEF MatchAt
  <2> QED
    BY <2>1, MultiKqvMhaOutputProjectionIsConvex DEF Sound
<1>2. CASE fusion = "QkvAttentionOutputProjection"
  <2>1. S \in QkvAttentionOutputProjection(n, taken)
    BY <1>2 DEF MatchAt
  <2> QED
    BY <2>1, QkvAttentionOutputProjectionIsConvex DEF Sound
<1>3. CASE fusion = "MhtaScaledDotProductAttention"
  <2>1. S \in MhtaScaledDotProductAttention(n, taken)
    BY <1>3 DEF MatchAt
  <2> QED
    BY <2>1, MhtaIsSound
<1>4. CASE fusion = "GenerateMTGRCustomMask"
  <2>1. S \in GenerateMTGRCustomMask(n, taken)
    BY <1>4 DEF MatchAt
  <2> QED
    BY <2>1, GenerateMTGRCustomMaskIsConvex DEF Sound
<1>5. CASE fusion = "MoE"
  <2>1. S \in MoE(n, taken)
    BY <1>5 DEF MatchAt
  <2> QED
    BY <2>1, MoEIsConvex DEF Sound
<1>6. CASE fusion = "SplitSequenceMoE"
  <2>1. S \in SplitSequenceMoE(n, taken)
    BY <1>6 DEF MatchAt
  <2> QED
    BY <2>1, SplitSequenceMoEIsConvex DEF Sound
<1>7. CASE fusion = "ParallelEinsum"
  <2>1. S \in ParallelEinsum(n, taken)
    BY <1>7 DEF MatchAt
  <2> QED
    BY <2>1, ParallelEinsumIsFunnel DEF Sound
<1>8. CASE fusion = "CastRmsNorm"
  <2>1. S \in CastRmsNorm(n, taken)
    BY <1>8 DEF MatchAt
  <2> QED
    BY <2>1, CastRmsNormIsConvex DEF Sound
<1>9. CASE fusion = "RmsNorm"
  <2>1. S \in RmsNorm(n, taken)
    BY <1>9 DEF MatchAt
  <2> QED
    BY <2>1, RmsNormIsConvex DEF Sound
<1>10. CASE fusion = "CenteredReduce"
  <2>1. S \in CenteredReduce(n, taken)
    BY <1>10 DEF MatchAt
  <2> QED
    BY <2>1, CenteredReduceIsConvex DEF Sound
<1>11. CASE fusion = "SegmentMaxBroadcast"
  <2>1. S \in SegmentMaxBroadcast(n, taken)
    BY <1>11 DEF MatchAt
  <2> QED
    BY <2>1, SegmentMaxBroadcastIsFunnel DEF Sound
<1>12. CASE fusion = "RecRankCalibration"
  <2>1. S \in RecRankCalibration(n, taken)
    BY <1>12 DEF MatchAt
  <2> QED
    BY <2>1, RecRankCalibrationIsConvex DEF Sound
<1>13. CASE fusion = "MaskedEmbeddingLookup"
  <2>1. S \in MaskedEmbeddingLookup(n, taken)
    BY <1>13 DEF MatchAt
  <2> QED
    BY <2>1, MaskedEmbeddingLookupIsConvex DEF Sound
<1>14. CASE fusion = "SparseIdToMask"
  <2>1. S \in SparseIdToMask(n, taken)
    BY <1>14 DEF MatchAt
  <2> QED
    BY <2>1, SparseIdToMaskIsConvex DEF Sound
<1>15. CASE fusion = "BucketizeGather"
  <2>1. S \in BucketizeGather(n, taken)
    BY <1>15 DEF MatchAt
  <2> QED
    BY <2>1, BucketizeGatherIsConvex DEF Sound
<1>16. CASE fusion = "LogBucketizeGather"
  <2>1. S \in LogBucketizeGather(n, taken)
    BY <1>16 DEF MatchAt
  <2> QED
    BY <2>1, LogBucketizeGatherIsConvex DEF Sound
<1>17. CASE fusion = "ModuloGather"
  <2>1. S \in ModuloGather(n, taken)
    BY <1>17 DEF MatchAt
  <2> QED
    BY <2>1, ModuloGatherIsConvex DEF Sound
<1>18. CASE fusion = "ReplaceInvalidId"
  <2>1. S \in ReplaceInvalidId(n, taken)
    BY <1>18 DEF MatchAt
  <2> QED
    BY <2>1, ReplaceInvalidIdIsFunnel DEF Sound
<1>19. CASE fusion = "MathConcatLog"
  <2>1. S \in MathConcatLog(n, taken)
    BY <1>19 DEF MatchAt
  <2> QED
    BY <2>1, MathConcatLogIsConvex DEF Sound
<1>20. CASE fusion = "SplitUnsqueezeConcat"
  <2>1. S \in SplitUnsqueezeConcat(n, taken)
    BY <1>20 DEF MatchAt
  <2> QED
    BY <2>1, SplitUnsqueezeConcatIsFunnel DEF Sound
<1>21. CASE fusion = "SplitReduce"
  <2>1. S \in SplitReduce(n, taken)
    BY <1>21 DEF MatchAt
  <2> QED
    BY <2>1, SplitReduceIsFunnel DEF Sound
<1>22. CASE fusion = "ConcatMatMul"
  <2>1. S \in ConcatMatMul(n, taken)
    BY <1>22 DEF MatchAt
  <2> QED
    BY <2>1, ConcatMatMulIsFunnel DEF Sound
<1>23. CASE fusion = "ConcatSplit"
  <2>1. S \in ConcatSplit(n, taken)
    BY <1>23 DEF MatchAt
  <2> QED
    BY <2>1, ConcatSplitIsFunnel DEF Sound
<1>24. CASE fusion = "SplitConcat"
  <2>1. S \in SplitConcat(n, taken)
    BY <1>24 DEF MatchAt
  <2> QED
    BY <2>1, SplitConcatIsFunnel DEF Sound
<1>25. CASE fusion = "SwiGlu"
  <2>1. S \in SwiGlu(n, taken)
    BY <1>25 DEF MatchAt
  <2> QED
    BY <2>1, SwiGluIsFunnel DEF Sound
<1>26. CASE fusion = "ParallelMatMulConcat"
  <2>1. S \in ParallelMatMulConcat(n, taken)
    BY <1>26 DEF MatchAt
  <2> QED
    BY <2>1, ParallelMatMulConcatIsFunnel DEF Sound
<1>27. CASE fusion = "ParallelLinear"
  <2>1. S \in ParallelLinear(n, taken)
    BY <1>27 DEF MatchAt
  <2> QED
    BY <2>1, ParallelLinearIsFunnel DEF Sound
<1>28. CASE fusion = "StridedView"
  <2>1. S \in StridedView(n, taken)
    BY <1>28 DEF MatchAt
  <2> QED
    BY <2>1, StridedViewIsFunnel DEF Sound
<1>29. CASE fusion = "TileConcat"
  <2>1. S \in TileConcat(n, taken)
    BY <1>29 DEF MatchAt
  <2> QED
    BY <2>1, TileConcatIsConvex DEF Sound
<1>30. CASE fusion = "SliceConcat"
  <2>1. S \in SliceConcat(n, taken)
    BY <1>30 DEF MatchAt
  <2> QED
    BY <2>1, SliceConcatIsFunnel DEF Sound
<1>31. CASE fusion = "ConcatReshape"
  <2>1. S \in ConcatReshape(n, taken)
    BY <1>31 DEF MatchAt
  <2> QED
    BY <2>1, ConcatReshapeIsConvex DEF Sound
<1>32. CASE fusion = "FusedGemm"
  <2>1. S \in FusedGemm(n, taken)
    BY <1>32 DEF MatchAt
  <2> QED
    BY <2>1, FusedGemmIsFunnel DEF Sound
<1>33. CASE fusion = "Silu"
  <2>1. S \in Silu(n, taken)
    BY <1>33 DEF MatchAt
  <2> QED
    BY <2>1, SiluIsFunnel DEF Sound
<1> QED
  BY <1>1, <1>2, <1>3, <1>4, <1>5, <1>6, <1>7, <1>8, <1>9, <1>10, <1>11, <1>12,
     <1>13, <1>14, <1>15, <1>16, <1>17, <1>18, <1>19, <1>20, <1>21, <1>22, <1>23,
     <1>24, <1>25, <1>26, <1>27, <1>28, <1>29, <1>30, <1>31, <1>32, <1>33 DEF ToSet, Finders, Unguarded

\* What is made of a match is a list of matches.
LEMMA MadeIs ==
  ASSUME NEW found, NEW X, found \subseteq X
  PROVE  Made(found) \in Seq(X)
<1>1. CASE found = {}
  BY <1>1 DEF Made
<1>2. CASE found # {}
  BY <1>2 DEF Made
<1> QED
  BY <1>1, <1>2

\* A set of nodes that is not empty has a last one.
LEMMA NodesOfSet ==
  ASSUME WellFormed(graph), NEW s \in SUBSET Node, s # {}
  PROVE  Max(s) \in s /\ Max(s) \in Node /\ s \ {Max(s)} \in SUBSET Node
<1>1. Len(graph.node) \in Nat /\ Node = 1..Len(graph.node)
  BY WellFormedNodes
<1>2. Max(s) \in s
  BY <1>1, LastIsIn
<1> QED
  BY <1>2

\* A function on the sets of nodes that goes on from one node to the next by step,
\* as long as it stays in V.
GoesOn(step, base, V, it) ==
  \A s \in SUBSET Node :
    IF s = {} THEN it[s] = base
    ELSE it[s \ {Max(s)}] \in V => it[s] = step[<<Max(s), it[s \ {Max(s)}]>>]

\* Such a function stays in V to the last node.
LEMMA NodeFoldStays ==
  ASSUME WellFormed(graph), NEW V, NEW base \in V, NEW step \in [Node \X V -> V],
         NEW it, GoesOn(step, base, V, it)
  PROVE  it[Node] \in V
<1> DEFINE n == Len(graph.node)
<1> DEFINE Bad == {i \in 0..n : it[1..i] \notin V}
<1>1. n \in Nat /\ Node = 1..n
  BY WellFormedNodes
<1> HIDE DEF n
<1>2. SUFFICES ASSUME Bad # {} PROVE FALSE
  BY <1>1
<1>3. PICK k \in Bad : \A j \in Bad : k <= j
  <2>1. Bad \subseteq Nat
    BY <1>1
  <2> HIDE DEF Bad
  <2> QED
    BY <1>2, <2>1, FirstOfSet
<1>4. k \in 0..n /\ it[1..k] \notin V
  OBVIOUS
<1>5. CASE k = 0
  <2>1. 1..k = {} /\ {} \in SUBSET Node
    BY <1>5
  <2>2. it[{}] = base
    BY <2>1 DEF GoesOn
  <2> QED
    BY <1>4, <2>1, <2>2
<1>6. CASE k # 0
  <2>1. k \in 1..n
    BY <1>1, <1>4, <1>6
  <2>2. /\ 1..k \in SUBSET Node /\ 1..k # {} /\ Max(1..k) = k
        /\ (1..k) \ {k} = 1..(k - 1) /\ k - 1 \in 0..n /\ k \in Nat
    BY <1>1, <2>1, PrefixSets
  <2>3. it[1..(k - 1)] \in V
    <3>1. k - 1 \notin Bad
      BY <1>3, <2>2
    <3> QED
      BY <2>2, <3>1
  <2>4. it[1..k] = step[<<k, it[1..(k - 1)]>>]
    BY <2>2, <2>3 DEF GoesOn
  <2>5. <<k, it[1..(k - 1)]>> \in Node \X V
    BY <1>1, <2>1, <2>3
  <2>6. it[1..k] \in V
    BY <2>4, <2>5
  <2> QED
    BY <1>4, <2>6
<1> QED
  BY <1>5, <1>6

\* The function that a fold of step over the sets of nodes defines.
NodeFold(step, base, V, it) ==
  /\ it \in [SUBSET Node -> V]
  /\ \A s \in SUBSET Node :
       it[s] = IF s = {} THEN base ELSE step[<<Max(s), it[s \ {Max(s)}]>>]

\* There is one.
LEMMA NodeFoldExists ==
  ASSUME WellFormed(graph), NEW V, NEW base \in V, NEW step \in [Node \X V -> V]
  PROVE  \E it : NodeFold(step, base, V, it)
<1>1. Len(graph.node) \in Nat /\ Node = 1..Len(graph.node)
  BY WellFormedNodes
<1>2. PICK it : FoldsBy(step, base, Len(graph.node), V, it)
  BY <1>1, FoldsByExists
<1> QED
  BY <1>1, <1>2 DEF FoldsBy, NodeFold

\* The candidates are a list of what the matcher of the fusion makes of the nodes.
LEMMA CandidatesAreMade ==
  ASSUME WellFormed(graph), NEW fusion, fusion # "GemmActivation", NEW taken
  PROVE  Candidates(fusion, taken) \in Seq(UNION {MatchAt(fusion, n, taken) : n \in Node})
<1> DEFINE V == Seq(UNION {MatchAt(fusion, n, taken) : n \in Node})
<1> DEFINE N == [i \in DOMAIN graph.node |-> i]
<1> DEFINE D == DOMAIN N
<1> DEFINE made(n) == Made(MatchAt(fusion, n, taken))
<1> DEFINE step == [p \in Node \X V |-> p[2] \o made(p[1])]
<1> DEFINE P(g) == g = [s \in SUBSET D |-> IF s = {} THEN <<>>
                                           ELSE g[s \ {Max(s)}] \o made(N[Max(s)])]
<1> DEFINE h == CHOOSE g : P(g)
<1>1. Candidates(fusion, taken) = h[D]
  BY DEF Candidates, FoldLeftDomain, FoldLeft, MapThenFoldSet
<1>2. D = Node /\ \A n \in Node : N[n] = n
  BY DEF Node
<1>3. \A n \in Node : made(n) \in V
  <2>1. ASSUME NEW n \in Node
        PROVE  MatchAt(fusion, n, taken) \subseteq UNION {MatchAt(fusion, m, taken) : m \in Node}
    OBVIOUS
  <2> QED
    BY <2>1, MadeIs
<1>4. <<>> \in V /\ \A x, y \in V : x \o y \in V
  OBVIOUS
<1> HIDE DEF V, N, D, made
<1>5. step \in [Node \X V -> V]
  <2>1. \A p \in Node \X V : p[2] \o made(p[1]) \in V
    BY <1>3, <1>4
  <2> QED
    BY <2>1
<1>6. \A n \in Node, x \in V : step[<<n, x>>] = x \o made(n)
  OBVIOUS
<1> HIDE DEF step
<1>7. \A s \in SUBSET Node : s # {} => /\ Max(s) \in Node /\ s \ {Max(s)} \in SUBSET Node
                                       /\ N[Max(s)] = Max(s)
  BY <1>2, NodesOfSet
<1>8. \E g : P(g)
  <2>4. PICK it : NodeFold(step, <<>>, V, it)
    <3>1. <<>> \in V
      BY <1>4
    <3> QED
      BY <3>1, <1>5, NodeFoldExists
  <2>1. /\ it \in [SUBSET Node -> V]
        /\ \A s \in SUBSET Node :
             it[s] = IF s = {} THEN <<>> ELSE step[<<Max(s), it[s \ {Max(s)}]>>]
    BY <2>4 DEF NodeFold
  <2>2. \A s \in SUBSET Node : s # {} => it[s] = it[s \ {Max(s)}] \o made(N[Max(s)])
    <3>1. ASSUME NEW s \in SUBSET Node, s # {}
          PROVE  it[s] = it[s \ {Max(s)}] \o made(N[Max(s)])
      <4>1. Max(s) \in Node /\ it[s \ {Max(s)}] \in V /\ N[Max(s)] = Max(s)
        BY <1>7, <2>1, <3>1
      <4>2. it[s] = step[<<Max(s), it[s \ {Max(s)}]>>]
        BY <2>1, <3>1
      <4>3. step[<<Max(s), it[s \ {Max(s)}]>>] = it[s \ {Max(s)}] \o made(Max(s))
        BY <1>6, <4>1
      <4> QED
        BY <4>1, <4>2, <4>3, Zenon
    <3> QED
      BY <3>1
  <2>3. P(it)
    BY <1>2, <2>1, <2>2
  <2> HIDE DEF P
  <2> QED
    BY <2>3
<1>9. P(h)
  <2> HIDE DEF P
  <2> QED
    BY <1>8
<1>10. GoesOn(step, <<>>, V, h)
  <2> HIDE DEF h
  <2>1. \A s \in SUBSET Node :
          h[s] = IF s = {} THEN <<>> ELSE h[s \ {Max(s)}] \o made(N[Max(s)])
    BY <1>2, <1>9
  <2>2. \A s \in SUBSET Node : s = {} => h[s] = <<>>
    BY <2>1
  <2>3. ASSUME NEW s \in SUBSET Node, s # {}, h[s \ {Max(s)}] \in V
        PROVE  h[s] = step[<<Max(s), h[s \ {Max(s)}]>>]
    <3>1. h[s] = h[s \ {Max(s)}] \o made(N[Max(s)])
      BY <2>1, <2>3
    <3>2. Max(s) \in Node /\ N[Max(s)] = Max(s)
      BY <1>7, <2>3
    <3> QED
      BY <1>6, <2>3, <3>1, <3>2
  <2> QED
    BY <2>2, <2>3 DEF GoesOn
<1> HIDE DEF h, P
<1>11. h[Node] \in V
  BY <1>4, <1>5, <1>10, NodeFoldStays
<1> QED
  BY <1>1, <1>2, <1>11 DEF V

-----------------------------------------------------------------------------
\* The candidates of GemmActivation, where one match takes nodes from the next.

\* The nodes a match at a Gemm is made of.
GemmNeighbours(gemm) ==
  LET after == SingleReader(Out(gemm)[1])
      activation == SingleReader(Out(after)[1])
  IN  {gemm, Producer(In(gemm)[1]), after, activation, SingleReader(Out(activation)[1])}

\* The sets of such nodes that are sound, as far as they are nodes.
GemmSets ==
  {S \in UNION {SUBSET GemmNeighbours(n) : n \in Node} : S \subseteq Node => Sound(S)}

\* A match through Reshapes is one of them, whatever is taken.
LEMMA GemmActivationAroundIn ==
  ASSUME WellFormed(graph), NEW n \in Node, NEW taken
  PROVE  GemmActivationAround(n, taken) \subseteq GemmSets
<1> SUFFICES ASSUME NEW S \in GemmActivationAround(n, taken)
             PROVE  S \in GemmSets
  OBVIOUS
<1>1. S \subseteq GemmNeighbours(n)
  BY DEF GemmActivationAround, GemmNeighbours, Fuse
<1>2. S \subseteq Node => Sound(S)
  BY GemmActivationAroundIsFunnel DEF Sound
<1> QED
  BY <1>1, <1>2 DEF GemmSets

\* So is a direct one.
LEMMA GemmActivationDirectIn ==
  ASSUME WellFormed(graph), NEW n \in Node, NEW taken
  PROVE  GemmActivationDirect(n, taken) \subseteq GemmSets
<1> SUFFICES ASSUME NEW S \in GemmActivationDirect(n, taken)
             PROVE  S \in GemmSets
  OBVIOUS
<1>1. S \subseteq GemmNeighbours(n)
  BY DEF GemmActivationDirect, GemmNeighbours, Fuse
<1>2. S \subseteq Node => Sound(S)
  BY GemmActivationDirectIsFunnel DEF Sound
<1> QED
  BY <1>1, <1>2 DEF GemmSets

\* The match at a node after those found.
AroundAfter(n, accepted, found) ==
  GemmActivationAround(n, accepted \cup UNION ToSet(found))
\* Those found through Reshapes.
GemmsAround(accepted) ==
  FoldLeftDomain(LAMBDA found, n : found \o Made(AroundAfter(n, accepted, found)),
                 <<>>, graph.node)
\* The direct ones after them.
GemmsDirect(taken, around) ==
  FoldLeftDomain(LAMBDA found, n : found \o Made(GemmActivationDirect(n, taken)),
                 around, graph.node)

\* The first pass finds such sets.
LEMMA GemmsAroundAreMade ==
  ASSUME WellFormed(graph), NEW taken
  PROVE  GemmsAround(taken) \in Seq(GemmSets)
<1> DEFINE V == Seq(GemmSets)
<1> DEFINE made(n, x) == Made(AroundAfter(n, taken, x))
<1> DEFINE N == [i \in DOMAIN graph.node |-> i]
<1> DEFINE D == DOMAIN N
<1> DEFINE step == [p \in Node \X V |-> p[2] \o made(p[1], p[2])]
<1> DEFINE P(g) == g = [s \in SUBSET D |-> IF s = {} THEN <<>>
                                           ELSE g[s \ {Max(s)}] \o made(N[Max(s)], g[s \ {Max(s)}])]
<1> DEFINE h == CHOOSE g : P(g)
<1>1. GemmsAround(taken) = h[D]
  BY DEF GemmsAround, FoldLeftDomain, FoldLeft, MapThenFoldSet
<1>2. D = Node /\ \A n \in Node : N[n] = n
  BY DEF Node
<1>3. \A n \in Node, x \in V : made(n, x) \in V
  BY MadeIs, GemmActivationAroundIn DEF AroundAfter
<1>4. <<>> \in V /\ \A x, y \in V : x \o y \in V
  OBVIOUS
<1> HIDE DEF V, N, D, made
<1>5. step \in [Node \X V -> V]
  <2>1. \A p \in Node \X V : p[2] \o made(p[1], p[2]) \in V
    BY <1>3, <1>4
  <2> QED
    BY <2>1
<1>6. \A n \in Node, x \in V : step[<<n, x>>] = x \o made(n, x)
  OBVIOUS
<1> HIDE DEF step
<1>7. \A s \in SUBSET Node : s # {} => /\ Max(s) \in Node /\ s \ {Max(s)} \in SUBSET Node
                                       /\ N[Max(s)] = Max(s)
  BY <1>2, NodesOfSet
<1>8. \E g : P(g)
  <2>1. PICK it : NodeFold(step, <<>>, V, it)
    <3>1. <<>> \in V
      BY <1>4
    <3> QED
      BY <3>1, <1>5, NodeFoldExists
  <2>2. /\ it \in [SUBSET Node -> V]
        /\ \A s \in SUBSET Node :
             it[s] = IF s = {} THEN <<>> ELSE step[<<Max(s), it[s \ {Max(s)}]>>]
    BY <2>1 DEF NodeFold
  <2>3. ASSUME NEW s \in SUBSET Node, s # {}
        PROVE  it[s] = it[s \ {Max(s)}] \o made(N[Max(s)], it[s \ {Max(s)}])
    <3>1. Max(s) \in Node /\ it[s \ {Max(s)}] \in V /\ N[Max(s)] = Max(s)
      BY <1>7, <2>2, <2>3
    <3>2. it[s] = step[<<Max(s), it[s \ {Max(s)}]>>]
      BY <2>2, <2>3
    <3>3. step[<<Max(s), it[s \ {Max(s)}]>>] = it[s \ {Max(s)}] \o made(Max(s), it[s \ {Max(s)}])
      BY <1>6, <3>1
    <3> QED
      BY <3>1, <3>2, <3>3, Zenon
  <2>4. P(it)
    BY <1>2, <2>2, <2>3
  <2> HIDE DEF P
  <2> QED
    BY <2>4
<1>9. P(h)
  <2> HIDE DEF P
  <2> QED
    BY <1>8
<1>10. GoesOn(step, <<>>, V, h)
  <2> HIDE DEF h
  <2>1. \A s \in SUBSET Node :
          h[s] = IF s = {} THEN <<>> ELSE h[s \ {Max(s)}] \o made(N[Max(s)], h[s \ {Max(s)}])
    BY <1>2, <1>9
  <2>2. \A s \in SUBSET Node : s = {} => h[s] = <<>>
    BY <2>1
  <2>3. ASSUME NEW s \in SUBSET Node, s # {}, h[s \ {Max(s)}] \in V
        PROVE  h[s] = step[<<Max(s), h[s \ {Max(s)}]>>]
    <3>1. h[s] = h[s \ {Max(s)}] \o made(N[Max(s)], h[s \ {Max(s)}])
      BY <2>1, <2>3
    <3>2. Max(s) \in Node /\ N[Max(s)] = Max(s)
      BY <1>7, <2>3
    <3>3. step[<<Max(s), h[s \ {Max(s)}]>>] = h[s \ {Max(s)}] \o made(Max(s), h[s \ {Max(s)}])
      BY <1>6, <2>3, <3>2
    <3> QED
      BY <3>1, <3>2, <3>3, Zenon
  <2> QED
    BY <2>2, <2>3 DEF GoesOn
<1> HIDE DEF h, P
<1>11. h[Node] \in V
  BY <1>4, <1>5, <1>10, NodeFoldStays
<1> QED
  BY <1>1, <1>2, <1>11 DEF V

\* The second one adds more of them.
LEMMA GemmsDirectAreMade ==
  ASSUME WellFormed(graph), NEW taken, NEW around \in Seq(GemmSets)
  PROVE  GemmsDirect(taken, around) \in Seq(GemmSets)
<1> DEFINE V == Seq(GemmSets)
<1> DEFINE made(n) == Made(GemmActivationDirect(n, taken))
<1> DEFINE N == [i \in DOMAIN graph.node |-> i]
<1> DEFINE D == DOMAIN N
<1> DEFINE step == [p \in Node \X V |-> p[2] \o made(p[1])]
<1> DEFINE P(g) == g = [s \in SUBSET D |-> IF s = {} THEN around
                                           ELSE g[s \ {Max(s)}] \o made(N[Max(s)])]
<1> DEFINE h == CHOOSE g : P(g)
<1>1. GemmsDirect(taken, around) = h[D]
  BY DEF GemmsDirect, FoldLeftDomain, FoldLeft, MapThenFoldSet
<1>2. D = Node /\ \A n \in Node : N[n] = n
  BY DEF Node
<1>3. \A n \in Node : made(n) \in V
  BY MadeIs, GemmActivationDirectIn
<1>4. around \in V /\ \A x, y \in V : x \o y \in V
  OBVIOUS
<1> HIDE DEF V, N, D, made
<1>5. step \in [Node \X V -> V]
  <2>1. \A p \in Node \X V : p[2] \o made(p[1]) \in V
    BY <1>3, <1>4
  <2> QED
    BY <2>1
<1>6. \A n \in Node, x \in V : step[<<n, x>>] = x \o made(n)
  OBVIOUS
<1> HIDE DEF step
<1>7. \A s \in SUBSET Node : s # {} => /\ Max(s) \in Node /\ s \ {Max(s)} \in SUBSET Node
                                       /\ N[Max(s)] = Max(s)
  BY <1>2, NodesOfSet
<1>8. \E g : P(g)
  <2>1. PICK it : NodeFold(step, around, V, it)
    <3>1. around \in V
      BY <1>4
    <3> QED
      BY <3>1, <1>5, NodeFoldExists
  <2>2. /\ it \in [SUBSET Node -> V]
        /\ \A s \in SUBSET Node :
             it[s] = IF s = {} THEN around ELSE step[<<Max(s), it[s \ {Max(s)}]>>]
    BY <2>1 DEF NodeFold
  <2>3. ASSUME NEW s \in SUBSET Node, s # {}
        PROVE  it[s] = it[s \ {Max(s)}] \o made(N[Max(s)])
    <3>1. Max(s) \in Node /\ it[s \ {Max(s)}] \in V /\ N[Max(s)] = Max(s)
      BY <1>7, <2>2, <2>3
    <3>2. it[s] = step[<<Max(s), it[s \ {Max(s)}]>>]
      BY <2>2, <2>3
    <3>3. step[<<Max(s), it[s \ {Max(s)}]>>] = it[s \ {Max(s)}] \o made(Max(s))
      BY <1>6, <3>1
    <3> QED
      BY <3>1, <3>2, <3>3, Zenon
  <2>4. P(it)
    BY <1>2, <2>2, <2>3
  <2> HIDE DEF P
  <2> QED
    BY <2>4
<1>9. P(h)
  <2> HIDE DEF P
  <2> QED
    BY <1>8
<1>10. GoesOn(step, around, V, h)
  <2> HIDE DEF h
  <2>1. \A s \in SUBSET Node :
          h[s] = IF s = {} THEN around ELSE h[s \ {Max(s)}] \o made(N[Max(s)])
    BY <1>2, <1>9
  <2>2. \A s \in SUBSET Node : s = {} => h[s] = around
    BY <2>1
  <2>3. ASSUME NEW s \in SUBSET Node, s # {}, h[s \ {Max(s)}] \in V
        PROVE  h[s] = step[<<Max(s), h[s \ {Max(s)}]>>]
    <3>1. h[s] = h[s \ {Max(s)}] \o made(N[Max(s)])
      BY <2>1, <2>3
    <3>2. Max(s) \in Node /\ N[Max(s)] = Max(s)
      BY <1>7, <2>3
    <3>3. step[<<Max(s), h[s \ {Max(s)}]>>] = h[s \ {Max(s)}] \o made(Max(s))
      BY <1>6, <2>3, <3>2
    <3> QED
      BY <3>1, <3>2, <3>3, Zenon
  <2> QED
    BY <2>2, <2>3 DEF GoesOn
<1> HIDE DEF h, P
<1>11. h[Node] \in V
  BY <1>4, <1>5, <1>10, NodeFoldStays
<1> QED
  BY <1>1, <1>2, <1>11 DEF V

\* What a finder proposes is sound, as far as it asks.
LEMMA CandidatesAreSound ==
  ASSUME WellFormed(graph), NEW fusion \in ToSet(Finders), NEW taken
  PROVE  \E X : /\ Candidates(fusion, taken) \in Seq(X)
                /\ \A S \in X : SoundFor(fusion, S)
<1>1. CASE fusion # "GemmActivation"
  <2> DEFINE X == UNION {MatchAt(fusion, n, taken) : n \in Node}
  <2>1. Candidates(fusion, taken) \in Seq(X)
    BY <1>1, CandidatesAreMade
  <2>2. \A S \in X : \E n \in Node : S \in MatchAt(fusion, n, taken)
    OBVIOUS
  <2> HIDE DEF X
  <2>3. \A S \in X : SoundFor(fusion, S)
    BY <1>1, <2>2, MatchIsSound
  <2> QED
    BY <2>1, <2>3
<1>2. CASE fusion = "GemmActivation"
  <2>1. Candidates(fusion, taken) = GemmActivations(taken)
    BY <1>2, Zenon DEF Candidates
  <2> DEFINE around == GemmsAround(taken)
  <2> DEFINE all == GemmsDirect(taken \cup UNION ToSet(around), around)
  <2>2. GemmActivations(taken) = all
    BY Zenon DEF GemmActivations, GemmsDirect, GemmsAround, AroundAfter
  <2>3. around \in Seq(GemmSets)
    BY GemmsAroundAreMade
  <2> HIDE DEF around
  <2>4. all \in Seq(GemmSets)
    BY <2>3, GemmsDirectAreMade
  <2> HIDE DEF all
  <2>5. \A S \in GemmSets : SoundFor(fusion, S)
    BY Zenon DEF GemmSets, SoundFor
  <2>6. Candidates(fusion, taken) \in Seq(GemmSets)
    BY <2>1, <2>2, <2>4, Zenon
  <2> QED
    BY <2>5, <2>6, Zenon
<1> QED
  BY <1>1, <1>2

-----------------------------------------------------------------------------
\* The selection, step by step.

\* What a graph leads to, of the graph alone.
BelowIn(g, S) ==
  FoldLeftDomain(LAMBDA reached, n :
      IF \E v \in ToSet(g.node[n].ins) :
           (IF v = Missing THEN 0 ELSE g.producer[v]) \in reached
      THEN reached \cup {n} ELSE reached,
    S, g.node)

\* Below is that of the graph there is.
LEMMA BelowIs ==
  ASSUME NEW S
  PROVE  Below(S) = BelowIn(graph, S) /\ Below(S)' = BelowIn(graph', S)
<1>1. Below(S) = BelowIn(graph, S)
  BY Zenon DEF Below, BelowIn, In, Producer
<1>2. Below(S)' = BelowIn(graph', S)
  BY Zenon DEF Below, BelowIn, In, Producer, FoldLeftDomain, FoldLeft, MapThenFoldSet
<1> QED
  BY <1>1, <1>2

\* The sets that one node can stand for.
Replaceable == {S \in SUBSET Node : Sound(S)}

\* They are the same as long as the graph is.
LEMMA SameSound ==
  ASSUME graph' = graph
  PROVE  /\ Node' = Node
         /\ WellFormed(graph)' <=> WellFormed(graph)
         /\ Replaceable' = Replaceable
<1>1. Node' = Node
  BY DEF Node
<1>2. ASSUME NEW S
      PROVE  Successors(S)' = Successors(S)
  BY DEF Successors, Outputs, Out, ReaderNodes, Readers
<1>3. ASSUME NEW S
      PROVE  Below(S)' = Below(S)
  BY BelowIs
<1>4. ASSUME NEW S
      PROVE  Feeding(S)' = Feeding(S)
  BY DEF Feeding, Producer, In
<1>5. ASSUME NEW S
      PROVE  Exits(S)' = Exits(S)
  BY <1>2 DEF Exits
<1>6. ASSUME NEW S
      PROVE  Funnel(S)' <=> Funnel(S)
  BY <1>3, <1>4, <1>5 DEF Funnel
<1>7. ASSUME NEW S
      PROVE  Convex(S)' <=> Convex(S)
  <2>1. PICK T : T = Successors(S) \ S
    OBVIOUS
  <2>2. Successors(S)' \ S = T
    BY <1>2, <2>1
  <2>3. Convex(S)' <=> Below(T)' \cap S = {}
    BY <2>2 DEF Convex, FusionHasNoExternalPathBetweenSelectedNodes
  <2>4. Convex(S) <=> Below(T) \cap S = {}
    BY <2>1 DEF Convex, FusionHasNoExternalPathBetweenSelectedNodes
  <2> QED
    BY <1>3, <2>3, <2>4
<1>8. ASSUME NEW S
      PROVE  Sound(S)' <=> Sound(S)
  BY <1>6, <1>7 DEF Sound
<1>9. Replaceable' = Replaceable
  BY <1>1, <1>8 DEF Replaceable
<1>10. WellFormed(graph)' <=> WellFormed(graph)
  BY DEF WellFormed
<1> QED
  BY <1>1, <1>9, <1>10

\* Candidates of a fusion that are sound when it asks and they are nodes.
FairCandidates(list, fusion, nodes, sets) ==
  /\ \E X : list \in Seq(X)
  /\ \A i \in DOMAIN list :
       fusion \notin Unguarded /\ list[i] \subseteq nodes => list[i] \in sets
\* A match of nodes, sound when its finder asks.
FairMatch(m, nodes, sets) ==
  m.nodes \subseteq nodes /\ (m.finder \notin Unguarded => m.nodes \in sets)
\* A list of such matches.
FairMatches(ms, nodes, sets) ==
  /\ \E X : ms \in Seq(X)
  /\ \A i \in DOMAIN ms : FairMatch(ms[i], nodes, sets)

\* What is proposed is sound as far as its finder asks, and so is what is accepted.
SoundInd ==
  /\ WellFormed(graph)
  /\ FairCandidates(proposed, Considered, Node, Replaceable)
  /\ FairMatches(matches, Node, Replaceable)

\* The finders propose such candidates.
LEMMA CandidatesAreFair ==
  ASSUME WellFormed(graph), NEW fusion \in ToSet(Finders), NEW taken
  PROVE  FairCandidates(Candidates(fusion, taken), fusion, Node, Replaceable)
<1> DEFINE list == Candidates(fusion, taken)
<1>1. PICK X : list \in Seq(X) /\ \A S \in X : SoundFor(fusion, S)
  BY CandidatesAreSound
<1> HIDE DEF list
<1>2. \A i \in DOMAIN list : list[i] \in X
  BY <1>1
<1>3. \A i \in DOMAIN list :
        fusion \notin Unguarded /\ list[i] \subseteq Node => list[i] \in Replaceable
  BY <1>1, <1>2, Zenon DEF SoundFor, Replaceable
<1>4. FairCandidates(list, fusion, Node, Replaceable)
  BY <1>1, <1>3 DEF FairCandidates
<1> QED
  BY <1>4 DEF list

\* The rest of a list is such a list.
LEMMA TailIsFair ==
  ASSUME NEW list, NEW fusion, NEW nodes, NEW sets,
         FairCandidates(list, fusion, nodes, sets), list # <<>>
  PROVE  /\ FairCandidates(Tail(list), fusion, nodes, sets)
         /\ fusion \notin Unguarded /\ Head(list) \subseteq nodes => Head(list) \in sets
<1>1. PICK X : list \in Seq(X)
  BY DEF FairCandidates
<1>2. 1 \in DOMAIN list /\ Head(list) = list[1]
  BY <1>1
<1>3. Tail(list) \in Seq(X)
  BY <1>1
<1>4. \A i \in DOMAIN Tail(list) : i + 1 \in DOMAIN list /\ Tail(list)[i] = list[i + 1]
  BY <1>1
<1> QED
  BY <1>2, <1>3, <1>4 DEF FairCandidates

\* A match added to such matches,
LEMMA AppendIsFair ==
  ASSUME NEW ms, NEW m, NEW nodes, NEW sets,
         FairMatches(ms, nodes, sets), FairMatch(m, nodes, sets)
  PROVE  FairMatches(Append(ms, m), nodes, sets)
<1>1. PICK X : ms \in Seq(X)
  BY DEF FairMatches
<1>2. ms \in Seq(X \cup {m})
  BY <1>1
<1>3. Append(ms, m) \in Seq(X \cup {m})
  BY <1>2
<1>4. \A i \in DOMAIN Append(ms, m) :
        Append(ms, m)[i] = m \/ (i \in DOMAIN ms /\ Append(ms, m)[i] = ms[i])
  BY <1>1
<1> QED
  BY <1>3, <1>4 DEF FairMatches

\* and some of them.
LEMMA EnabledIsFair ==
  ASSUME NEW off, NEW nodes, NEW sets, FairMatches(matches, nodes, sets)
  PROVE  FairMatches(Enabled(off), nodes, sets)
<1>1. PICK X : matches \in Seq(X)
  BY DEF FairMatches
<1>2. PartOf(Enabled(off), matches, Len(matches)) /\ DOMAIN matches = 1..Len(matches)
  BY <1>1, EnabledIsPart
<1> DEFINE gs == Enabled(off)
<1> HIDE DEF gs
<1>3. PartOf(gs, matches, Len(matches))
  BY <1>2 DEF gs
<1>4. FairMatches(gs, nodes, sets)
  BY <1>2, <1>3 DEF PartOf, FairMatches
<1> QED
  BY <1>4 DEF gs

\* No step changes the graph.
LEMMA GraphStays ==
  ASSUME [Next]_vars
  PROVE  graph' = graph
<1> USE DEF environment
<1>1. CASE CallFinder \/ AcceptCandidate \/ SkipCandidate \/ RejectCandidate
  BY <1>1 DEF CallFinder, AcceptCandidate, SkipCandidate, RejectCandidate, TakeCandidate
<1>2. CASE \E disabled \in SUBSET {"ShapeReshape", "TileConcat"} : RegisterFusionMatches(disabled)
  BY <1>2 DEF RegisterFusionMatches
<1>3. CASE CollectSupportedNodeCandidates \/ BeginWalk \/ Walk \/ RegisterSingleNodeCapabilities
  BY <1>3 DEF CollectSupportedNodeCandidates, BeginWalk, Walk, RegisterSingleNodeCapabilities
<1>4. CASE Partition \/ CompileImpl
  BY <1>4 DEF Partition, CompileImpl
<1>5. CASE Finish \/ UNCHANGED vars
  BY <1>5 DEF Finish, vars
<1> QED
  BY <1>1, <1>2, <1>3, <1>4, <1>5, Zenon DEF Next

\* Every step keeps what is proposed and accepted sound.
LEMMA SoundIndStep ==
  ASSUME SoundInd, [Next]_vars
  PROVE  SoundInd'
<1> DEFINE F(list, fusion) == FairCandidates(list, fusion, Node, Replaceable)
<1> DEFINE M(ms) == FairMatches(ms, Node, Replaceable)
<1>1. graph' = graph
  BY GraphStays
<1>2. Node' = Node /\ Replaceable' = Replaceable /\ WellFormed(graph)'
  BY <1>1, SameSound DEF SoundInd
<1>3. F(proposed, Considered) /\ M(matches)
  BY DEF SoundInd
<1>4. SUFFICES F(proposed', Considered') /\ M(matches')
  BY <1>2 DEF SoundInd
<1> HIDE DEF F, M
<1>5. CASE CallFinder
  <2>1. /\ finder \in DOMAIN Finders /\ proposed' = Candidates(Finders[finder], accepted_node_ids)
        /\ finder' = finder + 1 /\ matches' = matches
    BY <1>5 DEF CallFinder
  <2>2. Considered' = Finders[finder]
    <3>1. finder \in Nat
      BY <2>1 DEF Finders
    <3>2. finder' - 1 = finder
      BY <2>1, <3>1
    <3> QED
      BY <3>2 DEF Considered
  <2>3. Finders[finder] \in ToSet(Finders)
    BY <2>1 DEF ToSet
  <2>4. F(Candidates(Finders[finder], accepted_node_ids), Finders[finder])
    BY <2>3, CandidatesAreFair DEF SoundInd, F
  <2> QED
    BY <1>3, <2>1, <2>2, <2>4
<1>6. CASE AcceptCandidate \/ SkipCandidate \/ RejectCandidate
  <2>1. proposed # <<>> /\ proposed' = Tail(proposed) /\ finder' = finder
    BY <1>6 DEF AcceptCandidate, SkipCandidate, RejectCandidate, TakeCandidate
  <2>2. Considered' = Considered
    BY <2>1 DEF Considered
  <2>3. F(Tail(proposed), Considered)
        /\ (Considered \notin Unguarded /\ Head(proposed) \subseteq Node => Head(proposed) \in Replaceable)
    BY <1>3, <2>1, TailIsFair DEF F
  <2>4. F(proposed', Considered')
    BY <2>1, <2>2, <2>3
  <2>5. CASE SkipCandidate \/ RejectCandidate
    <3>1. matches' = matches
      BY <2>5 DEF SkipCandidate, RejectCandidate
    <3> QED
      BY <1>3, <2>4, <3>1
  <2>6. CASE AcceptCandidate
    <3> DEFINE m == [finder |-> Considered, nodes |-> Head(proposed)]
    <3>1. matches' = Append(matches, m) /\ Head(proposed) \subseteq Node
      BY <2>6 DEF AcceptCandidate, NormalizeCandidate
    <3>2. FairMatch(m, Node, Replaceable)
      BY <2>3, <3>1 DEF FairMatch
    <3> HIDE DEF m
    <3>3. M(Append(matches, m))
      BY <1>3, <3>2, AppendIsFair DEF M
    <3> QED
      BY <2>4, <3>1, <3>3
  <2> QED
    BY <1>6, <2>5, <2>6
<1>7. CASE \E disabled \in SUBSET {"ShapeReshape", "TileConcat"} : RegisterFusionMatches(disabled)
  <2>1. PICK off \in SUBSET {"ShapeReshape", "TileConcat"} : RegisterFusionMatches(off)
    BY <1>7
  <2>2. matches' = Enabled(off) /\ proposed' = proposed /\ finder' = finder
    BY <2>1 DEF RegisterFusionMatches
  <2>3. M(Enabled(off))
    BY <1>3, EnabledIsFair DEF M
  <2>4. Considered' = Considered
    BY <2>2 DEF Considered
  <2> QED
    BY <1>3, <2>2, <2>3, <2>4
<1>8. ASSUME UNCHANGED selectVars
      PROVE  F(proposed', Considered') /\ M(matches')
  <2>1. proposed' = proposed /\ matches' = matches /\ finder' = finder
    BY <1>8 DEF selectVars
  <2>2. Considered' = Considered
    BY <2>1 DEF Considered
  <2> QED
    BY <1>3, <2>1, <2>2
<1>9. CASE CollectSupportedNodeCandidates \/ BeginWalk \/ Walk \/ RegisterSingleNodeCapabilities
  <2>1. UNCHANGED selectVars
    BY <1>9 DEF CollectSupportedNodeCandidates, BeginWalk, Walk, RegisterSingleNodeCapabilities
  <2> QED
    BY <1>8, <2>1
<1>10. CASE Partition \/ CompileImpl
  <2>1. UNCHANGED selectVars
    BY <1>10 DEF Partition, CompileImpl
  <2> QED
    BY <1>8, <2>1
<1>11. CASE Finish \/ UNCHANGED vars
  <2>1. UNCHANGED selectVars
    BY <1>11 DEF Finish, vars
  <2> QED
    BY <1>8, <2>1
<1> QED
  BY <1>5, <1>6, <1>7, <1>9, <1>10, <1>11, Zenon DEF Next

-----------------------------------------------------------------------------
\* The partition of a graph that ONNX Runtime has checked.

\* A call on a graph that is well formed.
OrderedCallSpec ==
  /\ \E g, eps, unsupported : \E disableAll \in BOOLEAN :
       WellFormed(g) /\ Start(g, eps, unsupported, disableAll)
  /\ [][Next]_vars

\* A node by itself is a funnel.
LEMMA OneIsFunnel ==
  ASSUME WellFormed(graph), NEW n \in Node
  PROVE  Funnel({n})
<1>1. \A m \in {n} \ {n} : PassesOn(m, {n})
  OBVIOUS
<1>2. n \in {n} /\ {n} \subseteq Node
  OBVIOUS
<1> QED
  BY <1>1, <1>2, SinkIsFunnel

\* Sound matches and the nodes left over are disjoint groups that one node each
\* can stand for, the open ones among the matches.
LEMMA MatchesGroup ==
  ASSUME ClaimInd, SoundInd, \A i \in DOMAIN matches : matches[i].finder \notin Unguarded
  PROVE  /\ Grouping(Groups)
         /\ {g \in Groups : Open(g)} \subseteq
              {matches[i].nodes : i \in {j \in DOMAIN matches : Open(matches[j].nodes)}}
<1> DEFINE Ms == {matches[i].nodes : i \in DOMAIN matches}
<1> DEFINE Os == {{n} : n \in Node \ Fused}
<1>1. Groups = Ms \cup Os
  BY DEF Groups
<1>2. WellFormed(graph)
  BY DEF SoundInd
<1>3. \A i \in DOMAIN matches : matches[i].nodes \subseteq Node /\ Sound(matches[i].nodes)
  BY DEF SoundInd, FairMatches, FairMatch, Replaceable
<1>4. \A i, j \in DOMAIN matches : i # j => matches[i].nodes \cap matches[j].nodes = {}
  BY DEF ClaimInd, Claims
<1>5. \A i \in DOMAIN matches : matches[i].nodes \subseteq Fused
  BY DEF Fused
<1>6. \A g \in Ms : g \subseteq Node /\ (Funnel(g) \/ Convex(g)) /\ g \subseteq Fused
  BY <1>3, <1>5 DEF Sound
<1>7. \A g \in Os : g \subseteq Node /\ Funnel(g) /\ g \cap Fused = {}
  BY <1>2, OneIsFunnel
<1>8. \A g, h \in Ms : g # h => g \cap h = {}
  BY <1>4
<1>9. \A g, h \in Os : g # h => g \cap h = {}
  OBVIOUS
<1>10. {g \in Ms : Open(g)} \subseteq
         {matches[i].nodes : i \in {j \in DOMAIN matches : Open(matches[j].nodes)}}
  OBVIOUS
<1> HIDE DEF Ms, Os
<1>11. \A g \in Ms, h \in Os : g \cap h = {}
  BY <1>6, <1>7
<1>12. \A g, h \in Groups : g # h => g \cap h = {}
  BY <1>1, <1>8, <1>9, <1>11
<1>13. Grouping(Groups)
  BY <1>1, <1>6, <1>7, <1>12 DEF Grouping
<1>14. {g \in Groups : Open(g)} \subseteq {g \in Ms : Open(g)}
  BY <1>1, <1>7 DEF Open
<1> QED
  BY <1>10, <1>13, <1>14

\* The graph of the groups can be run.
LEMMA SoundGroupsAreAcyclic ==
  ASSUME ClaimInd, SoundInd
  PROVE  GuardedPartitionIsAcyclic
<1> SUFFICES ASSUME \A i \in DOMAIN matches : matches[i].finder \notin Unguarded, ~Tangled
             PROVE  Stuck = {}
  BY DEF GuardedPartitionIsAcyclic
<1> DEFINE open == {matches[i].nodes : i \in {j \in DOMAIN matches : Open(matches[j].nodes)}}
<1>1. Grouping(Groups) /\ {g \in Groups : Open(g)} \subseteq open
  BY MatchesGroup
<1>2. \A C \in SUBSET open : C # {} => \E T \in C : \A S \in C \ {T} : ~Reaches(S, T)
  BY DEF Tangled
<1> HIDE DEF open
<1>3. \A C \in SUBSET {g \in Groups : Open(g)} :
         C # {} => \E T \in C : \A S \in C \ {T} : ~Reaches(S, T)
  BY <1>1, <1>2
<1>4. WellFormed(graph)
  BY DEF SoundInd
<1> QED
  BY <1>1, <1>3, <1>4, NothingIsStuck

\* In any graph that ONNX Runtime has checked, whatever is assigned and without a
\* kernel: when ShapeReshape and TargetIdCountEmbedding accepted nothing and no
\* accepted sets lead to each other, ONNX Runtime can replace every accepted set by
\* one node.  Each of the other thirty-four finders proposes only funnels, or sets
\* whose outside paths FusionHasNoExternalPathBetweenSelectedNodes looked for.
THEOREM GuardedPartitionIsAlwaysAcyclic == OrderedCallSpec => []GuardedPartitionIsAcyclic
<1>1. ASSUME \E g, eps, unsupported : \E disableAll \in BOOLEAN :
               WellFormed(g) /\ Start(g, eps, unsupported, disableAll)
      PROVE  ClaimInd /\ SoundInd
  <2>1. /\ WellFormed(graph)
        /\ phase \in {"find", "collect"} /\ proposed = <<>> /\ accepted_node_ids = {}
        /\ matches = <<>> /\ provider = {} /\ single = {} /\ cpu_nodes = {}
    BY <1>1 DEF Start, WalkInit
  <2>2. matches \in Seq({}) /\ proposed \in Seq({}) /\ DOMAIN proposed = {} /\ DOMAIN matches = {}
    BY <2>1
  <2>3. ClaimInd
    BY <2>1, <2>2 DEF ClaimInd, Claims
  <2>4. SoundInd
    BY <2>1, <2>2 DEF SoundInd, FairCandidates, FairMatches
  <2> QED
    BY <2>3, <2>4
<1>2. ClaimInd /\ SoundInd /\ [Next]_vars => (ClaimInd /\ SoundInd)'
  BY ClaimIndStep, SoundIndStep
<1>3. ClaimInd /\ SoundInd => GuardedPartitionIsAcyclic
  BY SoundGroupsAreAcyclic
<1> QED
  BY <1>1, <1>2, <1>3, PTL DEF OrderedCallSpec

=============================================================================
