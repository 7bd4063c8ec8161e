---------------------------- MODULE CpuPreferred ----------------------------
(***************************************************************************)
(* Which of the nodes this execution provider could run stay on the CPU    *)
(* (graph/cpu_preferred_nodes.cc).  Kernels such as Shape leave their      *)
(* result in host memory; a chain of small integer operators behind them is*)
(* cheaper on the CPU than a copy to the device and back.  GetCpuPreferred-*)
(* Nodes walks the graph down from those results.                          *)
(*                                                                         *)
(* The walk is the actions SeedCandidates and VisitCandidate; what it      *)
(* decides with is state the capability pass (Capability) has computed.    *)
(***************************************************************************)
EXTENDS FusionGraph

VARIABLES
  provider,      \* provider_nodes: the nodes with a kernel that are not fused
  epOf,          \* node -> the execution provider it is assigned to, "" if none
  candidates,    \* the priority queue of nodes to visit, a set
  visited,
  cpu_preferred_downstream, \* what CanCpuPreferMetadataSubgraph says, cached
  cpu_output_args, \* the values known to be in host memory
  cpu_nodes        \* the nodes that are to run on the CPU

walkVars == <<candidates, visited, cpu_preferred_downstream, cpu_output_args, cpu_nodes>>
Providers == {"", "CPUExecutionProvider", "MUSAExecutionProvider"}

\* The inputs, by position, and the outputs that the kernels of an operator
\* register in host memory.
HostInputs(op) ==
  CASE op \in {"Reshape", "Unsqueeze", "Squeeze", "Expand", "Tile", "Split", "TopK",
               "ReduceProd", "ReduceSum", "ReduceMax", "ReduceMean", "ReduceL2",
               "ReduceSumSquare"} -> {2}
    [] op = "ConstantOfShape" -> {1}
    [] op \in {"Pad", "Resize"} -> {2, 3, 4}
    [] op = "OneHot" -> {2, 3}
    [] OTHER -> {}
HostOutputs(op) == IF op = "Shape" THEN {1} ELSE {}

\* How ONNX Runtime hands the graph over: nodes come after those whose results
\* they read, and the consumers and producers of values agree with the nodes.
InOrder(g) ==
  /\ DOMAIN g.node \subseteq Nat \ {0}
  /\ \A n \in DOMAIN g.node :
       /\ HostOutputs(g.node[n].op) \subseteq DOMAIN g.node[n].outs
       /\ \A v \in ToSet(g.node[n].ins) \ {Missing} : \E r \in g.readers[v] : r[1] = n
       /\ \A v \in ToSet(g.node[n].outs) \ {Missing} :
            \A r \in g.readers[v] : r[1] \in DOMAIN g.node /\ r[1] > n
       /\ \A v \in ToSet(g.node[n].ins) \ {Missing} :
            LET m == g.producer[v] IN m \in DOMAIN g.node => v \in ToSet(g.node[m].outs)

GetOutputNodes(n) == UNION {ReaderNodes(v) : v \in Outputs(n)}
\* A node nobody claims, or the CPU provider does.
LeftToCpu(n) == n \notin provider /\ epOf[n] \in {"", "CPUExecutionProvider"}

IsIntegerMetadataType(v) == DType(v) \in {"int32", "int64"}
IsCpuPreferredMetadataType(v) == DType(v) \in {"int32", "int64", "bool"}
IsCpuPreferredMetadataOp(n) ==
  \/ CastTo(n, "int32") \/ CastTo(n, "int64")
  \/ IsOp(n, "ConstantOfShape") /\ Len(Out(n)) = 1 /\ IsIntegerMetadataType(Out(n)[1])
  \/ Op(n) \in {"Gather", "Concat", "Equal", "Where", "Reshape", "Slice", "Split",
                "Squeeze", "Unsqueeze", "Add", "Sub", "Mul", "Div", "Max", "Min",
                "ReduceProd", "ReduceMax"}
HasOnlyCpuPreferredMetadataOutputs(n) ==
  Out(n) # <<>> /\ \A v \in ToSet(Out(n)) : v # Missing /\ IsCpuPreferredMetadataType(v)

\* Whether every consumer can take a result that stays in host memory, given
\* which nodes below can stay on the CPU themselves.
CanKeepCpuPreferredOutputs(n, preferred) ==
  \A v \in Outputs(n) : \A reader \in Readers(v) :
    /\ ~(IsOp(n, "ConstantOfShape") /\ IsOp(reader[1], "Gather"))
    /\ \/ reader[1] \notin provider
       \/ reader[2] \in HostInputs(Op(reader[1]))
       \/ reader[1] \in preferred

\* The nodes CanCpuPreferMetadataSubgraph is true of.  Its recursion goes to
\* the consumers, which come later in topological order.
CanCpuPrefer ==
  FoldRightDomain(LAMBDA n, preferred :
      IF /\ IsCpuPreferredMetadataOp(n) /\ HasOnlyCpuPreferredMetadataOutputs(n)
         /\ CanKeepCpuPreferredOutputs(n, preferred)
      THEN preferred \cup {n} ELSE preferred,
    graph.node, {})

IsSmallInitializer(v) ==
  IsConst(v) /\ Len(graph.info[v].data) <= kSmallInitializerThreshold

\* The test of one visited node against what is known to be in host memory.
PlaceInCpu(n, hostValues) ==
  LET inputs == {i \in DOMAIN In(n) : In(n)[i] # Missing}
      computed == {i \in inputs : ~IsSmallInitializer(In(n)[i])}
  IN  /\ \A i \in inputs : IsCpuPreferredMetadataType(In(n)[i])
      /\ computed # {}
      /\ \A i \in computed : In(n)[i] \in hostValues /\ i \notin HostInputs(Op(n))

-----------------------------------------------------------------------------
WalkInit ==
  /\ candidates = {} /\ visited = {} /\ cpu_output_args = {} /\ cpu_nodes = {}
  /\ cpu_preferred_downstream = {}

\* Before the walk: the host results of this provider's kernels, whose
\* consumers are visited, and the results of every node that is left to the
\* CPU.  The cache is filled on demand, with what does not depend on the walk.
HostResults == (UNION {{Out(n)[i] : i \in HostOutputs(Op(n))} : n \in provider}) \ {Missing}
SeedCandidates ==
  /\ candidates' = UNION {ReaderNodes(v) : v \in HostResults}
  /\ cpu_output_args' =
       HostResults \cup UNION {Outputs(n) : n \in {m \in Node : LeftToCpu(m)}}
  /\ cpu_preferred_downstream' = CanCpuPrefer
  /\ UNCHANGED <<visited, cpu_nodes>>

\* One turn of the loop, at the first candidate in graph order.
(* Mutant: the queue is ordered the other way round.                       *)
LastCandidate == Max(candidates)
FirstCandidate == Min(candidates)
VisitCandidate ==
  LET n == FirstCandidate
      spread == LeftToCpu(n) \/ (n \in provider /\ n \in cpu_preferred_downstream
                                 /\ PlaceInCpu(n, cpu_output_args))
      goesOn == n \notin visited /\ spread
  IN  /\ candidates # {}
      /\ visited' = visited \cup {n}
      /\ candidates' = (candidates \ {n}) \cup IF goesOn THEN GetOutputNodes(n) ELSE {}
      /\ cpu_output_args' = cpu_output_args \cup IF goesOn THEN Outputs(n) ELSE {}
      /\ cpu_nodes' = cpu_nodes \cup IF goesOn /\ n \in provider THEN {n} ELSE {}
      /\ UNCHANGED cpu_preferred_downstream
=============================================================================
