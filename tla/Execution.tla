------------------------------ MODULE Execution ------------------------------
(***************************************************************************)
(* A fused node computes what its nodes compute: the graph is run node by  *)
(* node by the kernels of the provider, the matcher of a fusion is asked   *)
(* for its first candidate, and what the fusion computes from the inputs   *)
(* of that part is compared with what the nodes left.                      *)
(*                                                                         *)
(* The matcher sees types and shapes as ONNX Runtime's shape inference     *)
(* gives them, which may be all of the run's, fewer, or none.              *)
(***************************************************************************)
EXTENDS FusionMatchers, ShapeExpr

VARIABLES
  fusion,  \* the fusion that is tried
  phase,   \* what is done next, or how it ended
  at,      \* the next node to run
  tensor,  \* the tensors of the inputs, the initializers and the nodes run so far
  part,    \* the graph of the candidate, as CompileImpl gets it
  fused    \* what the fused node has computed
vars == <<graph, fusion, phase, at, tensor, part, fused>>

Parts == INSTANCE FusedNode WITH graph <- part

\* One node runs.  An error ends the run.
Given0(n) == [i \in DOMAIN In(n) |-> IF In(n)[i] = Missing THEN Absent ELSE tensor[In(n)[i]]]
RunNode ==
  /\ phase = "run" /\ at \in Node
  /\ \E outputs \in {Kernel(graph.node[at], Given0(at))} :
       IF outputs = {} THEN phase' = "failed" /\ UNCHANGED <<at, tensor>>
       ELSE /\ tensor' = tensor @@ [v \in Outputs(at) |->
                 LET y == CHOOSE y \in outputs : TRUE
                 IN  y[CHOOSE i \in DOMAIN Out(at) : Out(at)[i] = v]]
            /\ at' = at + 1 /\ UNCHANGED phase
  /\ UNCHANGED <<graph, fusion, part, fused>>

\* What the matcher is told of the values: their types, and of their shapes all
\* dimensions, those behind the first, only the rank, or nothing.
Told(knowledge, t) ==
  [dtype |-> t.dtype, ranked |-> knowledge # "unranked", const |-> FALSE, data |-> <<>>,
   dims |-> CASE knowledge = "all" -> t.dims
              [] knowledge = "trailing" -> [i \in DOMAIN t.dims |-> IF i = 1 THEN -1 ELSE t.dims[i]]
              [] knowledge = "rank" -> [i \in DOMAIN t.dims |-> -1]
              [] knowledge = "unranked" -> <<>>]
InferShapes(knowledge) ==
  /\ phase = "run" /\ at \notin Node
  /\ graph' = [graph EXCEPT !.info = [v \in DOMAIN @ |->
       IF v = Missing \/ @[v].const THEN @[v] ELSE Told(knowledge, tensor[v])]]
  /\ phase' = "match"
  /\ UNCHANGED <<fusion, at, tensor, part, fused>>

Match ==
  /\ phase = "match"
  /\ \E found \in {SelectSeq(Candidates(fusion, {}),
                             LAMBDA S : CandidateSatisfiesDTypeContract(S, fusion))} :
       IF found = <<>> THEN phase' = "unmatched" /\ UNCHANGED part
       ELSE phase' = "compute" /\ part' = SubgraphOf(Head(found))
  /\ UNCHANGED <<graph, fusion, at, tensor, fused>>

\* The inputs of the part, and the repeats the matcher has found expressions for.
Val == [v \in {u \in DOMAIN part.producer \ {Missing} : part.producer[u] = 0} |-> tensor[v]]
Hints ==
  LET repeats == {part.node[n].ins[2] : n \in {m \in DOMAIN part.node : part.node[m].op = "Tile"}}
      evaluated(values) == [v \in repeats \cap DOMAIN values |-> EvaluateShapeExpr(v, values)]
  IN  evaluated(ShapeValues([v \in {u \in DOMAIN Val : ~IsConst(u)} |-> tensor[v].dims]))
Compute ==
  /\ phase = "compute"
  /\ fused' = Parts!ComputeOf(fusion, Val, Hints)
  /\ phase' = "done"
  /\ UNCHANGED <<graph, fusion, at, tensor, part>>

Ended == phase \in {"failed", "unmatched", "done"} /\ UNCHANGED vars

Next == RunNode \/ (\E k \in {"all", "trailing", "rank", "unranked"} : InferShapes(k))
        \/ Match \/ Compute \/ Ended
Start(g, f, feed) ==
  /\ graph = g /\ fusion = f /\ phase = "run" /\ at = 1 /\ tensor = feed
  /\ part = Indexed(<<>>, <<>>, {}) /\ fused = {}

-----------------------------------------------------------------------------
\* Properties.
Agrees == \A f \in fused : \A v \in part.outputs : v \in DOMAIN f /\ f[v] = tensor[v]
ShapesAreKnown ==
  \A v \in DOMAIN part.info \ {Missing} :
    part.info[v].ranked /\ \A d \in ToSet(part.info[v].dims) : d >= 0
NothingIsEmpty == \A v \in DOMAIN tensor : 0 \notin ToSet(tensor[v].dims)

\* When a fused node succeeds, everything that leaves it is, in type, shape and
\* elements, what its nodes would have left: the matcher, the factory and Compute
\* agree on what is fused, for inputs that are as FusedNode says.
FusedAgrees == phase = "done" => (Parts!Premise(fusion, tensor) => Agrees)

\* A fused node does not fail where its nodes succeed: what a matcher accepts, the
\* factory can create and Compute can run, when the shapes were known to the
\* matcher, nothing is empty, and inputs are as FusedNode says.
FusedComputes ==
  phase = "done" =>
    (fused = {} => ~(ShapesAreKnown /\ NothingIsEmpty /\ Parts!Premise(fusion, tensor)))

\* musa/docs/fusion_development.md: GetCapability fuses only "subgraphs that can
\* be fused safely" (line 19).  A fused node never computes something else than
\* its nodes, whatever the inputs are.
AcceptedIsSafe == phase = "done" => Agrees
=============================================================================
