------------------------------ MODULE Capability ------------------------------
(***************************************************************************)
(* From the operator graph to compiled fusions: MusaEp::GetCapabilityImpl  *)
(* (ep.cc), the selection of fusions by FindFusionMatches                  *)
(* (fusion_matcher.cc), the placement of shape subgraphs (CpuPreferred)    *)
(* and MusaEp::CompileImpl (fusion_node_compute.cc).                       *)
(*                                                                         *)
(* Thirty-six finders propose sets of nodes, in a fixed order; a set is    *)
(* accepted unless it shares a node with an accepted one or has element    *)
(* types its fusion does not compute with.  What is not fused and has a    *)
(* kernel is claimed node by node, except for what stays on the CPU.       *)
(* ONNX Runtime then hands every accepted set back as a graph of its own,  *)
(* and CompileImpl has to recognize it again (FusionCompile).              *)
(***************************************************************************)
EXTENDS CpuPreferred, FusionMatchers

VARIABLES
  noKernel,   \* the nodes for which the registry has no kernel
  phase,      \* the step GetCapability, and after it Compile, has come to
  finder,     \* the index of the next finder
  proposed,   \* the candidates of the last finder still to be looked at
  accepted_node_ids,
  matches,    \* the accepted fusions, in order: [finder, nodes]
  single,     \* the nodes registered one by one
  part,       \* the graph of the match that is being compiled
  fusion_computes  \* for each match compiled so far, what was created for it

selectVars == <<finder, proposed, accepted_node_ids, matches>>
compileVars == <<part, fusion_computes>>
environment == <<graph, epOf, noKernel>>
vars == <<environment, phase, selectVars, provider, walkVars, single, compileVars>>

CompileOf == INSTANCE FusionCompile WITH graph <- part

-----------------------------------------------------------------------------
\* Selection.

\* The next finder proposes its candidates.
CallFinder ==
  /\ phase = "find" /\ proposed = <<>> /\ finder \in DOMAIN Finders
  /\ proposed' = Candidates(Finders[finder], accepted_node_ids)
  /\ finder' = finder + 1
  /\ UNCHANGED <<environment, phase, accepted_node_ids, matches, provider, walkVars, single,
                 compileVars>>

\* AcceptFusionCandidates, for one candidate.
Considered == Finders[finder - 1]           \* the fusion the candidates are of
(* Mutant: the nodes taken so far are not looked at.                       *)
NeverOverlaps(S) == S = {}
CandidateOverlapsAccepted(S) == S \cap accepted_node_ids # {}
NormalizeCandidate(S) == S # {} /\ S \subseteq Node

TakeCandidate ==
  /\ proposed # <<>> /\ proposed' = Tail(proposed)
  /\ UNCHANGED <<environment, phase, finder, provider, walkVars, single, compileVars>>
SkipCandidate ==
  /\ TakeCandidate
  /\ ~NormalizeCandidate(Head(proposed)) \/ CandidateOverlapsAccepted(Head(proposed))
  /\ UNCHANGED <<accepted_node_ids, matches>>
RejectCandidate ==
  /\ TakeCandidate
  /\ NormalizeCandidate(Head(proposed)) /\ ~CandidateOverlapsAccepted(Head(proposed))
  /\ ~CandidateSatisfiesDTypeContract(Head(proposed), Considered)
  /\ UNCHANGED <<accepted_node_ids, matches>>
AcceptCandidate ==
  /\ TakeCandidate
  /\ NormalizeCandidate(Head(proposed)) /\ ~CandidateOverlapsAccepted(Head(proposed))
  /\ CandidateSatisfiesDTypeContract(Head(proposed), Considered)
  /\ accepted_node_ids' = accepted_node_ids \cup Head(proposed)
  /\ matches' = Append(matches, [finder |-> Considered, nodes |-> Head(proposed)])

\* What erasing the matches of disabled fusions leaves of the first i, in order.
Enabled(disabled) ==
  LET kept[i \in 0..Len(matches)] ==
        IF i = 0 THEN <<>>
        ELSE IF matches[i].finder \in disabled THEN kept[i - 1]
        ELSE Append(kept[i - 1], matches[i])
  IN  kept[Len(matches)]

\* The switches are read when selection is over; accepted matches of a
\* disabled fusion are erased, the rest is registered.
RegisterFusionMatches(disabled) ==
  /\ phase = "find" /\ proposed = <<>> /\ finder = Len(Finders) + 1
  /\ matches' = Enabled(disabled)
  /\ phase' = "collect"
  /\ UNCHANGED <<environment, finder, proposed, accepted_node_ids, provider, walkVars, single,
                 compileVars>>

-----------------------------------------------------------------------------
\* Single nodes.
Fused == UNION {matches[i].nodes : i \in DOMAIN matches}

\* The configurations a kernel does not implement; of the operators of the
\* model only Slice has any.
IsNodeConfigurationSupported(n) ==
  IsOp(n, "Slice") /\ Len(In(n)) > 4 /\ In(n)[5] # Missing =>
    \A steps \in IntInitializer(In(n)[5]) : \A i \in DOMAIN steps : steps[i] > 0

CollectSupportedNodeCandidates ==
  /\ phase = "collect"
  /\ provider' = {n \in Node \ Fused :
       \/ epOf[n] = "MUSAExecutionProvider"
       \/ epOf[n] = "" /\ n \notin noKernel /\ IsNodeConfigurationSupported(n)}
  /\ phase' = IF provider' = {} THEN "register" ELSE "seed"
  /\ UNCHANGED <<environment, selectVars, walkVars, single, compileVars>>

\* A kernel is looked up again for each of them; a node that was assigned to
\* this provider but has none fails the whole pass.
BeginWalk ==
  /\ phase = "seed"
  /\ IF provider \cap noKernel # {}
     THEN phase' = "failed" /\ UNCHANGED walkVars
     ELSE phase' = "walk" /\ SeedCandidates
  /\ UNCHANGED <<environment, selectVars, provider, single, compileVars>>
Walk ==
  /\ phase = "walk" /\ VisitCandidate
  /\ UNCHANGED <<environment, phase, selectVars, provider, single, compileVars>>
RegisterSingleNodeCapabilities ==
  /\ phase = "register" \/ (phase = "walk" /\ candidates = {})
  /\ single' = provider \ cpu_nodes
  /\ phase' = "partition"
  /\ UNCHANGED <<environment, selectVars, provider, walkVars, compileVars>>

-----------------------------------------------------------------------------
\* Compilation.

\* ONNX Runtime hands over the graph of the next match.
Partition ==
  /\ phase = "partition" /\ Len(fusion_computes) < Len(matches)
  /\ part' = SubgraphOf(matches[Len(fusion_computes) + 1].nodes)
  /\ phase' = "compile"
  /\ UNCHANGED <<environment, selectVars, provider, walkVars, single, fusion_computes>>

\* One turn of CompileImpl: the entry is made first, and stays empty when no
\* detector takes the graph and the call fails.
CompileImpl ==
  /\ phase = "compile"
  /\ \E fusion \in {CompileOf!Compiled} :
       /\ fusion_computes' = Append(fusion_computes, fusion)
       /\ phase' = IF fusion = "none" THEN "failed" ELSE "partition"
  /\ UNCHANGED <<environment, selectVars, provider, walkVars, single, part>>

Finished == \/ phase = "failed"
            \/ phase = "partition" /\ Len(fusion_computes) = Len(matches)
Finish == Finished /\ UNCHANGED vars

Next ==
  \/ CallFinder \/ AcceptCandidate \/ SkipCandidate \/ RejectCandidate
  \/ \E disabled \in SUBSET {"ShapeReshape", "TileConcat"} : RegisterFusionMatches(disabled)
  \/ CollectSupportedNodeCandidates \/ BeginWalk \/ Walk \/ RegisterSingleNodeCapabilities
  \/ Partition \/ CompileImpl \/ Finish

\* What else ONNX Runtime has made sure of before it calls: every node writes
\* something, a value is written once and never by a node when it is constant, and
\* the operators have the inputs and outputs that their schemas say.
IsList(s) == Len(s) \in Nat /\ DOMAIN s = 1..Len(s)
MatchesSchema(node) ==
  /\ IsList(node.ins) /\ IsList(node.outs) /\ ToSet(node.outs) \ {Missing} # {}
  /\ node.op \in {"Slice", "Shape", "ConstantOfShape"} => Len(node.outs) = 1
  /\ node.op = "Split" => Missing \notin ToSet(node.outs)
  /\ node.op \in {"ReduceProd", "ReduceMean"} => Len(node.ins) <= 2
  /\ node.op = "Relu" => Len(node.ins) = 1
WellFormed(g) ==
  /\ InOrder(g) /\ IsList(g.node) /\ g = Indexed(g.node, g.info, g.outputs)
  /\ \A n \in DOMAIN g.node : MatchesSchema(g.node[n])
  /\ \A m, n \in DOMAIN g.node : m # n =>
       ToSet(g.node[m].outs) \cap ToSet(g.node[n].outs) \subseteq {Missing}
  /\ \A n \in DOMAIN g.node : \A v \in ToSet(g.node[n].outs) \ {Missing} : ~g.info[v].const

\* A call on a graph; matching is skipped when all fusions are disabled.
Start(g, eps, unsupported, disableAll) ==
  /\ graph = g /\ epOf = eps /\ noKernel = unsupported
  /\ phase = (IF disableAll THEN "collect" ELSE "find")
  /\ finder = 1 /\ proposed = <<>> /\ accepted_node_ids = {} /\ matches = <<>>
  /\ provider = {} /\ single = {} /\ WalkInit
  /\ part = Indexed(<<>>, <<>>, {}) /\ fusion_computes = <<>>

-----------------------------------------------------------------------------
\* Properties.

\* Every node is claimed once: the accepted sets are disjoint and not empty,
\* erased ones included in what later finders may not take, and a node that is
\* registered by itself is in no fused node and does not stay on the CPU.
ClaimedOnce ==
  /\ \A i \in DOMAIN matches :
       matches[i].nodes # {} /\ matches[i].nodes \subseteq accepted_node_ids
  /\ \A i, j \in DOMAIN matches : i # j => matches[i].nodes \cap matches[j].nodes = {}
  /\ single \cap (Fused \cup cpu_nodes) = {} /\ cpu_nodes \subseteq provider
  /\ phase \notin {"find", "collect"} => provider \cap Fused = {}

\* ONNX Runtime replaces every accepted set by one node.  Waits(g, h): h reads what
\* g writes.  Groups that wait for no one run first; those left in the end are stuck.
Groups == {matches[i].nodes : i \in DOMAIN matches} \cup {{n} : n \in Node \ Fused}
Waits(g, h) == g # h /\ \E n \in g : \E v \in Outputs(n) : ReaderNodes(v) \cap h # {}
Stuck ==
  FoldLeft(LAMBDA left, k : {h \in left : \E g \in left : Waits(g, h)},
           Groups, [k \in 1..Cardinality(Groups) |-> k])
Partitioned == phase = "partition" /\ fusion_computes = <<>>

\* The graph that results has an order to run in: no fused node waits, through
\* others, for its own results.
PartitionIsAcyclic == Partitioned => Stuck = {}

\* What a group reads from outside comes in at every node of a funnel before all
\* of what it hands out, so one node can replace it wherever it stands.  A group
\* that is open hands out something that does not need all of what it reads.
Feeding(S) ==
  {Producer(v) : v \in (UNION {ToSet(In(n)) : n \in S}) \ {Missing}} \ (S \cup {0})
Exits(S) == {n \in S : Successors({n}) \ S # {}}
Funnel(S) == \A p \in Feeding(S) : Exits(S) \subseteq Below({p})
Open(S) == ~Funnel(S)

\* FusionHasNoExternalPathBetweenSelectedNodes looks at one set of nodes.  Open
\* sets that each pass it can still lead to each other.
Reaches(S, T) == Below(Successors(S) \ S) \cap T # {}
Tangled ==
  LET open == {matches[i].nodes : i \in {j \in DOMAIN matches : Open(matches[j].nodes)}}
  IN  \E C \in SUBSET open : C # {} /\ \A T \in C : \E S \in C \ {T} : Reaches(S, T)

\* The matchers that check no outside path and can make open sets.
Unguarded == {"ShapeReshape", "TargetIdCountEmbedding"}

\* PartitionIsAcyclic for every graph in which these two matchers accepted nothing
\* and no accepted sets lead to each other: every other matcher looks for an outside
\* path or makes funnels.
GuardedPartitionIsAcyclic ==
  Partitioned /\ (\A i \in DOMAIN matches : matches[i].finder \notin Unguarded) /\ ~Tangled
    => Stuck = {}

\* The fusions whose matchers accept what no detector does.
Stricter == {"SliceConcat", "SegmentMaxBroadcast", "TargetIdCountEmbedding"}

\* CompileImpl never takes a fused node for another fusion, though its chain
\* asks in another order than the finders and most detectors count operators;
\* and it recognizes every one, but for the three matchers above.
NeverMistaken ==
  \A i \in DOMAIN fusion_computes :
    \/ fusion_computes[i] = matches[i].finder
    \/ fusion_computes[i] = "none" /\ matches[i].finder \in Stricter

\* The walk ends with nothing left to place, whatever order the inputs of a
\* node became known in: a node stays on the CPU only when all it reads is in
\* host memory, and then it does if a host result or such a node leads to it.
PlacementIsClosed ==
  phase \in {"partition", "compile"} =>
    \A n \in provider :
      LET fits == n \in cpu_preferred_downstream /\ PlaceInCpu(n, cpu_output_args)
          reached == \E v \in ToSet(In(n)) : v \in HostResults \/ Producer(v) \in cpu_nodes
      IN  /\ n \in cpu_nodes => fits
          /\ fits /\ reached => n \in cpu_nodes

=============================================================================
