----------------------------- MODULE FusedParts -----------------------------
(***************************************************************************)
(* What the factories of the fusions (Create...Fusion) and their Compute   *)
(* methods share.  `graph' is the part of the graph that was fused, as in  *)
(* FusionCompile; val gives the tensors of the inputs of the fused node,   *)
(* initializers among them.  A fused node has nothing else: GetIndex and   *)
(* its kin throw when a value is no input.                                 *)
(*                                                                         *)
(* A factory and its Compute are one operator here, or, when the factory   *)
(* takes much from the part, the set of its one plan and the Compute of a  *)
(* plan.  Compute yields the set of the one function from the outputs to   *)
(* their tensors, empty when either throws or returns an error.            *)
(***************************************************************************)
EXTENDS FusionCompile, KernelsMath, TLC

\* The nodes of an operator, in order.
NodesOf(op) == SelectSeq([n \in Node |-> n], LAMBDA n : IsOp(n, op))
\* The tensors a node reads, when the fused node is given all of them.
GivenAll(vs, val) == vs \ {Missing} \subseteq DOMAIN val
Inputs(n, val) == [i \in DOMAIN In(n) |-> IF In(n)[i] = Missing THEN Absent ELSE val[In(n)[i]]]
\* The outputs from, for each of them, the set of the one tensor.
Results(f) ==
  IF \E v \in DOMAIN f : f[v] = {} THEN {}
  ELSE {[v \in DOMAIN f |-> CHOOSE t \in f[v] : TRUE]}
Yields(v, ts) == {v :> t : t \in ts}
\* ONNX Runtime lists the outputs of a fused node as its nodes leave them; some
\* fusions write the first and no other.
FirstOutput ==
  LET first == Min({Producer(v) : v \in graph.outputs})
  IN  Out(first)[Min({i \in DOMAIN Out(first) : Exported(Out(first)[i])})]
WithLast(t, d) == [t.dims EXCEPT ![RankOf(t)] = d]
\* A tensor as a matrix of its last dimension.
Rows(t) == WithDims(t, <<NumElements(SubSeq(t.dims, 1, RankOf(t) - 1)), Last(t.dims)>>)
SameDType(x) == \A i \in DOMAIN x : x[i].dtype = x[1].dtype
=============================================================================
