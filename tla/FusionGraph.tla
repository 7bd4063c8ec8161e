---------------------------- MODULE FusionGraph ----------------------------
(***************************************************************************)
(* The operator graph as GetCapability sees it, and the helpers that every *)
(* fusion matcher is written with (fusion_matcher_utils.cc, graph_utils.cc *)
(* and fusion_dtype.cc).                                                   *)
(*                                                                         *)
(* A node is a record of its operator, the values it reads and writes, and *)
(* its attributes; nodes are named by their position in the topological    *)
(* order ONNX Runtime lists them in.  A value is known by its name; the    *)
(* graph holds its element type, its shape when it has one, and the data   *)
(* of constant initializers.                                               *)
(***************************************************************************)
EXTENDS Integers, Sequences, FiniteSets, FiniteSetsExt, SequencesExt

VARIABLE graph
(* graph.node     the sequence of nodes [op, ins, outs, attr]              *)
(* graph.info     value -> [dtype, ranked, dims, const, data]              *)
(* graph.outputs  the values that are outputs of the graph                 *)
(* graph.producer value -> the node that writes it, 0 when there is none   *)
(* graph.readers  value -> the set of <<node, input position>> reading it  *)

Values(nodes) ==
  UNION {ToSet(nodes[n].ins) \cup ToSet(nodes[n].outs) : n \in DOMAIN nodes}

\* The graph of a list of nodes with its producer and consumer indices.
Indexed(nodes, info, outputs) ==
  [node |-> nodes, info |-> info, outputs |-> outputs,
   producer |-> [v \in Values(nodes) |->
     IF \E n \in DOMAIN nodes : v \in ToSet(nodes[n].outs)
     THEN CHOOSE n \in DOMAIN nodes : v \in ToSet(nodes[n].outs) ELSE 0],
   readers |-> [v \in Values(nodes) |->
     UNION {{<<n, i>> : i \in {k \in DOMAIN nodes[n].ins : nodes[n].ins[k] = v}}
            : n \in DOMAIN nodes}]]

Node == DOMAIN graph.node
Op(n) == IF n \in Node THEN graph.node[n].op ELSE "none"
IsOp(n, op) == Op(n) = op
In(n) == graph.node[n].ins
Out(n) == graph.node[n].outs
Missing == ""                       \* an optional input that is left out
Outputs(n) == ToSet(Out(n)) \ {Missing}
Arity(n, ins, outs) == Len(In(n)) = ins /\ Len(Out(n)) = outs

\* The producer and the consumers of a value.
Producer(v) == IF v = Missing THEN 0 ELSE graph.producer[v]
Readers(v) == graph.readers[v]
ReaderNodes(v) == {r[1] : r \in Readers(v)}
Exported(v) == v \in graph.outputs
\* The node that writes the i-th input of n, and the same when it is the k-th
\* output of a node of the given operator.
WriterAt(n, ins, i) == IF n # 0 /\ i \in DOMAIN ins THEN Producer(ins[i]) ELSE 0
At(n, i) == WriterAt(n, In(n), i)
WhenOutput(m, op, k, v) ==
  IF IsOp(m, op) /\ k \in DOMAIN Out(m) /\ Out(m)[k] = v THEN m ELSE 0
From(n, i, op, k) == WhenOutput(At(n, i), op, k, In(n)[i])
\* The position of the first of the two inputs that such a node writes.
Side(n, op) == IF IsOp(At(n, 1), op) THEN 1 ELSE IF IsOp(At(n, 2), op) THEN 2 ELSE 0
Via(n, op) == At(n, Side(n, op))

\* Attributes: the set of the value an attribute has, empty when absent.
Attr(n, a) == IF a \in DOMAIN graph.node[n].attr
              THEN {graph.node[n].attr[a]} ELSE {}
AttrIs(n, a, x) == Attr(n, a) = {x}
AttrOr(n, a, default) == IF Attr(n, a) = {} THEN default ELSE graph.node[n].attr[a]

-----------------------------------------------------------------------------
\* A cast to a type.
CastTo(n, type) == IsOp(n, "Cast") /\ AttrIs(n, "to", type)

\* Consumers.
HasOnlyConsumer(v, n, i) == Readers(v) = {<<n, i>>}
HasSingleConsumerAt(v, n, i) == ~Exported(v) /\ HasOnlyConsumer(v, n, i)
ValueHasOnlyConsumers(v, n) == ReaderNodes(v) = {n}
ValueHasExternalConsumerOrGraphOutput(v, n) ==
  Exported(v) \/ ReaderNodes(v) \ {n} # {}
\* Two consumers, both among these two nodes.
ReadByBoth(v, n, m) == Cardinality(Readers(v)) = 2 /\ ReaderNodes(v) \subseteq {n, m}
\* The only consumer of a value, 0 when there are several or none.
SingleReader(v) == IF Cardinality(Readers(v)) = 1
                   THEN CHOOSE n \in ReaderNodes(v) : TRUE ELSE 0

\* The nodes reached from a set of nodes.  Nodes are in topological order, so
\* one pass over them is enough.
Below(S) ==
  FoldLeftDomain(LAMBDA reached, n :
      IF \E v \in ToSet(In(n)) : Producer(v) \in reached
      THEN reached \cup {n} ELSE reached,
    S, graph.node)

Successors(S) == UNION {ReaderNodes(v) : v \in UNION {Outputs(n) : n \in S}}

\* The nodes a value is computed from.
Above(v) ==
  LET up == FoldRightDomain(LAMBDA n, above :
                IF ToSet(Out(n)) \cap above # {}
                THEN above \cup ToSet(In(n)) ELSE above,
              graph.node, {v})
  IN  {Producer(u) : u \in up \ {Missing}} \ {0}

(* Mutant: no path outside is looked for.                                  *)
NoPathIsLookedFor(S) == S = S
FusionHasNoExternalPathBetweenSelectedNodes(S) ==
  Below(Successors(S) \ S) \cap S = {}

-----------------------------------------------------------------------------
\* Types, shapes and constants.
DType(v) == graph.info[v].dtype
Ranked(v) == graph.info[v].ranked
Dims(v) == graph.info[v].dims
Rank(v) == Len(Dims(v))
IsConst(v) == v # Missing /\ graph.info[v].const
HasRank(v, r) == Ranked(v) /\ Rank(v) = r
StaticShape(v) == Ranked(v) /\ \A i \in DOMAIN Dims(v) : Dims(v)[i] > 0
IsFloat(v) == DType(v) = "float"
IsInt(v) == DType(v) \in {"int32", "int64"}

FloatTypes == {"float", "float16", "bfloat16", "double"}
SameTypeIn(S, types) == \E t \in types : \A v \in S : DType(v) = t
SameType(S) == "none" \notin {DType(v) : v \in S} /\ Cardinality({DType(v) : v \in S}) = 1

\* Known(v, i): the i-th dimension of a value, as a set that is empty when the
\* dimension is symbolic.  Fits: the known dimensions of a value agree with the
\* expected ones, where those are known.
Known(v, i) == IF Ranked(v) /\ Rank(v) >= i /\ Dims(v)[i] > 0 THEN {Dims(v)[i]} ELSE {}
Agree(a, b) == a = {} \/ b = {} \/ a = b
Fits(v, dims) ==
  Ranked(v) => /\ Rank(v) = Len(dims)
               /\ \A i \in DOMAIN dims : Agree(Known(v, i), dims[i])
Total(s) == FoldLeft(LAMBDA a, b : a + b, 0, s)
Product(s) == FoldLeft(LAMBDA a, b : a * b, 1, s)

\* NormalizeAxis: the axis in 0..rank-1, or -1 when it is out of range.
NormalizeAxis(axis, rank) ==
  IF axis \in -rank..(rank - 1) THEN (axis + rank) % rank ELSE -1
AxisIs(n, rank, axis) ==
  \E a \in Attr(n, "axis") : NormalizeAxis(a, rank) = axis
AxisOrZeroIs(n, rank, axis) == NormalizeAxis(AttrOr(n, "axis", 0), rank) = axis

KnownDimsEqual(a, b) == a <= 0 \/ b <= 0 \/ a = b
ShapesEqualOnKnownDims(s, t) ==
  Len(s) = Len(t) /\ \A i \in DOMAIN s : KnownDimsEqual(s[i], t[i])

\* The integers of a constant initializer: the set of the one sequence they
\* form, empty when the value is not one.  kSmallInitializerThreshold bounds
\* the number of elements that the Small readers accept.
kSmallInitializerThreshold == 100
IntInitializer(v) ==
  IF IsConst(v) /\ IsInt(v) THEN {graph.info[v].data} ELSE {}
SmallIntInitializer(v) ==
  {s \in IntInitializer(v) : Len(s) <= kSmallInitializerThreshold}
IsSmallIntegerInitializer(v) == SmallIntInitializer(v) # {}
ScalarInt(v) == {s[1] : s \in {t \in SmallIntInitializer(v) : Len(t) = 1}}
\* ReadIntConstant: an initializer, or what a Constant node produces.
IntConstant(v) ==
  IF IntInitializer(v) # {} THEN IntInitializer(v)
  ELSE IF IsOp(Producer(v), "Constant") THEN Attr(Producer(v), "value") ELSE {}
\* ReadScalarFloatInitializer; the data of float constants are symbols.
ScalarFloat(v) ==
  IF IsConst(v) /\ DType(v) \in FloatTypes /\ Len(graph.info[v].data) = 1
  THEN {graph.info[v].data[1]} ELSE {}
\* ReadUnsqueezeAxes: from the second input, or from the attribute.
UnsqueezeAxes(n) ==
  IF Len(In(n)) >= 2 THEN IntInitializer(In(n)[2]) ELSE Attr(n, "axes")
\* ReadAxes, which takes Constant nodes too.
ConstantAxes(n) == IF Len(In(n)) >= 2 THEN IntConstant(In(n)[2]) ELSE Attr(n, "axes")

\* The axes input of a reduction.
ReduceAxesInputIsAxis1(n) ==
  Len(In(n)) >= 2 /\ SmallIntInitializer(In(n)[2]) = {<<1>>}
ReduceAxesAreLastDim(n, rank) ==
  Len(In(n)) >= 2 /\ \E s \in SmallIntInitializer(In(n)[2]) :
    Len(s) = 1 /\ NormalizeAxis(s[1], rank) = rank - 1
ReduceOutputKeepsLastDim(v, dims) ==
  Ranked(v) => /\ Rank(v) = Len(dims) /\ dims # <<>> /\ Last(Dims(v)) = 1
               /\ \A i \in 1..(Len(dims) - 1) : KnownDimsEqual(Dims(v)[i], dims[i])

\* The set of a candidate when its conditions hold; matchers return {} to
\* reject a node.
Fuse(holds, S) == IF holds THEN {S} ELSE {}
\* What a matcher made of a node, in a list of candidates.
Made(found) == IF found = {} THEN <<>> ELSE <<CHOOSE S \in found : TRUE>>
Free(n, accepted) == n \notin accepted
FreeOp(n, op, accepted) == IF IsOp(n, op) /\ Free(n, accepted) THEN n ELSE 0
\* A node of an operator that no fusion has taken.
Is(n, op, accepted) == IsOp(n, op) /\ Free(n, accepted)
=============================================================================
