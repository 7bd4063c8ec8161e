---------------------------- MODULE FusionCompile ---------------------------
(***************************************************************************)
(* How CompileImpl (fusion_node_compute.cc) finds out which fusion a fused *)
(* node is.  ONNX Runtime hands it the subgraph of the node and nothing    *)
(* else: the finder that accepted the nodes is not recorded, so CompileImpl*)
(* asks the Is...FusionGraph predicates in a fixed order and believes the  *)
(* first.  Most of them only count operators.                              *)
(*                                                                         *)
(* Here `graph' is that subgraph.                                          *)
(***************************************************************************)
EXTENDS FusionsAttention, FusionsId

Count(ops) == Cardinality({n \in Node : Op(n) \in ops})
Has(ops) == \A op \in ops : Count({op}) > 0
Only(ops) == \A n \in Node : Op(n) \in ops
\* The operators of the subgraph and how many there are of each.
Exactly(counts) == Only(DOMAIN counts) /\ \A op \in DOMAIN counts : Count({op}) = counts[op]
The(op) == CHOOSE n \in Node : IsOp(n, op)
Activations == {"Relu", "LeakyRelu", "Tanh", "Sigmoid"}

-----------------------------------------------------------------------------
\* Attention.
IsMultiKqvGraph == \E n \in Node : MultiKqvMhaOutputProjection(n, {}) # {}

IsMhtaGraph ==
  LET core(m) == \A op \in DOMAIN m : Count({op}) = m[op]
      none(ops) == Count(ops) = 0
      shapeless == none({"Shape", "Gather", "Sub", "Clip", "Range", "Less"})
      permuted(perm) == Cardinality({n \in Node : IsOp(n, "Transpose") /\ AttrIs(n, "perm", perm)})
      transposes == Count({"Transpose"})
      plain == core([MatMul |-> 2, Mul |-> 1, Add |-> 1, Div |-> 1, Softmax |-> 1])
               /\ none({"Einsum", "Unsqueeze", "Reshape", "Where"}) /\ shapeless
      boolean == core([MatMul |-> 2, Mul |-> 1, Softmax |-> 1, Where |-> 2])
                 /\ none({"Einsum", "Add", "Div", "Unsqueeze", "Reshape"}) /\ shapeless
                 /\ \/ none({"Slice", "Equal"}) /\ Count({"Cast"}) \in {0, 2}
                    \/ core([Slice |-> 1, Equal |-> 1]) /\ Count({"Cast"}) \in {1, 3}
      sim == core([MatMul |-> 1, Einsum |-> 1, Add |-> 1, Softmax |-> 1, Unsqueeze |-> 1,
                   Reshape |-> 1]) /\ shapeless
             /\ <<Count({"Mul"}), Count({"Div"})>> \in {<<2, 0>>, <<1, 1>>}
      lseq == core([MatMul |-> 2, Mul |-> 1, Softmax |-> 1, Where |-> 1, Unsqueeze |-> 2,
                    Shape |-> 1, Gather |-> 1, Sub |-> 1, Clip |-> 1, Range |-> 1, Less |-> 1])
              /\ none({"Einsum", "Add", "Div", "Slice", "Equal", "Reshape"})
      cast == lseq /\ core([Cast |-> 4, Concat |-> 2, ConstantOfShape |-> 0])
              /\ transposes = 4 /\ permuted(<<1, 0, 2>>) = 3 /\ permuted(<<1, 2, 0>>) = 1
  IN  /\ Only({"MatMul", "Einsum", "Mul", "Add", "Div", "Softmax", "Where", "Slice", "Cast",
               "Equal", "Unsqueeze", "Reshape", "Shape", "Gather", "Sub", "Clip", "Range",
               "Less", "Transpose", "Concat", "ConstantOfShape"})
      /\ \A n \in Node : IsOp(n, "Transpose") => Attr(n, "perm") \in
           {{<<0, 2, 1, 3>>}, {<<0, 2, 3, 1>>}, {<<1, 0, 2>>}, {<<1, 2, 0>>}}
      /\ \/ cast
         \/ /\ plain \/ boolean \/ sim \/ (lseq /\ none({"Cast"}))
            /\ \/ transposes = 0
               \/ transposes = 4 /\ permuted(<<0, 2, 1, 3>>) = 3
                  /\ permuted(<<0, 2, 3, 1>>) = 1

IsQkvGraph ==
  \A op \in {"Unsqueeze", "com.microsoft.Attention", "Reshape", "Gemm"} : Count({op}) = 1

IsMTGRGraph ==
  LET counts(m) == \A op \in DOMAIN m : Count({op}) = m[op]
      core == counts([Shape |-> 5, Gather |-> 5, Add |-> 6, Reshape |-> 2, Less |-> 4,
                      GreaterOrEqual |-> 2, And |-> 8, Or |-> 2, Sub |-> 2, Equal |-> 1])
  IN  core /\ \/ Len(graph.node) = 40 /\ counts([Cast |-> 2, Unsqueeze |-> 1])
              \/ /\ Len(graph.node) = 44 /\ counts([Cast |-> 3, Unsqueeze |-> 2])
                 /\ \/ counts([Slice |-> 2, Concat |-> 0])
                    \/ counts([Slice |-> 1, Concat |-> 1])

-----------------------------------------------------------------------------
\* Experts, einsums and norms.
IsMoEGraph ==
  LET experts == Count({"Unsqueeze"})
  IN  /\ Only({"Gemm", "MatMul", "Add", "Relu", "Unsqueeze", "Concat", "Mul", "ReduceSum"})
      /\ experts >= 2 /\ Count({"Gemm", "MatMul"}) = 2 * experts
      /\ Count({"Add"}) = Count({"MatMul"}) /\ Count({"Relu"}) = 2 * experts
      /\ Count({"Concat"}) = 1 /\ Count({"Mul"}) >= 1
      /\ Count({"ReduceSum"}) = Count({"Mul"})

IsSplitSequenceMoEGraph ==
  LET groups == Count({"LayerNormalization"})
  IN  groups >= 2 /\ Exactly([Gemm |-> 2 * groups, Relu |-> groups, Slice |-> 2 * groups,
                              LayerNormalization |-> groups, Concat |-> 2, Add |-> 1])

IsParallelEinsumGraph ==
  Exactly([Concat |-> 1, Einsum |-> 12, Tanh |-> 8, Add |-> 4, Mul |-> 4])

IsRms(casts) ==
  \E pow \in 0..1 :
    Exactly([Cast |-> casts, ReduceMean |-> 1, Add |-> 1, Sqrt |-> 1, Div |-> 1,
             Mul |-> 2 - pow, Pow |-> pow])
IsRmsNormGraph == IsRms(0)
IsCastRmsNormGraph == IsRms(2)

IsCenteredReduceGraph ==
  /\ Only({"ReduceSum", "ReduceProd", "Sub", "Mul"})
  /\ Count({"ReduceSum", "ReduceProd"}) = 2 /\ Count({"Sub"}) = 1 /\ Count({"Mul"}) = 1

\* The only predicate that follows the index of the last Gather: it has to be
\* a Cast of the inverse indices of the first Unique.
ResolveSegmentMaxBroadcastValues ==
  \E final \in Node :
    /\ IsOp(final, "Gather") /\ Arity(final, 2, 1)
    /\ IsOp(At(final, 1), "ReduceMax") /\ Len(In(At(final, 1))) = 2
    /\ IsOp(At(final, 2), "Cast") /\ Len(In(At(final, 2))) = 1
    /\ LET value == At(At(final, 1), 1)
           unique == From(At(final, 2), 1, "Unique", 3)
       IN  /\ unique # 0 /\ Len(In(unique)) = 1
           /\ IsOp(value, "Gather") /\ Len(In(value)) = 2 /\ IsOp(At(value, 2), "ScatterND")
IsSegmentMaxGraph ==
  /\ Exactly([Cast |-> 4, Concat |-> 2, ConstantOfShape |-> 1, Gather |-> 3, Mod |-> 1,
              Range |-> 1, ReduceMax |-> 2, ScatterND |-> 1, Shape |-> 2, Slice |-> 1,
              Squeeze |-> 2, TopK |-> 1, Unique |-> 2, Unsqueeze |-> 3])
  /\ ResolveSegmentMaxBroadcastValues

IsRecRankGraph ==
  Exactly([Mul |-> 4, Floor |-> 1, Less |-> 1, Cast |-> 3, Equal |-> 1, Sub |-> 2, Add |-> 1,
           ReduceSum |-> 1, Clip |-> 2, Div |-> 1, Log |-> 1])
IsMathConcatLogGraph == Exactly([Max |-> 1, Add |-> 1, Log |-> 1, Mul |-> 1])

-----------------------------------------------------------------------------
\* Identifiers and buckets.
\* TargetIdCountEmbedding is resolved node by node, and reading its constants
\* throws, out of CompileImpl, when they are none.
TargetResolves(gather) ==
  LET IsIds(v) == IsOp(Producer(v), "Unsqueeze") /\ In(Producer(v)) # <<>> /\ IsInt(In(Producer(v))[1])
      Resolves(t, ids) ==
        /\ IsOp(t.bucketUnsqueeze, "Unsqueeze") /\ IsOp(t.min, "Min")
        /\ IsOp(t.mask, "Cast") /\ IsOp(t.and, "And") /\ IsOp(t.not, "Not")
        /\ IsOp(t.pad, "Equal")
        /\ \A n \in {t.bucketUnsqueeze, t.min, t.reduce} : Len(In(n)) = 2
        /\ \A n \in {t.mask, t.not} : Len(In(n)) = 1
        /\ Len(Out(t.reduce)) = 1 /\ Len(Out(t.count)) = 1
        \* the target is the input that is no unsqueezed integer; there must be one
        /\ \E v \in ToSet(In(t.sub)) : ~IsIds(v)
        /\ ids \in ToSet(In(t.pad)) /\ ToSet(In(t.pad)) # {ids}
      Nodes(t) == 0 \notin Range(t) /\ Resolves(t, In(t.source)[1])
  IN  IsOp(gather, "Gather") /\ Arity(gather, 2, 1) /\ Nodes(TargetNodes(gather))
TargetIsConstant(gather) ==
  LET Constants(t) ==
        /\ ScalarInt(Beside(t.min, "ReduceSum")) # {}
        /\ \A v \in ToSet(In(t.pad)) \ {In(t.source)[1]} : ScalarInt(v) # {}
        /\ \A n \in {t.reduce, t.source, t.bucketUnsqueeze, t.feature} :
             IsSmallIntegerInitializer(In(n)[2])
  IN  Constants(TargetNodes(gather))

\* The outcomes of its predicate: "yes", "no", "throws".
TargetIdCountGraph ==
  LET Zero(n) == ScalarInt(Beside(TargetNodes(n).hit, "Sub"))
      First(n) == IF Zero(n) = {0} /\ TargetIsConstant(n) THEN "yes" ELSE "throws"
      Among(gathers) == IF gathers = {} THEN "no" ELSE First(Min(gathers))
  IN  IF Has({"Gather", "ReduceSum", "And", "Min"})
      THEN Among({n \in Node : TargetResolves(n) /\ Zero(n) \in {{}, {0}}}) ELSE "no"

IsMaskedEmbeddingGraph ==
  Exactly([Reshape |-> 1, GreaterOrEqual |-> 1, NonZero |-> 1, Transpose |-> 1, Squeeze |-> 1,
           Gather |-> 2, ScatterND |-> 1, Unsqueeze |-> 1])
IsSparseIdGraph ==
  Exactly([LessOrEqual |-> 1, Not |-> 1, Cast |-> 3, Mul |-> 2, Add |-> 1, Equal |-> 1])
IsReplaceInvalidIdGraph ==
  Exactly([LessOrEqual |-> 1, Not |-> 1, Cast |-> 2, Mul |-> 2, Add |-> 1])
IsBucketizeGraph == Has({"Gather", "Greater", "Squeeze", "Sub"})
IsLogBucketizeGraph == Has({"Gather", "Log", "Floor", "Where", "Unsqueeze"})
IsModuloGraph == Has({"Gather", "Equal", "Sub"})

-----------------------------------------------------------------------------
\* Layout.
IsSplitUnsqueezeConcatGraph ==
  /\ Only({"Reshape", "Split", "Unsqueeze", "Concat", "Transpose"})
  /\ Count({"Split"}) = 1 /\ Count({"Unsqueeze"}) >= 2 /\ Count({"Concat"}) = 1
  /\ Count({"Reshape"}) <= 1 /\ Count({"Transpose"}) <= 1
IsSplitReduceGraph ==
  /\ Only({"Split", "ReduceProd", "ReduceMean"})
  /\ Count({"Split"}) = 1 /\ Count({"ReduceProd", "ReduceMean"}) >= 2
IsConcatSplitGraph ==
  /\ Only({"Concat", "Split", "Sum"}) /\ Count({"Split"}) = 1
  /\ In(The("Split")) # <<>> /\ IsOp(At(The("Split"), 1), "Concat")
  /\ Len(Out(At(The("Split"), 1))) = 1
IsSplitConcatGraph ==
  /\ Only({"Reshape", "Split", "Concat", "Transpose"})
  /\ Count({"Split"}) = 1 /\ Count({"Concat"}) = 1
  /\ Count({"Reshape"}) <= 1 /\ Count({"Transpose"}) <= 1
IsStridedViewGraph ==
  /\ Only({"Concat", "Slice"}) /\ Count({"Concat"}) = 1 /\ Count({"Slice"}) >= 2
  /\ AttrIs(The("Concat"), "axis", 2)
IsShapeReshapeGraph == Has({"Gather", "Concat", "Reshape"})
(* Mutant: the Tile is not asked for.                                      *)
HasConcat == Has({"Concat"})
IsTileConcatGraph == Has({"Concat", "Tile"})
IsSliceConcatGraph ==
  /\ Only({"Concat", "Slice", "ConstantOfShape", "Shape"})
  /\ Count({"Concat"}) = 1 /\ Has({"Slice"}) /\ AxisOrZeroIs(The("Concat"), 2, 1)

IsConcatReshapeGraph ==
  LET reshape == The("Reshape")
      unsqueeze == From(reshape, 1, "Unsqueeze", 1)
      next == IF unsqueeze = 0 THEN reshape ELSE unsqueeze
      concat == From(next, 1, "Concat", 1)
  IN  /\ Count({"Reshape"}) = 1 /\ Arity(reshape, 2, 1)
      /\ IsSmallIntegerInitializer(In(reshape)[2])
      /\ unsqueeze # 0 => /\ Arity(unsqueeze, 2, 1)
                          /\ IsSmallIntegerInitializer(In(unsqueeze)[2])
                          /\ HasOnlyConsumer(Out(unsqueeze)[1], reshape, 1)
      /\ concat # 0 /\ In(concat) # <<>> /\ Len(Out(concat)) = 1
      /\ HasOnlyConsumer(Out(concat)[1], next, 1)
      /\ \A v \in ToSet(In(concat)) : ~IsConst(v) /\ ~IsOp(Producer(v), "Constant")
      /\ \A n \in Node \ {reshape, next, concat} : IsOp(n, "Constant")

-----------------------------------------------------------------------------
\* Linear algebra.
IsConcatMatMulGraph ==
  /\ Exactly([Concat |-> 1, MatMul |-> 1]) /\ Len(Out(The("Concat"))) = 1
  /\ Len(In(The("MatMul"))) = 2 /\ Out(The("Concat"))[1] \in ToSet(In(The("MatMul")))
IsParallelMatMulConcatGraph ==
  /\ Only({"Concat", "MatMul", "Unsqueeze"}) /\ Count({"Concat"}) = 1
  /\ Count({"MatMul"}) >= 2 /\ Count({"MatMul"}) = Count({"Unsqueeze"})
IsParallelLinearGraph ==
  LET linear == Count({"MatMul", "Gemm"})
      gated == <<Count({"Relu"}), Count({"Sigmoid"}), Count({"Mul"})>> = <<0, 1, 2>>
      ordinary == Count({"Sigmoid", "Mul"}) = 0 /\ Count({"Relu"}) \in {0, linear}
  IN  /\ Only({"MatMul", "Gemm", "Add", "Relu", "Sigmoid", "Mul"})
      /\ linear >= 2 /\ Count({"Add"}) <= Count({"MatMul"})
      /\ ordinary \/ (gated /\ linear = 2)
IsGemmActivationGraph ==
  /\ Only(Activations \cup {"Gemm", "Reshape", "Unsqueeze"})
  /\ Count({"Gemm"}) = 1 /\ Count(Activations) = 1
IsFusedGemmGraph ==
  /\ Only(Activations \cup {"MatMul", "Add"})
  /\ Count({"MatMul"}) = 1 /\ Count({"Add"}) = 1 /\ Count(Activations) <= 1

\* Two MatMuls of one input by constant weights of one shape, the Sigmoid of the
\* one, and the product of both with it.
IsSwiGluGraph ==
  LET gate == At(The("Sigmoid"), 1)
      up == CHOOSE n \in Node : IsOp(n, "MatMul") /\ n # gate
      Multiplies(n, v, w) == IsOp(n, "Mul") /\ In(n) \in {<<v, w>>, <<w, v>>}
      swish == {n \in Node : Multiplies(n, Out(gate)[1], Out(The("Sigmoid"))[1])}
  IN  /\ Exactly([MatMul |-> 2, Sigmoid |-> 1, Mul |-> 2])
      /\ Arity(The("Sigmoid"), 1, 1) /\ IsOp(gate, "MatMul")
      /\ \A n \in {gate, up} : Arity(n, 2, 1) /\ IsConst(In(n)[2])
      /\ \E n \in swish, m \in Node : Multiplies(m, Out(n)[1], Out(up)[1])
      /\ In(gate)[1] = In(up)[1]
      /\ \A n \in {gate, up} : HasRank(In(n)[2], 2) /\ StaticShape(In(n)[2])
      /\ Dims(In(gate)[2]) = Dims(In(up)[2])
      /\ Ranked(In(gate)[1]) /\ Rank(In(gate)[1]) \in 2..8
      /\ Agree(Known(In(gate)[1], Rank(In(gate)[1])), Known(In(gate)[2], 1))
      /\ SameTypeIn({In(gate)[1]} \cup {In(n)[2] : n \in {gate, up}}
                    \cup {Out(n)[1] : n \in Node}, {"float", "float16", "bfloat16"})

IsSiluGraph ==
  LET sigmoid == The("Sigmoid")
      x == In(sigmoid)[1]
      s == Out(sigmoid)[1]
  IN  /\ Exactly([Sigmoid |-> 1, Mul |-> 1]) /\ Arity(sigmoid, 1, 1)
      /\ In(The("Mul")) \in {<<x, s>>, <<s, x>>}

-----------------------------------------------------------------------------
\* The chain of CompileImpl, by the name of the fusion it creates.
Detectors == <<
  <<"MultiKqvMhaOutputProjection", IsMultiKqvGraph>>,
  <<"MhtaScaledDotProductAttention", IsMhtaGraph>>,
  <<"QkvAttentionOutputProjection", IsQkvGraph>>, <<"GenerateMTGRCustomMask", IsMTGRGraph>>,
  <<"MoE", IsMoEGraph>>, <<"SplitSequenceMoE", IsSplitSequenceMoEGraph>>,
  <<"ParallelEinsum", IsParallelEinsumGraph>>, <<"CastRmsNorm", IsCastRmsNormGraph>>,
  <<"RmsNorm", IsRmsNormGraph>>, <<"CenteredReduce", IsCenteredReduceGraph>>,
  <<"SegmentMaxBroadcast", IsSegmentMaxGraph>>, <<"RecRankCalibration", IsRecRankGraph>>,
  <<"TargetIdCountEmbedding", TargetIdCountGraph = "yes">>,
  <<"none", TargetIdCountGraph = "throws">>,
  <<"MaskedEmbeddingLookup", IsMaskedEmbeddingGraph>>, <<"SparseIdToMask", IsSparseIdGraph>>,
  <<"BucketizeGather", IsBucketizeGraph>>, <<"LogBucketizeGather", IsLogBucketizeGraph>>,
  <<"ModuloGather", IsModuloGraph>>, <<"ReplaceInvalidId", IsReplaceInvalidIdGraph>>,
  <<"MathConcatLog", IsMathConcatLogGraph>>,
  <<"SplitUnsqueezeConcat", IsSplitUnsqueezeConcatGraph>>, <<"SplitReduce", IsSplitReduceGraph>>,
  <<"ConcatMatMul", IsConcatMatMulGraph>>, <<"ConcatSplit", IsConcatSplitGraph>>,
  <<"SplitConcat", IsSplitConcatGraph>>, <<"SwiGlu", IsSwiGluGraph>>,
  <<"ParallelMatMulConcat", IsParallelMatMulConcatGraph>>,
  <<"ParallelLinear", IsParallelLinearGraph>>, <<"StridedView", IsStridedViewGraph>>,
  <<"ShapeReshape", IsShapeReshapeGraph>>, <<"TileConcat", IsTileConcatGraph>>,
  <<"SliceConcat", IsSliceConcatGraph>>, <<"ConcatReshape", IsConcatReshapeGraph>>,
  <<"GemmActivation", IsGemmActivationGraph>>, <<"FusedGemm", IsFusedGemmGraph>>,
  <<"Silu", IsSiluGraph>>, <<"none", TRUE>> >>

\* The fusion that is created, "none" when CompileImpl throws.
Compiled == Head(SelectSeq(Detectors, LAMBDA d : d[2]))[1]
=============================================================================
