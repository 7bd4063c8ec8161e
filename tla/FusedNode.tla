----------------------------- MODULE FusedNode -----------------------------
(***************************************************************************)
(* The fused node of each fusion, and what it takes for granted.  Told by  *)
(* name here: CreateFusionCompute picks the factory as                     *)
(* FusionCompile!Compiled does.                                            *)
(***************************************************************************)
EXTENDS FusedLayout, FusedLinear, FusedNorm, FusedId, FusedAttention

\* hints: the repeats the matcher has left expressions for, evaluated.
ComputeOf(fusion, val, hints) ==
  CASE fusion = "ConcatReshape" -> ConcatReshapeCompute(val)
    [] fusion = "StridedView" -> StridedViewCompute(val)
    [] fusion = "ShapeReshape" -> ShapeReshapeCompute(val)
    [] fusion = "TileConcat" -> TileConcatCompute(val, hints)
    [] fusion = "SliceConcat" -> SliceConcatCompute(val)
    [] fusion = "SplitConcat" -> SplitConcatCompute(val)
    [] fusion = "ConcatSplit" -> ConcatSplitCompute(val)
    [] fusion = "SplitUnsqueezeConcat" -> SplitUnsqueezeConcatCompute(val)
    [] fusion = "SplitReduce" -> SplitReduceCompute(val)
    [] fusion = "FusedGemm" -> FusedGemmCompute(val)
    [] fusion = "GemmActivation" -> GemmActivationCompute(val)
    [] fusion = "Silu" -> SiluCompute(val)
    [] fusion = "SwiGlu" -> SwiGluCompute(val)
    [] fusion = "ConcatMatMul" -> ConcatMatMulCompute(val)
    [] fusion = "ParallelMatMulConcat" -> ParallelMatMulConcatCompute(val)
    [] fusion = "ParallelLinear" -> ParallelLinearCompute(val)
    [] fusion = "ParallelEinsum" -> ParallelEinsumCompute(val)
    [] fusion = "MoE" -> MoECompute(val)
    [] fusion = "SplitSequenceMoE" -> SplitSequenceMoECompute(val)
    [] fusion = "RmsNorm" -> RmsNormCompute(val)
    [] fusion = "CastRmsNorm" -> CastRmsNormCompute(val)
    [] fusion = "CenteredReduce" -> CenteredReduceCompute(val)
    [] fusion = "SegmentMaxBroadcast" -> SegmentMaxBroadcastCompute(val)
    [] fusion = "MathConcatLog" -> MathConcatLogCompute(val)
    [] fusion = "RecRankCalibration" -> RecRankCalibrationCompute(val)
    [] fusion = "ModuloGather" -> ModuloGatherCompute(val)
    [] fusion = "BucketizeGather" -> BucketizeGatherCompute(val)
    [] fusion = "LogBucketizeGather" -> LogBucketizeGatherCompute(val)
    [] fusion = "MaskedEmbeddingLookup" -> MaskedEmbeddingLookupCompute(val)
    [] fusion = "SparseIdToMask" -> SparseIdToMaskCompute(val)
    [] fusion = "ReplaceInvalidId" -> ReplaceInvalidIdCompute(val)
    [] fusion = "TargetIdCountEmbedding" -> TargetIdCountEmbeddingCompute(val)
    [] fusion = "GenerateMTGRCustomMask" -> GenerateMTGRCustomMaskCompute(val)
    [] fusion = "MhtaScaledDotProductAttention" -> MhtaScaledDotProductAttentionCompute(val)
    [] fusion = "QkvAttentionOutputProjection" -> QkvAttentionOutputProjectionCompute(val)
    [] fusion = "MultiKqvMhaOutputProjection" -> MultiKqvMhaOutputProjectionCompute(val)

-----------------------------------------------------------------------------
\* What a fused node takes for granted.  Its matcher has accepted the nodes, but
\* what it computes is what they compute only for inputs and constants that the
\* matcher did not look at.  Each condition below names such a thing, for the
\* one fusion that relies on it; t gives the tensors of the run, those of the
\* nodes too.

\* Nothing that leaves the fused node is read in it.  Half of the matchers see
\* to that; these fusions write their last results and no others.
WritesLastResults == {"SliceConcat", "SplitConcat", "StridedView", "GemmActivation",
  "ParallelLinear", "LogBucketizeGather", "MhtaScaledDotProductAttention",
  "MultiKqvMhaOutputProjection"}
LastResultsLeave == \A v \in graph.outputs : ReaderNodes(v) = {}

Scalar(v, t) == t[v].data[1]
\* Slices that cut rows 0..rows one behind the other; nothing is left over, no bound
\* is clamped, and each is one number.
Cover(slices, rows, t) ==
  LET from(i) == Scalar(In(slices[i])[2], t)
      to(i) == Scalar(In(slices[i])[3], t)
  IN  /\ \A i \in DOMAIN slices : \A v \in {In(slices[i])[2], In(slices[i])[3]} : Size(t[v]) = 1
      /\ from(1) = 0 /\ to(Len(slices)) = rows
      /\ \A i \in DOMAIN slices : from(i) <= to(i)
      /\ \A i \in 2..Len(slices) : from(i) = to(i - 1)

-----------------------------------------------------------------------------
\* Moving data.

\* The view cuts the rows evenly; the bounds of the Slices are not looked at.
EvenSegments(t) ==
  LET concat == The("Concat")
      slice == [i \in DOMAIN In(concat) |-> At(concat, i)]
      rows == t[In(slice[1])[1]].dims[1]
  IN  /\ Cover(slice, rows, t)
      /\ \A i \in DOMAIN slice : Len(slice) * Scalar(In(slice[i])[3], t) = i * rows
\* A Reshape in front of the Split leaves the dimensions, or unfolds whole rows.
KeepsDims(t) ==
  Has({"Reshape"}) => LET x == t[In(The("Reshape"))[1]]
                          packed == t[Out(The("Reshape"))[1]]
                      IN  RankOf(x) = RankOf(packed) => x.dims = packed.dims
UnfoldsRows(t) ==
  Has({"Reshape"}) => LET x == t[In(The("Reshape"))[1]]
                          packed == t[Out(The("Reshape"))[1]]
                      IN  \/ x.dims = packed.dims
                          \/ RankOf(x) = 2 /\ x.dims[2] % (packed.dims[2] * packed.dims[3]) = 0
\* The axis is written as a number from the front.
AxisIsOne == \A n \in Node : Op(n) \in {"Concat", "Split"} => AttrOr(n, "axis", 0) = 1
\* An index that is not in the shape makes the fused node fail, and the kernel
\* on the device take the first element.
PickedDimsExist(t) ==
  \A g \in ToSet(NodesOf("Gather")) :
    \A i \in ToSet(t[In(g)[2]].data) : i \in -Size(t[In(g)[1]])..(Size(t[In(g)[1]]) - 1)

-----------------------------------------------------------------------------
\* Matrix products and mixtures.

\* A Reshape leaves the last dimension, which is the one that is multiplied.
FlattensRows(t) ==
  LET gemm == The("Gemm")
      reshape == At(gemm, 1)
  IN  IsOp(reshape, "Reshape") => Last(t[In(reshape)[1]].dims) = t[In(gemm)[2]].dims[1]
\* The gate has an element for each of the input.
GateHasShape(t) ==
  \A n \in ToSet(NodesOf("Mul")) : t[In(n)[1]].dims = t[In(n)[2]].dims
\* The router has a row for each of the input.
RoutesEveryRow(t) ==
  LET front(v, n) == SubSeq(t[v].dims, 1, RankOf(t[v]) - n)
  IN  \A e \in MoEExperts : \A r \in MoERouters : front(r.weights, 2) = front(e[1].first.input, 1)
GroupsCoverRows(t) ==
  LET final == CHOOSE n \in Node : IsOp(n, "Concat") /\ IsOp(At(n, 1), "LayerNormalization")
  IN  Cover([i \in DOMAIN In(final) |-> At(At(final, i), 1)], t[SplitSequenceInput].dims[1], t)

-----------------------------------------------------------------------------
\* Normalisations.

\* Identifiers are a vector, a value belongs to each and one more is padding, and
\* what no value is scattered to is filled with the last index.
SegmentsArePadded(t) ==
  LET unique == The("Unique")
      final == CHOOSE n \in Node : IsOp(n, "Gather") /\ IsOp(At(n, 1), "ReduceMax")
      ids == t[In(At(At(final, 2), 1))[1]]
      values == t[In(At(At(final, 1), 1))[1]]
  IN  /\ RankOf(ids) = 1 /\ RankOf(values) = 1 /\ Size(values) = Size(ids) + 1
      /\ Last(values.data) = MinusInf
      /\ AttrIs(The("ConstantOfShape"), "value", "int64:-1")
\* Scores and buckets have the same rows, and the positions that scores are
\* compared with, which Compute never reads, are those of the buckets: 0, 1, and so on.  The
\* probability is divided by its complement, not the other way round.
ScoresHaveRows(t) ==
  LET position == t[In(The("Less"))[1]]
      counted == \A k \in DOMAIN position.data :
                   position.data[k] = (k - 1) % Last(position.dims)
  IN  \A g \in CalibrationGraph :
        /\ OthersAgree(t[g.relu].dims, t[g.scores].dims, RankOf(t[g.relu]) - 1)
        /\ position.dims = t[g.relu].dims /\ counted
        /\ In(The("Div"))[1] = Out(g.probability)[1]

-----------------------------------------------------------------------------
\* Identifiers.

\* The axis that is squeezed is counted from the front.
AxisIsFromFront == \A n \in ToSet(NodesOf("Squeeze")) : SmallIntInitializer(In(n)[2]) # {<<-1>>}
\* The test is id >= threshold, not threshold >= id.
TestsIdentifiers ==
  LET test == The("GreaterOrEqual") IN IsOp(At(test, 1), "Reshape")
\* Every dense identifier has its own candidate, every candidate its own bound or
\* all of them the same.
CandidatesAlign(t) ==
  LET equal == The("Equal")
      s == Selection(Via(equal, "Add"))
      dense == t[Beside(equal, "Add")]
      bound == t[Gated(s.keep)]
      sparse == t[In(s.less)[2]]
  IN  dense.dims = bound.dims /\ (sparse.dims = bound.dims \/ sparse.dims \in {<<>>, <<1>>})
\* Rows of identifiers, a target for each of them or one, and a sum over the row.
TargetsFaceRows(t) ==
  LET axis(m, a) == SmallIntInitializer(In(m)[2]) = {<<a>>}
      facing(ids, target) ==
        RankOf(ids) = 2 /\ target.dims \in {<<>>, <<1>>, <<1, 1>>, <<1, 1, 1>>, <<ids.dims[1], 1, 1>>}
      found(n) ==
        /\ facing(t[In(n.source)[1]], t[In(n.sub)[IF At(n.sub, 1) = n.source THEN 2 ELSE 1]])
        /\ axis(n.source, 2) /\ axis(n.valid, 2) /\ axis(n.reduce, 1)
        /\ axis(n.bucketUnsqueeze, 1) /\ axis(n.feature, 1)
  IN  found(TargetNodes(Min({n \in Node : TargetResolves(n)})))
\* The sequence is flat, so is what it is taken from; only the index has an upper
\* bound, and what is out of the range has the bucket at that end.
BucketsAreBounded(t) ==
  LET fill(where) == Attr(At(where, 2), "value")
      within(p, b) == /\ 0 <= p.min /\ p.min <= p.max /\ p.max < t[In(b.gather)[1]].dims[1]
                      /\ fill(b.low) = {"int64:0"} /\ fill(b.high) = {"int64:" \o ToString(p.max)}
      bounded(b) == /\ IntConstant(In(b.reshape)[2]) = {<<-1>>}
                    /\ t[In(b.sub)[1]].dims \in {<<>>, <<1>>, t[Out(b.reshape)[1]].dims}
                    /\ Len(In(b.diffClip)) = 2 /\ Len(In(b.valueClip)) = 2
                    /\ \E p \in LogBucketParams(b) : within(p, b)
  IN  bounded(LogBucketNodes(Last(NodesOf("Unsqueeze"))))

-----------------------------------------------------------------------------
\* Attention.

\* The target's length leaves the fused node, and the total length that of the
\* whole mask.
LengthsLeave ==
  /\ \E g \in LengthGathers(2) : Exported(Out(g)[1])
  /\ Len(graph.node) = 40 => \E n \in ToSet(NodesOf("Add")) : Exported(Out(n)[1])
\* The output projections cover the rows as the input slices do, in the order in
\* which their results are joined, and what a mask hides weighs -10000.
BranchesCoverRows(t) ==
  LET slices(nodes) == [i \in DOMAIN nodes |-> At(nodes[i], 1)]
      end(nodes, i) == Scalar(In(slices(nodes)[i])[3], t)
      covered(g, rows) ==
        /\ Cover(slices(g.matmul), rows, t) /\ Cover(slices(g.gemm), rows, t)
        /\ \A i \in DOMAIN g.gemm : end(g.matmul, i) = end(g.gemm, i)
        /\ AttrOr(g.mha, "mask_filter_value", "-10000") = "-10000"
      found(g) == covered(g, t[g.source].dims[1])
  IN  found(FoundKqv)
\* Every row keeps a key: muDNN leaves NaN in the others, and in this layout they
\* are not repaired.
RowsKeepKeys(t) ==
  LET pre == At(LastOf("Softmax"), 1)
      mask == t[In(pre)[1]]
      value == MatMulOver(LAMBDA n : IsOp(At(n, 1), "Where"))
      rows == Size(mask) \div Last(mask.dims)
  IN  FoundBshd(At(LastOf("Mul"), 1), value) =>
        \A r \in 1..rows : \E i \in 1..Last(mask.dims) : mask.data[(r - 1) * Last(mask.dims) + i] # 0
\* One key is padding, and the number of the others has no upper bound.
OneKeyIsPadding(t) ==
  /\ \A n \in ToSet(NodesOf("Concat")) : t[In(n)[2]].dims[1] = 1
  /\ Len(In(The("Clip"))) = 2
\* Part of a mask is cut to the keys there are.
MaskEndsAtKeys(t) ==
  \A slice \in ToSet(NodesOf("Slice")) :
    t[In(slice)[3]].data = <<Last(t[In(LastOf("Softmax"))[1]].dims)>>
\* A mask is one row of keys for every head and batch: it is padded on the left, and
\* its heads would be taken for queries.
MaskIsOneRow(t) ==
  \A v \in ToSet(In(LastOf("Add"))) :
    ~IsOp(Producer(v), "Mul") => RankOf(t[v]) # 0 /\ \A i \in 1..(RankOf(t[v]) - 1) : t[v].dims[i] = 1
\* The Reshape joins all the heads of a row.
HeadsAreJoined(t) ==
  t[FirstOutput].dims[1] = t[In(LastOf("Reshape"))[1]].dims[1]
SoftmaxIsPlain(t) ==
  IF Has({"Clip"}) THEN OneKeyIsPadding(t)
  ELSE IF Has({"Where"}) THEN RowsKeepKeys(t) /\ MaskEndsAtKeys(t)
  ELSE Has({"Einsum"}) => MaskIsOneRow(t) /\ HeadsAreJoined(t)

-----------------------------------------------------------------------------
Premise(fusion, t) ==
  /\ fusion \in WritesLastResults => LastResultsLeave
  /\ CASE fusion = "StridedView" -> EvenSegments(t)
       [] fusion = "SplitConcat" -> UnfoldsRows(t)
       [] fusion = "SplitUnsqueezeConcat" -> KeepsDims(t)
       [] fusion \in {"ConcatSplit", "ParallelMatMulConcat"} -> AxisIsOne
       [] fusion = "ShapeReshape" -> PickedDimsExist(t)
       [] fusion = "GemmActivation" -> FlattensRows(t)
       [] fusion = "ParallelEinsum" -> GateHasShape(t)
       [] fusion = "MoE" -> RoutesEveryRow(t)
       [] fusion = "SplitSequenceMoE" -> GroupsCoverRows(t)
       [] fusion = "SegmentMaxBroadcast" -> SegmentsArePadded(t)
       [] fusion = "RecRankCalibration" -> ScoresHaveRows(t)
       [] fusion = "BucketizeGather" -> AxisIsFromFront
       [] fusion = "MaskedEmbeddingLookup" -> TestsIdentifiers
       [] fusion = "SparseIdToMask" -> CandidatesAlign(t)
       [] fusion = "TargetIdCountEmbedding" -> TargetsFaceRows(t)
       [] fusion = "LogBucketizeGather" -> BucketsAreBounded(t)
       [] fusion = "GenerateMTGRCustomMask" -> LengthsLeave
       [] fusion = "MhtaScaledDotProductAttention" -> SoftmaxIsPlain(t)
       [] fusion = "MultiKqvMhaOutputProjection" -> BranchesCoverRows(t)
       [] OTHER -> TRUE
=============================================================================
