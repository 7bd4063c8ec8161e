--------------------------- MODULE FusionMatchers ---------------------------
(***************************************************************************)
(* The thirty-six finders FindFusionMatches calls (fusion_matcher.cc), the *)
(* element types each fusion computes with (fusion_dtype.cc), and the      *)
(* graph a fused node is compiled from.                                    *)
(***************************************************************************)
EXTENDS FusionsAttention, FusionsLinear, FusionsNorm, FusionsId, FusionsLayout

\* The finders in the order FindFusionMatches calls them, by fusion.
Finders == <<
  "MultiKqvMhaOutputProjection", "QkvAttentionOutputProjection",
  "MhtaScaledDotProductAttention", "GenerateMTGRCustomMask", "MoE", "SplitSequenceMoE",
  "ParallelEinsum", "CastRmsNorm", "RmsNorm", "CenteredReduce", "SegmentMaxBroadcast",
  "RecRankCalibration", "TargetIdCountEmbedding", "MaskedEmbeddingLookup", "SparseIdToMask",
  "BucketizeGather", "LogBucketizeGather", "ModuloGather", "ReplaceInvalidId",
  "MathConcatLog", "SplitUnsqueezeConcat", "SplitReduce", "ConcatMatMul", "ConcatSplit",
  "SplitConcat", "SwiGlu", "ParallelMatMulConcat", "ParallelLinear", "StridedView",
  "ShapeReshape", "TileConcat", "SliceConcat", "ConcatReshape", "GemmActivation",
  "FusedGemm", "Silu" >>

\* What the matcher of a fusion makes of one node.
MatchAt(fusion, n, taken) ==
  CASE fusion = "MultiKqvMhaOutputProjection" -> MultiKqvMhaOutputProjection(n, taken)
    [] fusion = "QkvAttentionOutputProjection" -> QkvAttentionOutputProjection(n, taken)
    [] fusion = "MhtaScaledDotProductAttention" -> MhtaScaledDotProductAttention(n, taken)
    [] fusion = "GenerateMTGRCustomMask" -> GenerateMTGRCustomMask(n, taken)
    [] fusion = "MoE" -> MoE(n, taken)
    [] fusion = "SplitSequenceMoE" -> SplitSequenceMoE(n, taken)
    [] fusion = "ParallelEinsum" -> ParallelEinsum(n, taken)
    [] fusion = "CastRmsNorm" -> CastRmsNorm(n, taken)
    [] fusion = "RmsNorm" -> RmsNorm(n, taken)
    [] fusion = "CenteredReduce" -> CenteredReduce(n, taken)
    [] fusion = "SegmentMaxBroadcast" -> SegmentMaxBroadcast(n, taken)
    [] fusion = "RecRankCalibration" -> RecRankCalibration(n, taken)
    [] fusion = "TargetIdCountEmbedding" -> TargetIdCountEmbedding(n, taken)
    [] fusion = "MaskedEmbeddingLookup" -> MaskedEmbeddingLookup(n, taken)
    [] fusion = "SparseIdToMask" -> SparseIdToMask(n, taken)
    [] fusion = "BucketizeGather" -> BucketizeGather(n, taken)
    [] fusion = "LogBucketizeGather" -> LogBucketizeGather(n, taken)
    [] fusion = "ModuloGather" -> ModuloGather(n, taken)
    [] fusion = "ReplaceInvalidId" -> ReplaceInvalidId(n, taken)
    [] fusion = "MathConcatLog" -> MathConcatLog(n, taken)
    [] fusion = "SplitUnsqueezeConcat" -> SplitUnsqueezeConcat(n, taken)
    [] fusion = "SplitReduce" -> SplitReduce(n, taken)
    [] fusion = "ConcatMatMul" -> ConcatMatMul(n, taken)
    [] fusion = "ConcatSplit" -> ConcatSplit(n, taken)
    [] fusion = "SplitConcat" -> SplitConcat(n, taken)
    [] fusion = "SwiGlu" -> SwiGlu(n, taken)
    [] fusion = "ParallelMatMulConcat" -> ParallelMatMulConcat(n, taken)
    [] fusion = "ParallelLinear" -> ParallelLinear(n, taken)
    [] fusion = "StridedView" -> StridedView(n, taken)
    [] fusion = "ShapeReshape" -> ShapeReshape(n, taken)
    [] fusion = "TileConcat" -> TileConcat(n, taken)
    [] fusion = "SliceConcat" -> SliceConcat(n, taken)
    [] fusion = "ConcatReshape" -> ConcatReshape(n, taken)
    [] fusion = "FusedGemm" -> FusedGemm(n, taken)
    [] fusion = "Silu" -> Silu(n, taken)

\* The candidates of a finder, in the order it meets them in the graph.
Candidates(fusion, taken) ==
  IF fusion = "GemmActivation" THEN GemmActivations(taken)
  ELSE FoldLeftDomain(LAMBDA found, n : found \o Made(MatchAt(fusion, n, taken)),
                      <<>>, graph.node)

\* FusionDTypeContractForFinder: the floating-point types a fusion computes
\* with; the others are rejected.
StorageTypes(fusion) ==
  CASE fusion \in {"GenerateMTGRCustomMask", "RecRankCalibration", "ConcatSplit",
         "ConcatReshape", "ShapeReshape", "TileConcat", "StridedView", "ModuloGather",
         "BucketizeGather", "LogBucketizeGather", "MaskedEmbeddingLookup",
         "SparseIdToMask", "ReplaceInvalidId", "MhtaScaledDotProductAttention",
         "GemmActivation", "Silu", "RmsNorm"} -> FloatTypes
    [] fusion \in {"FusedGemm", "SwiGlu", "ConcatMatMul", "ParallelMatMulConcat",
         "ParallelLinear", "CastRmsNorm"} -> FloatTypes \ {"double"}
    [] OTHER -> {"float"}

CandidateSatisfiesDTypeContract(S, fusion) ==
  \A n \in S : \A v \in (ToSet(In(n)) \cup ToSet(Out(n))) \ {Missing} :
    DType(v) \in FloatTypes => DType(v) \in StorageTypes(fusion)

-----------------------------------------------------------------------------
\* What leaves a fused node: results another node reads, and graph outputs.
Escaping(S) ==
  {v \in UNION {Outputs(n) : n \in S} : Exported(v) \/ ReaderNodes(v) \ S # {}}
SubgraphOf(S) ==
  LET chosen == SelectSeq([n \in Node |-> n], LAMBDA n : n \in S)
  IN  Indexed([i \in DOMAIN chosen |-> graph.node[chosen[i]]], graph.info, Escaping(S))
=============================================================================
