-------------------------- MODULE FusionsAttention --------------------------
(***************************************************************************)
(* The matchers of the attention fusions: MhtaScaledDotProductAttention    *)
(* in its four forms, QkvAttentionOutputProjection and                     *)
(* MultiKqvMhaOutputProjection, and that of the mask they read,            *)
(* GenerateMTGRCustomMask.                                                 *)
(***************************************************************************)
EXTENDS FusionGraph

HasSingleConsumer(v) == ~Exported(v) /\ Cardinality(Readers(v)) = 1
IsExactTranspose(n, perm) == IsOp(n, "Transpose") /\ AttrIs(n, "perm", perm)
IsFinite(x) == x \notin {"inf", "-inf", "nan"}
SameDims(v, is, w, js) ==
  \A k \in DOMAIN is : KnownDimsEqual(Dims(v)[is[k]], Dims(w)[js[k]])

\* The node of op that writes the i-th input of n, for n alone; 0 when it is
\* something else or when a fusion took it.
OwnedBy(n, i, m, op, ins, accepted) ==
  IF /\ n # 0 /\ Is(m, op, accepted) /\ Arity(m, ins, 1) /\ HasSingleConsumer(In(n)[i])
  THEN m ELSE 0
Link(n, i, op, ins, accepted) == OwnedBy(n, i, At(n, i), op, ins, accepted)

IsMhtaSdpaDataType(v) == DType(v) \in FloatTypes
SameMhtaSdpaDataType(S) == SameTypeIn(S, FloatTypes)
\* The axis of a softmax is the last one.
IsLastAxisSoftmax(n) ==
  /\ Ranked(In(n)[1]) /\ Rank(In(n)[1]) > 0
  /\ AttrOr(n, "axis", -1) \in {-1, Rank(In(n)[1]) - 1}
IsZeroFloatInitializer(v) ==
  IsConst(v) /\ DType(v) \in FloatTypes /\ ToSet(graph.info[v].data) \subseteq {"0"}

\* Q [B,H,S,D], K [B,H,D,S], V and the output [B,H,S,D].
ShapesAreSupported(q, k, v, out) ==
  /\ SameMhtaSdpaDataType({q, k, v, out}) /\ \A x \in {q, k, v, out} : HasRank(x, 4)
  /\ SameDims(q, <<1, 2, 3, 4>>, k, <<1, 2, 4, 3>>) /\ SameDims(q, <<1, 2, 3, 4>>, v, <<1, 2, 3, 4>>)
  /\ SameDims(out, <<1, 2, 3>>, q, <<1, 2, 3>>) /\ SameDims(out, <<4>>, v, <<4>>)

-----------------------------------------------------------------------------
\* TryAppendBshdBoundaryTransposes: the core with the four transposes around
\* it when they are its own, the core alone otherwise.
BshdShapesAreSupported(S) ==
  /\ SameTypeIn(S, {"float16", "bfloat16"})
  /\ \A x \in S : HasRank(x, 4)
BshdBoundary(core, score, value, accepted) ==
  LET q == At(score, 1)
      k == At(score, 2)
      v == At(value, 2)
      out == SingleReader(Out(value)[1])
      Private(n, reader, i) == HasSingleConsumerAt(Out(n)[1], reader, i)
      S == core \cup {q, k, v, out}
      Boundary == {In(q)[1], In(k)[1], In(v)[1], Out(out)[1]}
  IN  IF /\ IsExactTranspose(q, <<0, 2, 1, 3>>) /\ Private(q, score, 1)
         /\ IsExactTranspose(k, <<0, 2, 3, 1>>) /\ Private(k, score, 2)
         /\ IsExactTranspose(v, <<0, 2, 1, 3>>) /\ Private(v, value, 2)
         /\ IsExactTranspose(out, <<0, 2, 1, 3>>) /\ Private(value, out, 1)
         /\ BshdShapesAreSupported(Boundary)
         /\ \A x \in Boundary : SameDims(x, <<1, 2, 3, 4>>, In(q)[1], <<1, 2, 3, 4>>)
         /\ Len(Out(out)) = 1 /\ {q, k, v, out} \cap accepted = {}
         /\ FusionHasNoExternalPathBetweenSelectedNodes(S)
      THEN S ELSE core

\* MatMul, Mul by a scale, Add of zeros, Div by a temperature, Softmax, MatMul.
PlainNodes(value, accepted) ==
  LET softmax == Link(value, 1, "Softmax", 1, accepted)
      div == Link(softmax, 1, "Div", 2, accepted)
      add == Link(div, 1, "Add", 2, accepted)
      mul == Link(add, Side(add, "Mul"), "Mul", 2, accepted)
  IN  [value |-> value, softmax |-> softmax, div |-> div, add |-> add, mul |-> mul,
       score |-> Link(mul, 1, "MatMul", 2, accepted)]

PlainMhta(value, accepted) ==
  LET Match(c) ==
        IF /\ Is(value, "MatMul", accepted) /\ Arity(value, 2, 1)
           /\ c.score # 0 /\ IsLastAxisSoftmax(c.softmax)
           /\ ScalarFloat(In(c.div)[2]) \notin {{}, {"0"}} /\ ScalarFloat(In(c.mul)[2]) # {}
           /\ IsZeroFloatInitializer(In(c.add)[3 - Side(c.add, "Mul")])
           /\ ShapesAreSupported(In(c.score)[1], In(c.score)[2], In(value)[2], Out(value)[1])
        THEN {S \in {BshdBoundary(Range(c), c.score, value, accepted)} :
                FusionHasNoExternalPathBetweenSelectedNodes(S)}
        ELSE {}
  IN  Match(PlainNodes(value, accepted))

-----------------------------------------------------------------------------
\* The boolean form: MatMul, Mul, Where(mask, score, -inf), Softmax,
\* Where(mask, probability, 0), MatMul; the softmax may be cast to float and
\* back, and the mask may come from an int32 mask by Slice, Cast and Equal.
MaskCast(equal) ==
  LET casts == {i \in {1, 2} : CastTo(At(equal, i), "int64")}
  IN  IF Cardinality(casts) # 1 THEN 0
      ELSE LET i == CHOOSE i \in casts : TRUE
           IN  IF ScalarInt(In(equal)[3 - i]) = {1} THEN At(equal, i) ELSE 0

\* TryAppendRawInt32MaskPreprocessing: no candidate when the mask is written by
\* an Equal of any other form.
RawMask(mask, pre, post, accepted) ==
  LET equal == Producer(mask)
      cast == MaskCast(equal)
      slice == At(cast, 1)
      Own(n, reader) == ~Exported(Out(n)[1]) /\ ValueHasOnlyConsumers(Out(n)[1], reader)
  IN  IF ~IsOp(equal, "Equal") THEN {{}}
      ELSE Fuse(/\ Arity(equal, 2, 1) /\ ~Exported(mask) /\ DType(mask) = "bool"
                /\ ReadByBoth(mask, pre, post)
                /\ cast # 0 /\ Arity(cast, 1, 1) /\ Own(cast, equal)
                /\ IsOp(slice, "Slice") /\ Arity(slice, 5, 1) /\ Own(slice, cast)
                /\ DType(In(slice)[1]) = "int32" /\ DType(Out(slice)[1]) = "int32"
                /\ DType(In(slice)[3]) = "int64"
                /\ IntInitializer(In(slice)[2]) = {<<0>>}
                /\ IntInitializer(In(slice)[4]) = {<<3>>}
                /\ IntInitializer(In(slice)[5]) = {<<1>>}
                /\ {slice, cast, equal} \cap accepted = {}, {slice, cast, equal})

BooleanMhta(value, accepted) ==
  LET post == Link(value, 1, "Where", 3, accepted)
      store == Link(post, 2, "Cast", 1, accepted)
      widen == Link(store, 1, "Cast", 1, accepted)
      direct == IsOp(At(post, 2), "Softmax")
      softmax == Link(IF direct THEN post ELSE widen, IF direct THEN 2 ELSE 1,
                      "Softmax", 1, accepted)
      pre == Link(softmax, 1, "Where", 3, accepted)
      scale == Link(pre, 2, "Mul", 2, accepted)
      score == Link(scale, 1, "MatMul", 2, accepted)
      core == {score, scale, pre, softmax, post, value} \cup IF direct THEN {} ELSE {widen, store}
      Bounded(raw) == BshdBoundary(core \cup raw, score, value, accepted)
  IN  IF /\ Is(value, "MatMul", accepted) /\ Arity(value, 2, 1) /\ score # 0
         /\ (direct \/ (CastTo(store, DType(In(post)[2])) /\ CastTo(widen, "float")))
         /\ IsLastAxisSoftmax(softmax)
         /\ In(pre)[1] = In(post)[1] /\ DType(In(pre)[1]) = "bool"
         /\ ScalarFloat(In(post)[3]) = {"0"} /\ ScalarFloat(In(pre)[3]) = {"-inf"}
         /\ \E x \in ScalarFloat(In(scale)[2]) : IsFinite(x)
         /\ ShapesAreSupported(In(score)[1], In(score)[2], In(value)[2], Out(value)[1])
      THEN {S \in {Bounded(raw) : raw \in RawMask(In(pre)[1], pre, post, accepted)} :
              FusionHasNoExternalPathBetweenSelectedNodes(S)}
      ELSE {}

-----------------------------------------------------------------------------
\* The rank-3 form whose mask is built from the length of the scores:
\* Range(0, Shape(score)[2], 1) < Clip(Shape(score)[2] - 1, 1).
FoldedHeadShapesAreSupported(q, k, v, out) ==
  /\ IsFloat(q) /\ SameType({q, k, v, out}) /\ \A x \in {q, k, v, out} : HasRank(x, 3)
  /\ SameDims(q, <<1, 3>>, k, <<1, 2>>) /\ SameDims(q, <<1, 3>>, v, <<1, 3>>)
  /\ SameDims(k, <<3>>, v, <<2>>) /\ SameDims(out, <<1, 2>>, q, <<1, 2>>)
  /\ SameDims(out, <<3>>, v, <<3>>)

LseqNodes(value, accepted) ==
  LET softmax == Link(value, 1, "Softmax", 1, accepted)
      where == Link(softmax, 1, "Where", 3, accepted)
      rows == Link(where, 1, "Unsqueeze", 2, accepted)
      cols == Link(rows, 1, "Unsqueeze", 2, accepted)
      less == Link(cols, 1, "Less", 2, accepted)
      range == Link(less, 1, "Range", 3, accepted)
      clip == At(less, 2)
      sub == Link(clip, 1, "Sub", 2, accepted)
      scale == At(where, 2)
  IN  [value |-> value, softmax |-> softmax, where |-> where, rows |-> rows, cols |-> cols,
       less |-> less, range |-> range, clip |-> clip, sub |-> sub, gather |-> At(sub, 1),
       shape |-> Link(At(sub, 1), 1, "Shape", 1, accepted),
       scale |-> scale, score |-> Link(scale, 1, "MatMul", 2, accepted)]

IsLseq(c, accepted) ==
  /\ 0 \notin Range(c) /\ Range(c) \cap accepted = {}
  /\ IsLastAxisSoftmax(c.softmax)
  /\ DType(In(c.where)[1]) = "bool" /\ ScalarFloat(In(c.where)[3]) = {"-inf"}
  /\ IsOp(c.scale, "Mul") /\ Arity(c.scale, 2, 1)
  /\ \E x \in ScalarFloat(In(c.scale)[2]) : IsFinite(x)
  /\ FoldedHeadShapesAreSupported(In(c.score)[1], In(c.score)[2], In(c.value)[2], Out(c.value)[1])
  /\ ScalarInt(In(c.rows)[2]) = {1} /\ ScalarInt(In(c.cols)[2]) = {0}
  /\ ScalarInt(In(c.range)[1]) = {0} /\ ScalarInt(In(c.range)[3]) = {1}
  /\ IsOp(c.clip, "Clip") /\ Len(In(c.clip)) >= 2 /\ Len(Out(c.clip)) = 1
  /\ HasSingleConsumer(In(c.less)[2]) /\ ScalarInt(In(c.clip)[2]) = {1}
  /\ ScalarInt(In(c.sub)[2]) = {1}
  /\ IsOp(c.gather, "Gather") /\ Arity(c.gather, 2, 1) /\ AttrOr(c.gather, "axis", 0) = 0
  /\ In(c.range)[2] = In(c.sub)[1] /\ ReadByBoth(Out(c.gather)[1], c.sub, c.range)
  /\ ScalarInt(In(c.gather)[2]) = {2}
  /\ In(c.shape)[1] = Out(c.scale)[1] /\ ReadByBoth(Out(c.scale)[1], c.shape, c.where)

\* The bfloat16 boundary of the rank-3 form: each of Q, K and V is widened,
\* K and V are padded with the same zeros, all are transposed, and the output
\* is transposed back and narrowed.  Outputs of the graph are not asked about.
Bf16Nodes(value, score) ==
  LET qT == At(score, 1)
      kT == At(score, 2)
      vT == At(value, 2)
      outT == SingleReader(Out(value)[1])
  IN  [qT |-> qT, kT |-> kT, vT |-> vT, outT |-> outT, q |-> At(qT, 1),
       kPad |-> At(kT, 1), vPad |-> At(vT, 1), k |-> At(At(kT, 1), 1), v |-> At(At(vT, 1), 1),
       out |-> IF outT = 0 THEN 0 ELSE SingleReader(Out(outT)[1])]

IsBf16Boundary(b, value, score) ==
  LET zero == At(b.kPad, 2)
      Stored(n) == In(n)[1]
      IsPad(pad, transpose) ==
        /\ IsOp(pad, "Concat") /\ Arity(pad, 2, 1) /\ AttrIs(pad, "axis", 0)
        /\ At(pad, 2) = zero /\ HasOnlyConsumer(Out(pad)[1], transpose, 1)
  IN  /\ 0 \notin Range(b) \cup {zero}
      /\ IsExactTranspose(b.qT, <<1, 0, 2>>) /\ HasOnlyConsumer(Out(b.qT)[1], score, 1)
      /\ IsExactTranspose(b.kT, <<1, 2, 0>>) /\ HasOnlyConsumer(Out(b.kT)[1], score, 2)
      /\ IsExactTranspose(b.vT, <<1, 0, 2>>) /\ HasOnlyConsumer(Out(b.vT)[1], value, 2)
      /\ IsPad(b.kPad, b.kT) /\ IsPad(b.vPad, b.vT)
      /\ \A n \in {b.q, b.k, b.v} : /\ CastTo(n, "float") /\ Len(In(n)) = 1
                                    /\ DType(Stored(n)) = "bfloat16" /\ HasRank(Stored(n), 3)
      /\ Len(Out(b.q)) = 1
      /\ SameDims(Stored(b.q), <<2, 3>>, Stored(b.k), <<2, 3>>)
      /\ SameDims(Stored(b.q), <<2, 3>>, Stored(b.v), <<2, 3>>)
      /\ SameDims(Stored(b.k), <<1>>, Stored(b.v), <<1>>)
      /\ IsOp(zero, "ConstantOfShape") /\ AttrOr(zero, "value", "zero") = "zero"
      /\ ReadByBoth(Out(zero)[1], b.kPad, b.vPad)
      /\ Readers(Out(value)[1]) = {<<b.outT, 1>>}
      /\ IsExactTranspose(b.outT, <<1, 0, 2>>) /\ Len(Out(b.outT)) = 1
      /\ Readers(Out(b.outT)[1]) = {<<b.out, 1>>}
      /\ CastTo(b.out, "bfloat16") /\ Arity(b.out, 1, 1)
      /\ IsFloat(Stored(b.out)) /\ DType(Out(b.out)[1]) = "bfloat16"

LseqMhta(value, accepted) ==
  LET Match(c) ==
        LET core == Range(c)
            Whole(b) == IF /\ IsBf16Boundary(b, value, c.score) /\ Range(b) \cap accepted = {}
                           /\ FusionHasNoExternalPathBetweenSelectedNodes(core \cup Range(b))
                        THEN core \cup Range(b) ELSE core
        IN  IF /\ Is(value, "MatMul", accepted) /\ Arity(value, 2, 1) /\ IsLseq(c, accepted)
               /\ FusionHasNoExternalPathBetweenSelectedNodes(core)
            THEN {Whole(Bf16Nodes(value, c.score))}
            ELSE {}
  IN  Match(LseqNodes(value, accepted))

-----------------------------------------------------------------------------
\* The single-query form, from its last reshape up to an Einsum.
IsSupportedMhtaSimRank3Equation(e) == e \in {"ilhw,bjhw->bhl", "blhw,bjhw->bhl"}

SimRank3ShapesAreSupported(q, k, v, out) ==
  LET BothRanked(x, y) == Ranked(x) /\ Ranked(y)
  IN  /\ SameMhtaSdpaDataType({q, k, v, out})
      /\ \A x \in {q, k, v} : Ranked(x) => Rank(x) = 4
      /\ Ranked(out) => Rank(out) = 3
      /\ Ranked(q) => KnownDimsEqual(Dims(q)[2], 1)
      /\ BothRanked(q, out) => SameDims(q, <<1, 2>>, out, <<1, 2>>)
      /\ BothRanked(q, k) => SameDims(q, <<3, 4>>, k, <<3, 4>>)
      /\ BothRanked(q, v) => SameDims(q, <<3, 4>>, v, <<2, 4>>)
      /\ BothRanked(k, v) => SameDims(k, <<2>>, v, <<3>>)
      /\ \A h \in Known(q, 3), d \in Known(q, 4), f \in Known(out, 3) : f = h * d

SimRank3Tail(reshape, accepted) ==
  LET value == Link(reshape, 1, "MatMul", 2, accepted)
      unsqueeze == Link(value, 1, "Unsqueeze", 2, accepted)
      softmax == Link(unsqueeze, 1, "Softmax", 1, accepted)
      temper == IF IsOp(At(softmax, 1), "Div") THEN "Div" ELSE "Mul"
  IN  [value |-> value, unsqueeze |-> unsqueeze, softmax |-> softmax,
       temper |-> Link(softmax, 1, temper, 2, accepted)]

\* The first Mul of an Einsum and a constant, looking at the first input first.
SimRank3Scores(add, accepted) ==
  LET IsScale(p) == LET mul == At(add, p[1])
                    IN  /\ IsOp(mul, "Mul") /\ Len(In(mul)) = 2
                        /\ IsOp(At(mul, p[2]), "Einsum") /\ IsConst(In(mul)[3 - p[2]])
      places == SelectSeq(<<<<1, 1>>, <<1, 2>>, <<2, 1>>, <<2, 2>>>>, IsScale)
      Score(scale, j) == {<<scale, n>> : n \in {Link(scale, j, "Einsum", 2, accepted)} \ {0}}
  IN  UNION {Score(Link(add, p[1], "Mul", 2, accepted), p[2]) : p \in {Head(s) : s \in {places} \ {<<>>}}}

SimRank3Mhta(reshape, accepted) ==
  LET Data(temper) == IF IsOp(At(temper, 1), "Add") THEN 1 ELSE IF IsOp(temper, "Mul") THEN 2 ELSE 0
      Match(t, add) ==
        UNION {LET score == c[2] IN
               Fuse(/\ IsConst(In(t.temper)[3 - Data(t.temper)])
                    /\ ScalarInt(In(t.unsqueeze)[2]) = {2} /\ IsLastAxisSoftmax(t.softmax)
                    /\ \E e \in Attr(score, "equation") : IsSupportedMhtaSimRank3Equation(e)
                    /\ SimRank3ShapesAreSupported(In(score)[2], In(score)[1], In(t.value)[2],
                                                  Out(reshape)[1]),
                    Range(t) \cup Range(c) \cup {add, reshape})
               : c \in IF add = 0 THEN {} ELSE SimRank3Scores(add, accepted)}
      AboveTail(t) == Match(t, Link(t.temper, Data(t.temper), "Add", 2, accepted))
  IN  IF Is(reshape, "Reshape", accepted) /\ Arity(reshape, 2, 1)
      THEN AboveTail(SimRank3Tail(reshape, accepted)) ELSE {}

\* The forms are tried in this order.
MhtaScaledDotProductAttention(n, accepted) ==
  LET Or(found, other) == IF found # {} THEN found ELSE other
  IN  Or(BooleanMhta(n, accepted),
         Or(LseqMhta(n, accepted), Or(PlainMhta(n, accepted), SimRank3Mhta(n, accepted))))

-----------------------------------------------------------------------------
\* A Gemm x W' + b of weights that are constant.
IsProjectionGemm(gemm) ==
  /\ IsOp(gemm, "Gemm") /\ Len(In(gemm)) = 3
  /\ AttrOr(gemm, "transA", 0) = 0 /\ AttrIs(gemm, "transB", 1)
  /\ AttrOr(gemm, "alpha", "1") = "1" /\ AttrOr(gemm, "beta", "1") = "1"
  /\ \A i \in {2, 3} : IsFloat(In(gemm)[i]) /\ IsConst(In(gemm)[i])

\* Unsqueeze, Attention, Reshape and Gemm.
QkvAttentionOutputProjection(gemm, accepted) ==
  LET reshape == From(gemm, 1, "Reshape", 1)
      attention == From(reshape, 1, "com.microsoft.Attention", 1)
      unsqueeze == From(attention, 1, "Unsqueeze", 1)
      S == {unsqueeze, attention, reshape, gemm}
      Own(n, reader) == Len(Out(n)) = 1 /\ HasSingleConsumerAt(Out(n)[1], reader, 1)
  IN  Fuse(/\ IsProjectionGemm(gemm) /\ Len(Out(gemm)) = 1 /\ IsFloat(In(gemm)[1])
           /\ reshape # 0 /\ Len(In(reshape)) = 2 /\ Own(reshape, gemm)
           /\ attention # 0 /\ Len(In(attention)) \in {3, 4} /\ Own(attention, reshape)
           /\ \A i \in 1..3 : IsFloat(In(attention)[i])
           /\ \A i \in 2..3 : IsConst(In(attention)[i])
           /\ Len(In(attention)) = 4 => DType(In(attention)[4]) = "int32"
           /\ AttrOr(attention, "unidirectional", 0) = 0
           /\ \E s \in Attr(attention, "qkv_hidden_sizes") : Len(s) = 3 /\ Cardinality(ToSet(s)) = 1
           /\ AttrOr(attention, "num_heads", 0) > 0
           /\ unsqueeze # 0 /\ Len(In(unsqueeze)) = 2 /\ UnsqueezeAxes(unsqueeze) = {<<0>>}
           /\ Own(unsqueeze, attention)
           /\ S \cap accepted = {}
           /\ FusionHasNoExternalPathBetweenSelectedNodes(S), S)

-----------------------------------------------------------------------------
\* MultiKqvMhaOutputProjection: rows of one input are projected by several
\* weights, their Q, K and V are concatenated into one attention, and rows of
\* its output go through several Gemms into one Concat.  Consumers are counted;
\* outputs of the graph are not asked about.
IsSimpleSlice(n) ==
  /\ IsOp(n, "Slice") /\ Arity(n, 5, 1) /\ IsFloat(In(n)[1]) /\ IsFloat(Out(n)[1])
  /\ IsInt(In(n)[2]) /\ IsInt(In(n)[3])
  /\ SmallIntInitializer(In(n)[4]) \subseteq {<<0>>}
  /\ SmallIntInitializer(In(n)[5]) \subseteq {<<1>>}
IsRowConcat(n) == IsOp(n, "Concat") /\ AttrOr(n, "axis", 0) = 0

BranchOf(slice) ==
  LET matmul == SingleReader(Out(slice)[1])
  IN  [slice |-> slice, matmul |-> matmul,
       split |-> IF matmul = 0 THEN 0 ELSE SingleReader(Out(matmul)[1])]
IsProjectionBranch(slice) ==
  /\ IsSimpleSlice(slice)
  /\ LET b == BranchOf(slice)
     IN  /\ IsOp(b.matmul, "MatMul") /\ Arity(b.matmul, 2, 1)
         /\ IsFloat(In(b.matmul)[2]) /\ IsConst(In(b.matmul)[2]) /\ IsFloat(Out(b.matmul)[1])
         /\ IsOp(b.split, "Split") /\ AttrOr(b.split, "axis", 1) \in {1, -1}
         /\ Len(Out(b.split)) = 3
         /\ \A v \in ToSet(Out(b.split)) : IsRowConcat(SingleReader(v))
Branches(source) == {n \in ReaderNodes(source) : IsProjectionBranch(n)}

\* The nodes of the pattern, from the splits of the branches down.
KqvNodes(splits) ==
  LET concat == [k \in 1..3 |-> SingleReader(Out(CHOOSE n \in splits : TRUE)[k])]
      unsqueeze == [k \in 1..3 |-> SingleReader(Out(concat[k])[1])]
      mha == IF unsqueeze[1] = 0 THEN 0 ELSE SingleReader(Out(unsqueeze[1])[1])
  IN  [concat |-> concat, unsqueeze |-> unsqueeze, mha |-> mha,
       gather |-> IF mha = 0 THEN 0 ELSE SingleReader(Out(mha)[1])]

\* The Q, K and V of the branches are concatenated in one order.
IsKqvAttention(p, splits) ==
  /\ \A k \in 1..3 :
       /\ IsRowConcat(p.concat[k]) /\ Len(In(p.concat[k])) = Cardinality(splits)
       /\ ToSet(In(p.concat[k])) = {Out(n)[k] : n \in splits}
       /\ IsOp(p.unsqueeze[k], "Unsqueeze") /\ UnsqueezeAxes(p.unsqueeze[k]) = {<<0>>}
       /\ Readers(Out(p.unsqueeze[k])[1]) = {<<p.mha, k>>}
  /\ IsInjective(p.concat)
  /\ \A i \in 1..Cardinality(splits), k \in 2..3 :
       In(p.concat[k])[i] = Out(At(p.concat[1], i))[k]
  /\ IsOp(p.mha, "com.microsoft.MultiHeadAttention") /\ Len(In(p.mha)) \in {4, 5}
  /\ \A i \in 1..4 : IsFloat(In(p.mha)[i])
  /\ IsConst(In(p.mha)[4]) /\ AttrOr(p.mha, "num_heads", 0) > 0
  /\ Len(In(p.mha)) = 5 => DType(In(p.mha)[5]) = "int32" /\ HasRank(In(p.mha)[5], 3)

\* The slices of the gathered row, each read by a Gemm.
OutputGemms(gather) == {SingleReader(Out(n)[1]) : n \in ReaderNodes(Out(gather)[1])}
OutputConcat(gather) ==
  LET first == CHOOSE r \in ReaderNodes(Out(gather)[1]) : \A n \in ReaderNodes(Out(gather)[1]) : r <= n
  IN  SingleReader(Out(SingleReader(Out(first)[1]))[1])
IsOutputProjection(mha, gather) ==
  LET row == Out(gather)[1]
      concat == OutputConcat(gather)
  IN  /\ Len(Out(mha)) = 1 /\ IsOp(gather, "Gather") /\ Arity(gather, 2, 1)
      /\ AttrOr(gather, "axis", 0) = 0 /\ ScalarInt(In(gather)[2]) = {0}
      /\ Cardinality(Readers(row)) >= 2
      /\ \A r \in Readers(row) : IsSimpleSlice(r[1]) /\ r[2] = 1
      /\ \A n \in OutputGemms(gather) : n # 0 /\ IsProjectionGemm(n) /\ Len(Out(n)) = 1
      /\ IsRowConcat(concat) /\ Len(In(concat)) = Cardinality(Readers(row))
      /\ \A i \in DOMAIN In(concat) :
           /\ IsOp(At(concat, i), "Gemm") /\ Len(In(At(concat, i))) = 3
           /\ IsOp(At(At(concat, i), 1), "Slice") /\ In(At(At(concat, i), 1))[1] = row

MultiKqvMhaOutputProjection(slice, accepted) ==
  LET Projected(branches, p, concat) ==
        LET gemms == {At(concat, i) : i \in DOMAIN In(concat)}
        IN  {S \in {(UNION {Range(b) : b \in branches}) \cup Range(p.concat) \cup Range(p.unsqueeze)
                    \cup {p.mha, p.gather, concat} \cup gemms \cup {At(n, 1) : n \in gemms}} :
               S \cap accepted = {} /\ FusionHasNoExternalPathBetweenSelectedNodes(S)}
      Attended(branches, splits, p) ==
        IF /\ IsKqvAttention(p, splits) /\ p.gather # 0 /\ IsOutputProjection(p.mha, p.gather)
        THEN Projected(branches, p, OutputConcat(p.gather)) ELSE {}
      Branched(branches, splits) ==
        IF Cardinality(branches) >= 2 /\ Cardinality(splits) = Cardinality(branches)
        THEN Attended(branches, splits, KqvNodes(splits)) ELSE {}
      Split(branches) == Branched(branches, {b.split : b \in branches})
  IN  IF Is(slice, "Slice", accepted) /\ IsFloat(In(slice)[1])
      THEN Split({BranchOf(n) : n \in Branches(In(slice)[1])}) ELSE {}

-----------------------------------------------------------------------------
\* GenerateMTGRCustomMask: the 40 nodes that build a boolean attention mask out
\* of the lengths of five inputs, and the four that may crop it and cast it to
\* int32.

IsCastToInt32(n) == IsOp(n, "Cast") /\ Arity(n, 1, 1) /\ AttrIs(n, "to", "int32")

\* The producers of the two inputs of a node, the one of op1 first; <<0, 0>>
\* when they are of other operators.
Pair(n, op1, op2) ==
  IF IsOp(At(n, 1), op1) /\ IsOp(At(n, 2), op2) THEN <<At(n, 1), At(n, 2)>>
  ELSE IF IsOp(At(n, 2), op1) /\ IsOp(At(n, 1), op2) THEN <<At(n, 2), At(n, 1)>>
  ELSE <<0, 0>>
Binary(n, op) == IsOp(n, op) /\ Arity(n, 2, 1) /\ At(n, 1) # 0 /\ At(n, 2) # 0
ProducedBy(n, m, k) == <<At(n, 1), At(n, 2)>> \in {<<m, k>>, <<k, m>>}

-----------------------------------------------------------------------------
\* Iotas: the row or column numbers 0..capacity-1, as [1, capacity, 1] or
\* [1, 1, capacity].  A shape that is both is a row.
IotaDims(row, capacity) == IF row THEN <<1, capacity, 1>> ELSE <<1, 1, capacity>>
IsIotaInitializer(v, row, capacity) ==
  /\ DType(v) = "int64" /\ Ranked(v) /\ Dims(v) = IotaDims(row, capacity)
  /\ IntInitializer(v) = {[i \in 1..capacity |-> i - 1]}
HasRowShape(v) == HasRank(v, 3) /\ Dims(v)[2] > 0 /\ Dims(v) = IotaDims(TRUE, Dims(v)[2])
HasColShape(v) == HasRank(v, 3) /\ Dims(v)[3] > 0 /\ Dims(v) = IotaDims(FALSE, Dims(v)[3])

\* The comparison over the rows and the one over the columns.
OverRows(n) == n # 0 /\ In(n) # <<>> /\ HasRowShape(In(n)[1])
RowCol(n) == IF OverRows(At(n, 1)) THEN <<At(n, 1), At(n, 2)>> ELSE <<At(n, 2), At(n, 1)>>
Compares(n, op, row, capacity, bound) ==
  /\ IsOp(n, op) /\ Arity(n, 2, 1)
  /\ IsIotaInitializer(In(n)[1], row, capacity) /\ At(n, 2) = bound

-----------------------------------------------------------------------------
\* Lengths: the second dimension of an input, and the prefix plus four of them.
IsShapeGather(gather, rank) ==
  /\ IsOp(gather, "Gather") /\ AttrOr(gather, "axis", 0) = 0 /\ Arity(gather, 2, 1)
  /\ ScalarInt(In(gather)[2]) = {1}
  /\ DType(Out(gather)[1]) = "int64" /\ HasRank(Out(gather)[1], 0)
  /\ IsOp(At(gather, 1), "Shape") /\ Arity(At(gather, 1), 1, 1)
  /\ HasRank(In(At(gather, 1))[1], rank)

AddChain(last) ==
  LET a2 == Pair(last, "Add", "Gather")
      a1 == Pair(a2[1], "Add", "Gather")
      a0 == Pair(a1[1], "Add", "Gather")
  IN  [add |-> <<last, a2[1], a1[1], a0[1]>>, gather |-> <<a2[2], a1[2], a0[2], At(a0[1], 1)>>]

IsAddChain(c) ==
  /\ \A i \in 1..4 : IsOp(c.add[i], "Add") /\ Arity(c.add[i], 2, 1)
  /\ \A i \in 1..4 : IsShapeGather(c.gather[i], 3)
  /\ \E prefix \in ScalarInt(In(c.add[4])[2]) : prefix >= 0
  /\ IsInjective([i \in 1..4 |-> In(At(c.gather[i], 1))[1]])

IsLengthReshape(n) ==
  /\ IsOp(n, "Reshape") /\ Arity(n, 2, 1) /\ AttrOr(n, "allowzero", 0) = 0
  /\ SmallIntInitializer(In(n)[2]) = {<<1, 1, 1>>} /\ At(n, 1) # 0

-----------------------------------------------------------------------------
\* The nodes of the mask from its last one, 0 where there is none.
MaskNodes(unsqueeze) ==
  LET and7 == At(unsqueeze, 1)
      top == Pair(and7, "Or", "And")
      second == Pair(top[1], "Or", "And")
      inTarget == Pair(second[2], "And", "Equal")
      ors == Pair(second[1], "And", "And")
      lessU == RowCol(ors[1])
      geU == Pair(ors[2], "GreaterOrEqual", "Less")
      reshapeU == At(lessU[1], 2)
      lessL == RowCol(top[2])
      add9 == At(lessL[1], 2)
      reshapeT == IF At(add9, 1) = reshapeU THEN At(add9, 2) ELSE At(add9, 1)
      ranges == Pair(inTarget[1], "And", "And")
      byRow == ProducedBy(ranges[1], geU[1], lessL[1])
      colRange == IF byRow THEN ranges[2] ELSE ranges[1]
      castFirst == LET sub == At(At(inTarget[2], 1), 1)
                   IN  IF OverRows(sub) THEN 1 ELSE 2
      rowCast == At(inTarget[2], castFirst)
      colCast == At(inTarget[2], 3 - castFirst)
  IN  [unsqueeze |-> unsqueeze, and7 |-> and7, or1 |-> top[1], and6 |-> top[2],
       or0 |-> second[1], and5 |-> second[2], and4 |-> inTarget[1], equal |-> inTarget[2],
       upstream |-> ors[1], target |-> ors[2], rowLessU |-> lessU[1], colLessU |-> lessU[2],
       rowGeU |-> geU[1], reshapeU |-> reshapeU, rowLessL |-> lessL[1],
       colLessL |-> lessL[2], add9 |-> add9, reshapeT |-> reshapeT,
       rowRange |-> IF byRow THEN ranges[1] ELSE ranges[2], colRange |-> colRange,
       colGeU |-> IF IsOp(At(colRange, 1), "GreaterOrEqual") THEN At(colRange, 1)
                  ELSE At(colRange, 2),
       rowCast |-> rowCast, colCast |-> colCast,
       rowSub |-> At(rowCast, 1), colSub |-> At(colCast, 1)]

\* The sum of the upstream lengths and the target's, next to add9's.
TotalLength(uAdd, add9, gather) ==
  LET adds == {n \in ReaderNodes(Out(uAdd)[1]) \ {add9} :
                 IsOp(n, "Add") /\ Len(In(n)) = 2 /\ ProducedBy(n, uAdd, gather)}
  IN  IF adds = {} THEN 0 ELSE CHOOSE n \in adds : TRUE

\* row < u /\ col < u \/ row >= u /\ col < u \/ diagonal of u..l, below l.
\* (In a mask of capacity 1 every iota is a row, and no column is found.)
IsMask(m, capacity) ==
  /\ capacity > 1
  /\ Binary(m.and7, "And") /\ m.or1 # 0 /\ Binary(m.or1, "Or") /\ m.or0 # 0
  /\ Binary(m.and5, "And") /\ m.and4 # 0 /\ Binary(m.or0, "Or") /\ m.upstream # 0
  /\ Len(In(m.upstream)) = 2 /\ At(m.rowLessU, 2) = At(m.colLessU, 2)
  /\ \A row \in BOOLEAN :
       LET lessU == IF row THEN m.rowLessU ELSE m.colLessU
       IN  /\ IsOp(lessU, "Less") /\ Len(In(lessU)) = 2
           /\ IsIotaInitializer(In(lessU)[1], row, capacity)
  /\ IsLengthReshape(m.reshapeU)
  /\ Binary(m.target, "And") /\ Pair(m.target, "GreaterOrEqual", "Less")[2] = m.colLessU
  /\ Compares(m.rowGeU, "GreaterOrEqual", TRUE, capacity, m.reshapeU)
  /\ Binary(m.and6, "And") /\ IsOp(m.add9, "Add")
  /\ \A row \in BOOLEAN :
       LET lessL == IF row THEN m.rowLessL ELSE m.colLessL
       IN  /\ IsOp(lessL, "Less") /\ Len(In(lessL)) = 2 /\ At(lessL, 2) = m.add9
           /\ IsIotaInitializer(In(lessL)[1], row, capacity)
  /\ Binary(m.add9, "Add") /\ IsLengthReshape(m.reshapeT)
  /\ ProducedBy(m.add9, m.reshapeU, m.reshapeT)
  /\ Binary(m.and4, "And") /\ m.rowRange # 0
  /\ Binary(m.rowRange, "And") /\ ProducedBy(m.rowRange, m.rowGeU, m.rowLessL)
  /\ Binary(m.colRange, "And") /\ ProducedBy(m.colRange, m.colGeU, m.colLessL)
  /\ Compares(m.colGeU, "GreaterOrEqual", FALSE, capacity, m.reshapeU)
  /\ Binary(m.equal, "Equal") /\ IsCastToInt32(m.rowCast) /\ IsCastToInt32(m.colCast)
  /\ Compares(m.rowSub, "Sub", TRUE, capacity, m.reshapeU)
  /\ Compares(m.colSub, "Sub", FALSE, capacity, m.reshapeU)

-----------------------------------------------------------------------------
\* MatchCroppedTail: the mask is sliced to the total length along its last two
\* axes, by one slice or by two, and cast.
SlicesMask(slice, data, ends, starts, axes) ==
  /\ IsOp(slice, "Slice") /\ Arity(slice, 5, 1) /\ At(slice, 1) = data /\ In(slice)[3] = ends
  /\ SmallIntInitializer(In(slice)[2]) = {starts} /\ SmallIntInitializer(In(slice)[4]) = {axes}
  /\ SmallIntInitializer(In(slice)[5]) = {[i \in DOMAIN axes |-> 1]}

CroppedTail(mask, total) ==
  LET first == SingleReader(Out(mask)[1])
      length == SingleReader(Out(total)[1])
      vector == Out(length)[1]
      second == SingleReader(Out(first)[1])
      concat == At(first, 3)
      ByTwoSlices ==
        /\ In(first)[3] = vector /\ SlicesMask(first, mask, vector, <<0>>, <<2>>)
        /\ second # 0 /\ Readers(Out(first)[1]) = {<<second, 1>>}
        /\ SlicesMask(second, first, vector, <<0>>, <<3>>)
        /\ Readers(vector) = {<<first, 3>>, <<second, 3>>}
      ByOneSlice ==
        /\ IsOp(concat, "Concat") /\ AttrIs(concat, "axis", 0)
        /\ In(concat) = <<vector, vector>> /\ Len(Out(concat)) = 1
        /\ HasOnlyConsumer(Out(concat)[1], first, 3)
        /\ SlicesMask(first, mask, Out(concat)[1], <<0, 0>>, <<2, 3>>)
        /\ Readers(vector) = {<<concat, 1>>, <<concat, 2>>}
      Final(slice) ==
        LET cast == SingleReader(Out(slice)[1])
        IN  IF /\ IsCastToInt32(cast) /\ DType(Out(cast)[1]) = "int32"
               /\ HasSingleConsumerAt(Out(slice)[1], cast, 1)
            THEN cast ELSE 0
      Crop(slices, last) ==
        IF Final(last) # 0 THEN [nodes |-> slices \cup {length, Final(last)}, mask |-> Final(last)]
        ELSE [nodes |-> {}, mask |-> mask]
  IN  IF /\ first # 0 /\ HasSingleConsumerAt(Out(mask)[1], first, 1)
         /\ IsOp(length, "Unsqueeze") /\ HasSingleConsumerAt(Out(total)[1], length, 1)
         /\ Arity(length, 2, 1) /\ UnsqueezeAxes(length) = {<<0>>} /\ DType(vector) = "int64"
         /\ Len(In(first)) = 5
      THEN IF ByTwoSlices THEN Crop({first, second}, second)
           ELSE IF In(first)[3] # vector /\ ByOneSlice THEN Crop({first, concat}, first)
           ELSE [nodes |-> {}, mask |-> mask]
      ELSE [nodes |-> {}, mask |-> mask]

\* ValidateInternalConsumers: what a node that is not at the boundary computes
\* stays among the selected nodes.
StaysInside(S, boundary) ==
  \A n \in S \ boundary : \A v \in ToSet(Out(n)) : ~Exported(v) /\ ReaderNodes(v) \subseteq S

GenerateMTGRCustomMask(unsqueeze, accepted) ==
  LET Whole(m, chain, target, total, tail) ==
        LET gathers == Range(chain.gather) \cup {target}
            cropped == tail.nodes # {}
        IN  {S \in {Range(m) \cup Range(chain.add) \cup gathers \cup {At(g, 1) : g \in gathers}
                    \cup {total} \cup tail.nodes} :
               /\ S \cap accepted = {} /\ Cardinality(S) = IF cropped THEN 44 ELSE 40
               /\ StaysInside(S, {target} \cup IF cropped THEN {tail.mask} ELSE {total, unsqueeze})
               /\ FusionHasNoExternalPathBetweenSelectedNodes(S)}
      Lengths(m, chain, target, total) ==
        IF IsAddChain(chain) /\ IsShapeGather(target, 2) /\ total # 0
        THEN Whole(m, chain, target, total, CroppedTail(unsqueeze, total)) ELSE {}
      Mask(m, uAdd, target) ==
        IF OverRows(m.rowGeU) /\ IsMask(m, Dims(In(m.rowGeU)[1])[2])
        THEN Lengths(m, AddChain(uAdd), target, TotalLength(uAdd, m.add9, target)) ELSE {}
      Nodes(m) == Mask(m, At(m.reshapeU, 1), At(m.reshapeT, 1))
  IN  IF /\ Is(unsqueeze, "Unsqueeze", accepted) /\ Arity(unsqueeze, 2, 1)
         /\ UnsqueezeAxes(unsqueeze) = {<<1>>} /\ DType(Out(unsqueeze)[1]) = "bool"
      THEN Nodes(MaskNodes(unsqueeze)) ELSE {}
=============================================================================
