---------------------------- MODULE FusionsNorm ----------------------------
(***************************************************************************)
(* The matchers of the fusions of normalisations, reductions and chains of *)
(* elementwise operators: RmsNorm, CastRmsNorm, CenteredReduce,            *)
(* SegmentMaxBroadcast, MathConcatLog and RecRankCalibration.              *)
(*                                                                         *)
(* As in FusionsLayout, each operator gives the candidate rooted at a node.*)
(***************************************************************************)
EXTENDS FusionGraph

CONSTANT DisableSegmentMax   \* ORT_MUSA_DISABLE_SEGMENT_MAX_BROADCAST_FUSION is set
ASSUME DisableSegmentMaxAssumption == DisableSegmentMax \in BOOLEAN

\* What one node computes for another node of the fusion alone.
Internal(n, reader, type) ==
  /\ Len(Out(n)) = 1 /\ ~Exported(Out(n)[1]) /\ DType(Out(n)[1]) = type
  /\ SingleReader(Out(n)[1]) = reader

KeepsDims(n) == AttrOr(n, "keepdims", 1) = 1
LastAxis(n, rank) ==
  \E s \in (IF Len(In(n)) >= 2 THEN SmallIntInitializer(In(n)[2]) ELSE Attr(n, "axes")) :
    Len(s) = 1 /\ NormalizeAxis(s[1], rank) = rank - 1

-----------------------------------------------------------------------------
\* sqrt(mean(x * x) + epsilon), the second operand of a Div.
RmsMean(div) ==
  LET sqrt == At(div, 2)
      add == At(sqrt, 1)
      reduce == Via(add, "ReduceMean")
  IN  [sqrt |-> sqrt, add |-> add, reduce |-> reduce, square |-> At(reduce, 1)]

IsRmsMean(div, x, dims, type) ==
  LET m == RmsMean(div)
      epsilon == In(m.add)[3 - Side(m.add, "ReduceMean")]
      square == m.square
  IN  /\ IsOp(m.sqrt, "Sqrt") /\ Len(In(m.sqrt)) = 1 /\ Internal(m.sqrt, div, type)
      /\ IsOp(m.add, "Add") /\ Len(In(m.add)) = 2 /\ Internal(m.add, m.sqrt, type)
      /\ IsOp(m.reduce, "ReduceMean")
      /\ DType(epsilon) = type /\ ScalarFloat(epsilon) # {}
      /\ In(m.reduce) # <<>> /\ KeepsDims(m.reduce) /\ Internal(m.reduce, m.add, type)
      /\ ReduceOutputKeepsLastDim(Out(m.reduce)[1], dims)
      /\ LastAxis(m.reduce, Len(dims))
      /\ Op(square) \in {"Mul", "Pow"} /\ Len(In(square)) = 2
      /\ Internal(square, m.reduce, type)
      /\ In(square)[1] = x
      /\ IF IsOp(square, "Mul") THEN In(square)[2] = x
         ELSE ScalarFloat(In(square)[2]) = {"2"}

\* gamma scales the last dimension of an input of rank two or more.
GammaFits(gamma, x, y) ==
  /\ HasRank(gamma, 1) /\ Dims(gamma)[1] > 0
  /\ Ranked(x) /\ Rank(x) >= 2 /\ Last(Dims(x)) \in {Dims(gamma)[1]} \cup (-1..0)
  /\ Ranked(y) => Rank(y) = Rank(x) /\ Last(Dims(y)) = Dims(gamma)[1]

RmsNorm(mul, accepted) ==
  LET side == Side(mul, "Div")
      div == At(mul, side)
      gamma == In(mul)[3 - side]
      x == In(div)[1]
      type == DType(gamma)
      S == Range(RmsMean(div)) \cup {div, mul}
  IN  Fuse(/\ IsOp(mul, "Mul") /\ Arity(mul, 2, 1) /\ side # 0
           /\ type \in FloatTypes /\ DType(Out(mul)[1]) = type
           /\ Arity(div, 2, 1) /\ ~Exported(Out(div)[1])
           /\ DType(x) = type /\ DType(Out(div)[1]) = type
           /\ ValueHasOnlyConsumers(Out(div)[1], mul)
           /\ GammaFits(gamma, x, Out(mul)[1])
           /\ IsRmsMean(div, x, Dims(x), type)
           /\ S \cap accepted = {}
           /\ FusionHasNoExternalPathBetweenSelectedNodes(S), S)

\* The same in float between a Cast from and a Cast to bfloat16.  The input
\* Cast has two consumers, so a square that is a Mul of it never fits.
CastRmsNorm(mul, accepted) ==
  LET IsBf16Cast(n) == IsOp(n, "Cast") /\ AttrIs(n, "to", "bfloat16")
      side == IF IsBf16Cast(At(mul, 1)) THEN 1
              ELSE IF IsBf16Cast(At(mul, 2)) THEN 2 ELSE 0
      outputCast == At(mul, side)
      gamma == In(mul)[3 - side]
      div == At(outputCast, 1)
      inputCast == At(div, 1)
      x == Out(inputCast)[1]
      square == RmsMean(div).square
      S == Range(RmsMean(div)) \cup {inputCast, div, outputCast, mul}
  IN  Fuse(/\ IsOp(mul, "Mul") /\ Arity(mul, 2, 1) /\ side # 0
           /\ DType(gamma) = "bfloat16" /\ DType(Out(mul)[1]) = "bfloat16"
           /\ Len(In(outputCast)) = 1 /\ DType(In(outputCast)[1]) = "float"
           /\ Internal(outputCast, mul, "bfloat16")
           /\ IsOp(div, "Div") /\ Len(In(div)) = 2 /\ Internal(div, outputCast, "float")
           /\ IsOp(inputCast, "Cast") /\ AttrIs(inputCast, "to", "float")
           /\ Arity(inputCast, 1, 1) /\ ~Exported(x)
           /\ DType(In(inputCast)[1]) = "bfloat16" /\ DType(x) = "float"
           /\ GammaFits(gamma, In(inputCast)[1], Out(mul)[1])
           /\ IsRmsMean(div, x, Dims(In(inputCast)[1]), "float")
           /\ Cardinality(Readers(x)) = 2 /\ ReaderNodes(x) \subseteq {square, div}
           /\ S \cap accepted = {}
           /\ FusionHasNoExternalPathBetweenSelectedNodes(S), S)

-----------------------------------------------------------------------------
\* sum((x - sum(x))^2) over the last dimension, for sums or products.  The first
\* reduction is read outside of the fusion as well.
IsReduceSumOrProd(n) == Op(n) \in {"ReduceSum", "ReduceProd"}
LastDimReduce(n, dims) ==
  /\ IsReduceSumOrProd(n) /\ KeepsDims(n) /\ Len(In(n)) >= 2 /\ Len(Out(n)) = 1
  /\ IsFloat(Out(n)[1]) /\ ReduceAxesAreLastDim(n, Len(dims))
  /\ ReduceOutputKeepsLastDim(Out(n)[1], dims)

CenteredReduce(first, accepted) ==
  LET x == In(first)[1]
      Reader(v, Holds(_, _)) ==
        LET found == {r[1] : r \in {s \in Readers(v) : Holds(s[1], s[2])}}
        IN  IF found = {} THEN 0 ELSE Min(found)
      sub == Reader(Out(first)[1], LAMBDA n, i : i = 2 /\ IsOp(n, "Sub"))
      mul == Reader(Out(sub)[1], LAMBDA n, i : IsOp(n, "Mul"))
      second == Reader(Out(mul)[1], LAMBDA n, i : i = 1 /\ IsReduceSumOrProd(n))
      S == {first, sub, mul, second}
  IN  Fuse(/\ IsReduceSumOrProd(first) /\ Len(In(first)) >= 2
           /\ IsFloat(x) /\ Ranked(x) /\ Rank(x) >= 2 /\ Last(Dims(x)) > 0
           /\ LastDimReduce(first, Dims(x))
           /\ sub # 0 /\ ValueHasExternalConsumerOrGraphOutput(Out(first)[1], sub)
           /\ In(sub) = <<x, Out(first)[1]>> /\ Len(Out(sub)) = 1
           /\ ~Exported(Out(sub)[1]) /\ IsFloat(Out(sub)[1])
           /\ mul # 0 /\ ValueHasOnlyConsumers(Out(sub)[1], mul)
           /\ In(mul) = <<Out(sub)[1], Out(sub)[1]>> /\ Len(Out(mul)) = 1
           /\ ~Exported(Out(mul)[1]) /\ IsFloat(Out(mul)[1])
           /\ second # 0 /\ ValueHasOnlyConsumers(Out(mul)[1], second)
           /\ LastDimReduce(second, Dims(x))
           /\ S \cap accepted = {}
           /\ FusionHasNoExternalPathBetweenSelectedNodes(S), S)

-----------------------------------------------------------------------------
\* The nodes of SegmentMaxBroadcast: values scattered by segment, reduced to the
\* maximum of each segment and gathered back for each element.
SegmentMaxNodes(final) ==
  LET finalReduce == From(final, 1, "ReduceMax", 1)
      valueGather == From(finalReduce, 1, "Gather", 1)
      scatter == From(valueGather, 2, "ScatterND", 1)
      fill == From(scatter, 1, "ConstantOfShape", 1)
      indexConcat == From(scatter, 2, "Concat", 1)
      topk == From(scatter, 3, "TopK", 2)
      shapeConcat == From(fill, 1, "Concat", 1)
      modUnsqueeze == From(indexConcat, 2, "Unsqueeze", 1)
      sizeUnsqueeze == From(shapeConcat, 1, "Unsqueeze", 1)
      mod == From(modUnsqueeze, 1, "Mod", 1)
      sizeCast64 == From(sizeUnsqueeze, 1, "Cast", 1)
      range == From(mod, 1, "Range", 1)
      countGather == From(mod, 2, "Gather", 1)
      sizeSqueeze == From(sizeCast64, 1, "Squeeze", 1)
      sizeSlice == From(sizeSqueeze, 1, "Slice", 1)
      sizeCast32 == From(sizeSlice, 1, "Cast", 1)
      idSqueeze == From(range, 2, "Squeeze", 1)
      indexCast64 == From(topk, 1, "Cast", 1)
      indexCast32 == From(indexCast64, 1, "Cast", 1)
  IN  [final |-> final, finalReduce |-> finalReduce, valueGather |-> valueGather,
       scatter |-> scatter, fill |-> fill, indexConcat |-> indexConcat,
       topk |-> topk, shapeConcat |-> shapeConcat,
       topkUnsqueeze |-> From(indexConcat, 1, "Unsqueeze", 1),
       modUnsqueeze |-> modUnsqueeze, sizeUnsqueeze |-> sizeUnsqueeze,
       countReduce |-> From(shapeConcat, 2, "ReduceMax", 1), mod |-> mod,
       sizeCast64 |-> sizeCast64, range |-> range, countGather |-> countGather,
       sizeSqueeze |-> sizeSqueeze, sizeSlice |-> sizeSlice, sizeCast32 |-> sizeCast32,
       firstShape |-> From(sizeCast32, 1, "Shape", 1), idSqueeze |-> idSqueeze,
       second |-> From(countGather, 1, "Unique", 4), idShape |-> From(idSqueeze, 1, "Shape", 1),
       indexCast64 |-> indexCast64, indexCast32 |-> indexCast32,
       first |-> From(indexCast32, 1, "Unique", 3)]

HasNoEscapingInternalOutputs(S, final) ==
  \A v \in UNION {ToSet(Out(n)) : n \in S \ {final}} :
    v # Missing => ~Exported(v) /\ ReaderNodes(v) \subseteq S

\* The index of the final Gather is the output of some Cast: that it is the Cast
\* the segments are counted from is not compared.
SegmentMaxBroadcast(final, accepted) ==
  LET Match(s) ==
        LET S == Range(s)
            Ints(n, i, x) == SmallIntInitializer(In(n)[i]) = {x}
            Reads(n, i, p, k) == k \in DOMAIN Out(p) /\ At(n, i) = p /\ In(n)[i] = Out(p)[k]
        IN  Fuse(/\ ~DisableSegmentMax /\ IsOp(final, "Gather") /\ 0 \notin S
                 /\ From(final, 2, "Cast", 1) # 0
                 /\ \A n \in {final, s.finalReduce, s.valueGather, s.indexConcat, s.shapeConcat,
                               s.topkUnsqueeze, s.modUnsqueeze, s.sizeUnsqueeze, s.countReduce,
                               s.mod, s.countGather, s.sizeSqueeze, s.idSqueeze, s.topk} :
                      Len(In(n)) = 2
                 /\ \A n \in {s.fill, s.sizeCast64, s.sizeCast32, s.firstShape, s.second,
                               s.idShape, s.indexCast64, s.indexCast32, s.first} : Len(In(n)) = 1
                 /\ Len(In(s.scatter)) = 3 /\ Len(In(s.range)) = 3 /\ Len(In(s.sizeSlice)) = 4
                 /\ \A n \in {final, s.valueGather, s.shapeConcat, s.countGather} :
                      AttrOr(n, "axis", 0) = 0
                 /\ AttrIs(s.indexConcat, "axis", 1)
                 /\ AttrIs(s.topk, "axis", 0) /\ AttrIs(s.second, "axis", 0)
                 /\ AttrIs(s.finalReduce, "keepdims", 0) /\ KeepsDims(s.countReduce)
                 /\ AttrIs(s.topk, "largest", 0) /\ AttrOr(s.topk, "sorted", 1) = 1
                 /\ AttrOr(s.second, "sorted", 1) = 1 /\ AttrIs(s.first, "sorted", 0)
                 /\ AttrIs(s.sizeCast64, "to", "int64") /\ AttrIs(s.indexCast64, "to", "int64")
                 /\ AttrIs(s.sizeCast32, "to", "int32") /\ AttrIs(s.indexCast32, "to", "int32")
                 /\ Ints(s.finalReduce, 2, <<1>>)
                 /\ Ints(s.topkUnsqueeze, 2, <<-1>>) /\ Ints(s.modUnsqueeze, 2, <<-1>>)
                 /\ \A n \in {s.sizeUnsqueeze, s.countReduce, s.sizeSqueeze, s.idSqueeze} :
                      Ints(n, 2, <<0>>)
                 /\ Ints(s.range, 1, <<0>>) /\ Ints(s.range, 3, <<1>>)
                 /\ Ints(s.sizeSlice, 2, <<0>>) /\ Ints(s.sizeSlice, 3, <<1>>)
                 /\ Ints(s.sizeSlice, 4, <<0>>)
                 /\ Reads(s.topkUnsqueeze, 1, s.topk, 1) /\ Reads(s.second, 1, s.topk, 1)
                 /\ Reads(s.countGather, 2, s.second, 3) /\ Reads(s.countReduce, 1, s.second, 4)
                 /\ Reads(s.idShape, 1, s.indexCast64, 1) /\ Reads(s.topk, 1, s.indexCast64, 1)
                 /\ Reads(s.topk, 2, s.idShape, 1) /\ Reads(s.firstShape, 1, s.first, 1)
                 /\ DType(In(s.first)[1]) = "int64"
                 /\ IsFloat(In(s.valueGather)[1]) /\ IsFloat(Out(final)[1])
                 /\ S \cap accepted = {}
                 /\ HasNoEscapingInternalOutputs(S, final), S)
  IN  Match(SegmentMaxNodes(final))

-----------------------------------------------------------------------------
\* log(max(x, constant) + constant) * constant.  Of two inputs, one is computed
\* by the operator and the other one is constant.
WithConstant(n, op, accepted) ==
  \E i \in 1..2 : /\ ~IsConst(In(n)[i]) /\ Is(At(n, i), op, accepted)
                  /\ IsConst(In(n)[3 - i])

MathConcatLog(mul, accepted) ==
  LET log == Via(mul, "Log")
      add == At(log, 1)
      max == Via(add, "Max")
      S == {max, add, log, mul}
  IN  Fuse(/\ Is(mul, "Mul", accepted) /\ Arity(mul, 2, 1) /\ IsFloat(Out(mul)[1])
           /\ WithConstant(mul, "Log", accepted)
           /\ Arity(log, 1, 1) /\ ~Exported(Out(log)[1]) /\ IsFloat(Out(log)[1])
           /\ ValueHasOnlyConsumers(Out(log)[1], mul)
           /\ Is(add, "Add", accepted) /\ Len(In(add)) = 2 /\ Internal(add, log, "float")
           /\ WithConstant(add, "Max", accepted)
           /\ Len(In(max)) = 2 /\ Internal(max, add, "float")
           /\ \E i \in 1..2 :
                /\ ~IsConst(In(max)[i]) /\ IsConst(In(max)[3 - i]) /\ IsFloat(In(max)[i])
                /\ Ranked(In(max)[i]) /\ Ranked(Out(mul)[1]) =>
                     ShapesEqualOnKnownDims(Dims(In(max)[i]), Dims(Out(mul)[1]))
           /\ FusionHasNoExternalPathBetweenSelectedNodes(S), S)

-----------------------------------------------------------------------------
\* The bucket counts of the model, and their reciprocals.
Whole == [x \in {"2", "4"} |-> IF x = "2" THEN 2 ELSE 4]
Reciprocal == [x \in {"2", "4"} |-> IF x = "2" THEN "0.5" ELSE "0.25"]

ShapesMatchCalibrationBoundary(relu, scores, tile, out, bucket) ==
  LET outer(v) == SubSeq(Dims(v), 1, Rank(v) - 1)
      SameOuter(v, w) == ShapesEqualOnKnownDims(outer(v), outer(w))
  IN  /\ Ranked(relu) /\ Ranked(scores) /\ Ranked(out) /\ Rank(relu) >= 2
      /\ Rank(scores) = Rank(relu) /\ Rank(out) = Rank(relu)
      /\ Last(Dims(relu)) = bucket /\ Last(Dims(scores)) = 1 /\ Last(Dims(out)) = 1
      /\ SameOuter(relu, scores) /\ SameOuter(relu, out)
      /\ Ranked(tile) => /\ Rank(tile) = Rank(relu) /\ SameOuter(tile, relu)
                         /\ KnownDimsEqual(Last(Dims(tile)), bucket)

\* The nodes that turn scores into interpolated bucket masks and their mean.
RecRankNodes(log) ==
  LET div == At(log, 1)
      side == IF IsOp(At(At(div, 1), 1), "Cast") THEN 1 ELSE 2
      probability == At(div, side)
      complement == At(div, 3 - side)
      cast == At(probability, 1)
      reduce == At(cast, 1)
      normalized == At(reduce, 1)
      weighted == At(normalized, 1)
      mask == At(weighted, 2)
      lessCast == At(mask, 1)
      fraction == At(mask, 2)
      equalCast == At(fraction, 1)
      less == At(lessCast, 1)
      floor == At(less, 2)
  IN  [log |-> log, div |-> div, probability |-> probability, complement |-> complement,
       complementSub |-> At(complement, 1), cast |-> cast, reduce |-> reduce,
       normalized |-> normalized, weighted |-> weighted, mask |-> mask,
       lessCast |-> lessCast, fraction |-> fraction, equalCast |-> equalCast,
       fractionSub |-> At(fraction, 2), less |-> less, equal |-> At(equalCast, 1),
       floor |-> floor, scaled |-> At(floor, 1)]

\* The operator of each and its number of inputs.
RecRankOps == [log |-> <<"Log", 1>>, div |-> <<"Div", 2>>, probability |-> <<"Clip", 3>>,
  complement |-> <<"Clip", 3>>, complementSub |-> <<"Sub", 2>>, cast |-> <<"Cast", 1>>,
  reduce |-> <<"ReduceSum", 2>>, normalized |-> <<"Mul", 2>>, weighted |-> <<"Mul", 2>>,
  mask |-> <<"Add", 2>>, lessCast |-> <<"Cast", 1>>, fraction |-> <<"Mul", 2>>,
  equalCast |-> <<"Cast", 1>>, fractionSub |-> <<"Sub", 2>>, less |-> <<"Less", 2>>,
  equal |-> <<"Equal", 2>>, floor |-> <<"Floor", 1>>, scaled |-> <<"Mul", 2>>]

\* Who reads what each of them computes: node and input position.
RecRankReaders(r) ==
  LET y == [k \in DOMAIN r |-> Out(r[k])[1]]
      clipped == In(r.complementSub)[2] = y.probability
      first(v) == IF In(r.div)[1] = v THEN 1 ELSE 2
  IN  [scaled |-> {<<r.floor, 1>>, <<r.fractionSub, 1>>},
       floor |-> {<<r.less, 2>>, <<r.equal, 2>>, <<r.fractionSub, 2>>},
       less |-> {<<r.lessCast, 1>>}, equal |-> {<<r.equalCast, 1>>},
       lessCast |-> {<<r.mask, 1>>}, equalCast |-> {<<r.fraction, 1>>},
       fractionSub |-> {<<r.fraction, 2>>}, fraction |-> {<<r.mask, 2>>},
       mask |-> {<<r.weighted, 2>>}, weighted |-> {<<r.normalized, 1>>},
       normalized |-> {<<r.reduce, 1>>}, reduce |-> {<<r.cast, 1>>},
       cast |-> {<<r.probability, 1>>} \cup (IF clipped THEN {} ELSE {<<r.complementSub, 2>>}),
       probability |-> {<<r.div, first(y.probability)>>}
                       \cup (IF clipped THEN {<<r.complementSub, 2>>} ELSE {}),
       complementSub |-> {<<r.complement, 1>>},
       complement |-> {<<r.div, first(y.complement)>>}, div |-> {<<r.log, 1>>}]

RecRankCalibration(log, accepted) ==
  LET Match(r) ==
        LET readers == RecRankReaders(r)
            double(v) == DType(v) = "double"
            FloatBound(v, x) == IsFloat(v) /\ ScalarFloat(v) = {x}
            relu == In(r.weighted)[1]
            inverse == In(r.normalized)[2]
        IN  Fuse(/\ IsOp(log, "Log") /\ \A k \in DOMAIN r : r[k] # 0
                 /\ \A k \in DOMAIN r : IsOp(r[k], RecRankOps[k][1]) /\ Arity(r[k], RecRankOps[k][2], 1)
                 /\ \A n \in {r.log, r.div, r.probability, r.complement, r.complementSub} :
                      IsFloat(Out(n)[1])
                 /\ FloatBound(In(r.probability)[2], "1e-16") /\ FloatBound(In(r.probability)[3], "1")
                 /\ In(r.complement)[2] = In(r.probability)[2]
                 /\ In(r.complement)[3] = In(r.probability)[3]
                 /\ In(r.complementSub)[1] = In(r.probability)[3]
                 /\ In(r.complementSub)[2] \in {Out(r.probability)[1], Out(r.cast)[1]}
                 /\ AttrIs(r.cast, "to", "float")
                 /\ AttrIs(r.lessCast, "to", "double") /\ AttrIs(r.equalCast, "to", "double")
                 /\ KeepsDims(r.reduce) /\ SmallIntInitializer(In(r.reduce)[2]) = {<<-1>>}
                 /\ double(Out(r.reduce)[1]) /\ double(inverse) /\ double(relu)
                 /\ ~IsOp(Producer(relu), "Add")
                 /\ In(r.equal) = <<In(r.less)[1], Out(r.floor)[1]>>
                 /\ In(r.fractionSub) = <<In(r.floor)[1], Out(r.floor)[1]>>
                 /\ double(In(r.less)[1])
                 /\ \E i \in 1..2 : LET scores == In(r.scaled)[i] bucket == In(r.scaled)[3 - i] IN
                      /\ ~IsConst(scores) /\ double(scores) /\ double(bucket)
                      /\ \E b \in ScalarFloat(bucket) \cap DOMAIN Whole :
                           /\ ScalarFloat(inverse) = {Reciprocal[b]}
                           /\ ShapesMatchCalibrationBoundary(relu, scores, In(r.less)[1],
                                                             Out(log)[1], Whole[b])
                 /\ \A k \in DOMAIN readers : /\ ~Exported(Out(r[k])[1])
                                              /\ Readers(Out(r[k])[1]) = readers[k]
                 /\ Range(r) \cap accepted = {} /\ Cardinality(Range(r)) = 18
                 /\ FusionHasNoExternalPathBetweenSelectedNodes(Range(r)), Range(r))
  IN  Match(RecRankNodes(log))
=============================================================================
