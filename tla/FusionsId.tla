----------------------------- MODULE FusionsId -----------------------------
(***************************************************************************)
(* The matchers of the fusions of identifier and bucket arithmetic:        *)
(* ModuloGather, BucketizeGather, LogBucketizeGather, MaskedEmbedding-     *)
(* Lookup, SparseIdToMask, ReplaceInvalidId and TargetIdCountEmbedding.    *)
(***************************************************************************)
EXTENDS FusionGraph

Payload == {"float", "float16", "bfloat16"}
SamePayload(v, w) == DType(v) \in Payload /\ DType(w) = DType(v)

\* The one output of a node is read by one other node and by nobody else.
Sole(n, reader) == /\ Len(Out(n)) = 1 /\ ~Exported(Out(n)[1])
                   /\ ReaderNodes(Out(n)[1]) = {reader}
SoleInt(n, reader) == Sole(n, reader) /\ IsInt(Out(n)[1])
\* The same, read once.
Once(n, reader) == Sole(n, reader) /\ Cardinality(Readers(Out(n)[1])) = 1
\* The other of two inputs, when such a node writes one of them.
Beside(n, op) == IF Side(n, op) = 0 THEN Missing ELSE In(n)[3 - Side(n, op)]

-----------------------------------------------------------------------------
\* (x - x / m * m + offset) * mask: the row of a hashed embedding table.
HashNodes(mul) ==
  LET add == Via(mul, "Add")
      sub == Via(add, "Sub")
      product == At(sub, 2)
  IN  [mul |-> mul, mask |-> Via(mul, "Cast"), add |-> add, sub |-> sub,
       product |-> product, div |-> Via(product, "Div")]

IsHash(mul, gather) ==
  LET Match(h) ==
        LET x == In(h.sub)[1]
            modulus == Beside(h.product, "Div")
            table == In(gather)[1]
        IN  /\ IsOp(mul, "Mul") /\ Len(In(mul)) = 2 /\ SoleInt(mul, gather) /\ Once(mul, gather)
            /\ h.add # 0 /\ Len(In(h.add)) = 2 /\ SoleInt(h.add, mul)
            /\ h.sub # 0 /\ Len(In(h.sub)) = 2 /\ SoleInt(h.sub, h.add)
            /\ IsOp(h.product, "Mul") /\ Len(In(h.product)) = 2 /\ SoleInt(h.product, h.sub)
            /\ h.div # 0 /\ In(h.div) = <<x, modulus>> /\ SoleInt(h.div, h.product)
            /\ h.mask # 0 /\ Len(In(h.mask)) = 1 /\ SoleInt(h.mask, mul)
            /\ Ranked(table) /\ Dims(table) # <<>> /\ Dims(table)[1] > 0
            /\ \E m \in ScalarInt(modulus), offset \in ScalarInt(Beside(h.add, "Sub")) :
                 m > 0 /\ offset >= 0 /\ offset + m <= Dims(table)[1]
  IN  Match(HashNodes(mul))

\* A gather of the rows where x is not the invalid identifier.
ModuloGather(gather, accepted) ==
  LET Match(h) ==
        LET x == In(h.sub)[1]
            not == At(h.mask, 1)
            equal == At(not, 1)
            S == Range(h) \cup {not, equal, gather}
        IN  Fuse(/\ IsOp(gather, "Gather") /\ AttrOr(gather, "axis", 0) = 0 /\ Arity(gather, 2, 1)
                 /\ SamePayload(In(gather)[1], Out(gather)[1])
                 /\ IsHash(h.mul, gather)
                 /\ IsOp(not, "Not") /\ Len(In(not)) = 1 /\ Sole(not, h.mask)
                 /\ IsOp(equal, "Equal") /\ Len(In(equal)) = 2 /\ Sole(equal, not)
                 /\ x \in Range(In(equal))
                 /\ LET invalid == IF In(equal)[1] = x THEN In(equal)[2] ELSE In(equal)[1]
                    IN  ScalarInt(invalid) # {}
                 /\ S \cap accepted = {}
                 /\ FusionHasNoExternalPathBetweenSelectedNodes(S), S)
  IN  Match(HashNodes(At(gather, 2)))

\* A squeezed gather of the rows where x is above a threshold.
BucketizeGather(squeeze, accepted) ==
  LET Match(h) ==
        LET gather == At(squeeze, 1)
            greater == At(h.mask, 1)
            source == Via(greater, "Cast")
            S == Range(h) \cup {greater, source, gather, squeeze}
        IN  Fuse(/\ IsOp(squeeze, "Squeeze") /\ Arity(squeeze, 2, 1)
                 /\ IsOp(gather, "Gather") /\ AttrOr(gather, "axis", 0) = 0
                 /\ Len(In(gather)) = 2 /\ Once(gather, squeeze)
                 /\ SamePayload(In(gather)[1], Out(gather)[1])
                 /\ SamePayload(Out(gather)[1], Out(squeeze)[1])
                 /\ Ranked(Out(gather)[1])
                 /\ \E s \in SmallIntInitializer(In(squeeze)[2]) :
                      LET axis == NormalizeAxis(s[1], Rank(Out(gather)[1]))
                      IN  Len(s) = 1 /\ axis >= 0 /\ Dims(Out(gather)[1])[axis + 1] = 1
                 /\ IsHash(At(gather, 2), gather) /\ IsInt(In(h.sub)[1])
                 /\ CastTo(h.mask, "int64")
                 /\ IsOp(greater, "Greater") /\ Len(In(greater)) = 2 /\ Sole(greater, h.mask)
                 /\ ScalarFloat(Beside(greater, "Cast")) # {}
                 /\ CastTo(source, "float") /\ In(source) = <<In(h.sub)[1]>>
                 /\ Len(Out(source)) = 1 /\ HasSingleConsumerAt(Out(source)[1], greater, 1)
                 /\ S \cap accepted = {}
                 /\ FusionHasNoExternalPathBetweenSelectedNodes(S), S)
  IN  Match(HashNodes(At(At(squeeze, 1), 2)))

-----------------------------------------------------------------------------
\* LogBucketizeGather: the bucket of the logarithm of a time difference, where
\* what is below or above the range takes a fixed bucket.
KnownPayload(v) == DType(v) \in Payload \cup {"none"}
SamePayloadIfKnown(v, w) == "none" \in {DType(v), DType(w)} \/ SamePayload(v, w)
IsIntOrCast(v) == IsInt(v) \/ CastTo(Producer(v), "int64")

LogBucketNodes(unsqueeze) ==
  LET gather == At(unsqueeze, 1)
      low == At(gather, 2)
      high == At(low, 3)
      less == At(low, 1)
      bucket == At(less, 1)
      log == At(bucket, 1)
      valueClip == At(log, 1)
      timeDiv == At(valueClip, 1)
      diffCast == At(timeDiv, 1)
      diffClip == At(diffCast, 1)
      sub == At(diffClip, 1)
      cast == IF CastTo(At(sub, 2), "int64") THEN At(sub, 2) ELSE sub
      indexClip == At(high, 3)
      add == At(indexClip, 1)
      floorCast == At(add, 1)
      floor == At(floorCast, 1)
      scale == At(floor, 1)
      span == At(scale, 1)
  IN  [unsqueeze |-> unsqueeze, gather |-> gather, low |-> low, high |-> high, less |-> less,
       greater |-> At(high, 1), bucket |-> bucket, log |-> log, valueClip |-> valueClip,
       timeDiv |-> timeDiv, diffCast |-> diffCast, diffClip |-> diffClip, sub |-> sub,
       cast |-> cast, reshape |-> IF cast = sub THEN At(sub, 2) ELSE At(cast, 1),
       indexClip |-> indexClip, add |-> add, floorCast |-> floorCast, floor |-> floor,
       scale |-> scale, span |-> span, start |-> At(span, 1)]

LogBucketOps == [unsqueeze |-> "Unsqueeze", gather |-> "Gather", low |-> "Where",
  high |-> "Where", less |-> "LessOrEqual", greater |-> "GreaterOrEqual", bucket |-> "Div",
  log |-> "Log", valueClip |-> "Clip", timeDiv |-> "Div", diffCast |-> "Cast",
  diffClip |-> "Clip", sub |-> "Sub", reshape |-> "Reshape", indexClip |-> "Clip",
  add |-> "Add", floorCast |-> "Cast", floor |-> "Floor", scale |-> "Mul", span |-> "Div",
  start |-> "Sub"]
LogBucketInputs == [unsqueeze |-> 2, gather |-> 2, low |-> 3, high |-> 3, less |-> 2,
  greater |-> 2, bucket |-> 2, log |-> 1, timeDiv |-> 2, diffCast |-> 1, sub |-> 2,
  reshape |-> 2, add |-> 2, floorCast |-> 1, floor |-> 1, scale |-> 2, span |-> 2,
  start |-> 2]

\* The only consumer of what each node computes.  Whether it is an output of the
\* graph is not asked, and the consumers of indexClip are not either.
LogBucketReaders(b) ==
  [gather |-> <<b.unsqueeze, 1>>, low |-> <<b.gather, 2>>, less |-> <<b.low, 1>>,
   high |-> <<b.low, 3>>, greater |-> <<b.high, 1>>, log |-> <<b.bucket, 1>>,
   valueClip |-> <<b.log, 1>>, timeDiv |-> <<b.valueClip, 1>>,
   diffCast |-> <<b.timeDiv, 1>>, diffClip |-> <<b.diffCast, 1>>,
   sub |-> <<b.diffClip, 1>>, add |-> <<b.indexClip, 1>>, floorCast |-> <<b.add, 1>>,
   floor |-> <<b.floorCast, 1>>, scale |-> <<b.floor, 1>>, span |-> <<b.scale, 1>>,
   start |-> <<b.span, 1>>,
   reshape |-> IF b.cast = b.sub THEN <<b.sub, 2>> ELSE <<b.cast, 1>>]

\* The Constant and Cast nodes a value comes from.
ConstantProducerChain(v) ==
  LET up[n \in {0} \cup Node] ==
        IF IsOp(n, "Constant") THEN {n}
        ELSE IF IsOp(n, "Cast") THEN {n} \cup up[At(n, 1)] ELSE {}
  IN  up[Producer(v)]

\* The Shape and the ConstantOfShape that fill a bucket.
FillChain(where, indexClip) ==
  LET fill == At(where, 2)
      shape == At(fill, 1)
  IN  Fuse(/\ IsOp(fill, "ConstantOfShape") /\ Len(In(fill)) = 1
           /\ IsOp(shape, "Shape") /\ In(shape) = <<Out(indexClip)[1]>>, {fill, shape})

LogBucketScalars(b) ==
  {In(n)[2] : n \in Range(b) \ {b.gather, b.low, b.high, b.log, b.diffCast, b.sub, b.cast,
                                b.floorCast, b.floor}}
  \cup {In(b.indexClip)[3]}

LogBucketizeGather(anchor, accepted) ==
  LET Match(b) ==
        LET toBf16(n) == CastTo(n, "bfloat16")
            table == In(b.gather)[1]
            readers == LogBucketReaders(b)
            S == Range(b) \cup {anchor} \cup (UNION FillChain(b.low, b.indexClip))
                 \cup (UNION FillChain(b.high, b.indexClip))
                 \cup UNION {ConstantProducerChain(v) : v \in LogBucketScalars(b)}
        IN  Fuse(/\ \/ /\ toBf16(anchor) /\ Arity(anchor, 1, 1)
                       /\ SamePayloadIfKnown(In(anchor)[1], Out(anchor)[1])
                    \/ /\ IsOp(anchor, "Unsqueeze") /\ Len(Out(anchor)) = 1
                       /\ \A n \in ReaderNodes(Out(anchor)[1]) : ~toBf16(n)
                 /\ \A k \in DOMAIN LogBucketOps :
                      IsOp(b[k], LogBucketOps[k]) /\ Len(Out(b[k])) = 1
                 /\ \A k \in DOMAIN LogBucketInputs : Len(In(b[k])) = LogBucketInputs[k]
                 /\ Len(In(b.valueClip)) >= 2 /\ Len(In(b.diffClip)) >= 2
                 /\ Len(In(b.indexClip)) >= 3
                 /\ \A k \in DOMAIN readers : HasOnlyConsumer(Out(b[k])[1], readers[k][1], readers[k][2])
                 /\ b.cast # b.sub => Arity(b.cast, 1, 1) /\ HasOnlyConsumer(Out(b.cast)[1], b.sub, 2)
                 /\ \E s \in IntConstant(In(b.unsqueeze)[2]) : Len(s) = 1
                 /\ AttrOr(b.gather, "axis", 0) = 0
                 /\ DType(table) \in Payload /\ KnownPayload(Out(b.gather)[1])
                 /\ SamePayloadIfKnown(table, Out(b.gather)[1])
                 /\ SamePayloadIfKnown(Out(b.gather)[1], Out(b.unsqueeze)[1])
                 /\ Ranked(table) /\ Dims(table) # <<>> /\ Dims(table)[1] >= 127
                 /\ CastTo(b.diffCast, "float") /\ CastTo(b.floorCast, "int64")
                 /\ IsIntOrCast(In(b.sub)[1]) /\ IsIntOrCast(In(b.reshape)[1])
                 /\ In(b.greater)[1] = In(b.less)[1] /\ In(b.start)[1] = In(b.less)[1]
                 /\ FillChain(b.low, b.indexClip) # {} /\ FillChain(b.high, b.indexClip) # {}
                 /\ ~Exported(Out(b.bucket)[1])
                 /\ ReaderNodes(Out(b.bucket)[1]) \subseteq {b.start, b.less, b.greater}
                 /\ S \cap accepted = {}
                 /\ FusionHasNoExternalPathBetweenSelectedNodes(S), S)
  IN  Match(LogBucketNodes(IF IsOp(anchor, "Cast") THEN At(anchor, 1) ELSE anchor))

-----------------------------------------------------------------------------
\* MaskedEmbeddingLookup: the rows of the valid identifiers scattered over zeros.
ZeroPayload(v) == IsConst(v) /\ DType(v) \in Payload /\ graph.info[v].data = <<"0">>

MaskedNodes(unsqueeze) ==
  LET scatter == At(unsqueeze, 1)
      transpose == At(scatter, 2)
      embedding == At(scatter, 3)
      ids == At(embedding, 2)
      nonzero == At(transpose, 1)
  IN  [unsqueeze |-> unsqueeze, scatter |-> scatter, transpose |-> transpose,
       embedding |-> embedding, ids |-> ids, reshape |-> At(ids, 1), squeeze |-> At(ids, 2),
       nonzero |-> nonzero, greater |-> At(nonzero, 1)]

MaskedShapes(m) ==
  LET flat == Out(m.reshape)[1]
      nonzero == Out(m.nonzero)[1]
      positions == Out(m.transpose)[1]
      table == In(m.embedding)[1]
      scattered == Out(m.scatter)[1]
      out == Out(m.unsqueeze)[1]
      source == In(m.reshape)[1]
  IN  /\ HasRank(flat, 1)
      /\ HasRank(nonzero, 2) /\ Dims(nonzero)[1] = 1
      /\ HasRank(positions, 2) /\ Dims(positions)[2] = 1
      /\ KnownDimsEqual(Dims(nonzero)[2], Dims(positions)[1])
      /\ HasRank(table, 2) /\ Dims(table)[1] > 0 /\ Dims(table)[2] > 0
      /\ HasRank(scattered, 2) /\ KnownDimsEqual(Dims(scattered)[1], Dims(flat)[1])
      /\ KnownDimsEqual(Dims(scattered)[2], Dims(table)[2])
      /\ HasRank(out, 3) /\ Dims(out)[1] = 1
      /\ KnownDimsEqual(Dims(out)[2], Dims(scattered)[1])
      /\ KnownDimsEqual(Dims(out)[3], Dims(scattered)[2])
      /\ StaticShape(source) => KnownDimsEqual(Product(Dims(source)), Dims(flat)[1])

MaskedEmbeddingLookup(unsqueeze, accepted) ==
  LET Match(m) ==
        LET flat == Out(m.reshape)[1]
            Ops == [unsqueeze |-> "Unsqueeze", scatter |-> "ScatterND", transpose |-> "Transpose",
                    embedding |-> "Gather", ids |-> "Gather", reshape |-> "Reshape",
                    squeeze |-> "Squeeze", nonzero |-> "NonZero", greater |-> "GreaterOrEqual"]
            Inputs == [unsqueeze |-> 2, scatter |-> 3, transpose |-> 1, embedding |-> 2, ids |-> 2,
                       reshape |-> 2, squeeze |-> 2, nonzero |-> 1, greater |-> 2]
            S == Range(m)
        IN  Fuse(/\ \A k \in DOMAIN m : IsOp(m[k], Ops[k]) /\ Arity(m[k], Inputs[k], 1)
                 /\ DType(Out(unsqueeze)[1]) \in Payload /\ UnsqueezeAxes(unsqueeze) = {<<0>>}
                 /\ Once(m.scatter, unsqueeze)
                 /\ SamePayload(In(m.scatter)[1], Out(m.scatter)[1])
                 /\ SamePayload(Out(m.scatter)[1], Out(unsqueeze)[1])
                 /\ ZeroPayload(In(m.scatter)[1])
                 /\ AttrOr(m.embedding, "axis", 0) = 0 /\ AttrOr(m.ids, "axis", 0) = 0
                 /\ Once(m.embedding, m.scatter)
                 /\ SamePayload(In(m.embedding)[1], Out(m.embedding)[1])
                 /\ SamePayload(Out(m.embedding)[1], In(m.scatter)[1])
                 /\ Once(m.ids, m.embedding) /\ IsInt(Out(m.ids)[1])
                 /\ ~Exported(flat) /\ ReadByBoth(flat, m.ids, m.greater)
                 /\ ~Exported(Out(m.transpose)[1])
                 /\ ReadByBoth(Out(m.transpose)[1], m.squeeze, m.scatter)
                 /\ Once(m.squeeze, m.ids) /\ IsInt(Out(m.squeeze)[1])
                 /\ IsInt(In(m.reshape)[1]) /\ IsInt(flat)
                 /\ SmallIntInitializer(In(m.reshape)[2]) = {<<-1>>}
                 /\ SmallIntInitializer(In(m.squeeze)[2]) = {<<1>>}
                 /\ In(m.squeeze)[1] = Out(m.transpose)[1]
                 /\ Once(m.nonzero, m.transpose) /\ Once(m.greater, m.nonzero)
                 /\ flat \in Range(In(m.greater))
                 /\ LET threshold == IF In(m.greater)[1] = flat THEN In(m.greater)[2]
                                     ELSE In(m.greater)[1]
                    IN  ScalarInt(threshold) = {0}
                 /\ MaskedShapes(m)
                 /\ S \cap accepted = {}
                 /\ FusionHasNoExternalPathBetweenSelectedNodes(S), S)
  IN  Match(MaskedNodes(unsqueeze))

-----------------------------------------------------------------------------
\* A Mul by the Cast of a test, and the two of them that an Add joins: one for
\* the elements up to a bound and one for the others.
Gate(mul) == Via(mul, "Cast")
Gated(mul) == Beside(mul, "Cast")
GatedBy(add, test) ==
  IF IsOp(At(Gate(At(add, 1)), 1), test) THEN At(add, 1)
  ELSE IF IsOp(At(Gate(At(add, 2)), 1), test) THEN At(add, 2) ELSE 0

IsGated(mul, add) ==
  /\ IsOp(mul, "Mul") /\ Len(In(mul)) = 2 /\ Once(mul, add)
  /\ Gate(mul) # 0 /\ Len(In(Gate(mul))) = 1 /\ Once(Gate(mul), mul)
  /\ ~IsOp(Producer(Gated(mul)), "Cast")

\* The nodes of keep * (x > bound) + replacement * (x <= bound).
Selection(add) ==
  LET keep == GatedBy(add, "Not")
      replace == GatedBy(add, "LessOrEqual")
      not == At(Gate(keep), 1)
  IN  [add |-> add, keep |-> keep, replace |-> replace, keepCast |-> Gate(keep),
       replaceCast |-> Gate(replace), not |-> not, less |-> At(Gate(replace), 1)]
IsSelection(add) ==
  LET Match(s) ==
        /\ IsOp(add, "Add") /\ Arity(add, 2, 1) /\ s.keep # 0 /\ s.replace # 0
        /\ IsGated(s.keep, add) /\ IsGated(s.replace, add)
        /\ Len(In(s.not)) = 1 /\ At(s.not, 1) = s.less /\ Once(s.not, s.keepCast)
        /\ Arity(s.less, 2, 1) /\ ~Exported(Out(s.less)[1])
        /\ ReadByBoth(Out(s.less)[1], s.not, s.replaceCast)
        /\ In(s.less)[1] = Gated(s.keep)
  IN  Match(Selection(add))

CanBroadcastSparseToBound(sparse, bound) ==
  \/ sparse = <<>> \/ ShapesEqualOnKnownDims(sparse, bound)
  \/ /\ Len(sparse) <= Len(bound)
     /\ \A i \in DOMAIN sparse :
          sparse[i] = 1 \/ KnownDimsEqual(sparse[i], bound[Len(bound) - Len(sparse) + i])

SparseIdToMask(cast, accepted) ==
  LET Match(s) ==
        LET equal == At(cast, 1)
            add == s.add
            dense == Beside(equal, "Add")
            bound == Gated(s.keep)
            sparse == In(s.less)[2]
            S == Range(s) \cup {equal, cast}
            BothRanked(v, w) == Ranked(v) /\ Ranked(w)
        IN  Fuse(/\ IsOp(cast, "Cast") /\ Attr(cast, "to") \in {{"float"}, {"int32"}}
                 /\ Arity(cast, 1, 1) /\ (IsFloat(Out(cast)[1]) \/ IsInt(Out(cast)[1]))
                 /\ IsOp(equal, "Equal") /\ Len(In(equal)) = 2 /\ Once(equal, cast)
                 /\ add # 0 /\ IsInt(dense) /\ ~IsOp(Producer(dense), "Add")
                 /\ Once(add, equal) /\ IsSelection(add)
                 /\ \A n \in {add, s.keep, s.replace, s.keepCast, s.replaceCast} : IsInt(Out(n)[1])
                 /\ IsSmallIntegerInitializer(Gated(s.replace))
                 /\ ~IsConst(bound) /\ IsInt(bound) /\ IsInt(sparse)
                 /\ BothRanked(bound, sparse) => CanBroadcastSparseToBound(Dims(sparse), Dims(bound))
                 /\ BothRanked(dense, Out(cast)[1]) =>
                      ShapesEqualOnKnownDims(Dims(dense), Dims(Out(cast)[1]))
                 /\ S \cap accepted = {}
                 /\ FusionHasNoExternalPathBetweenSelectedNodes(S), S)
  IN  Match(Selection(Via(At(cast, 1), "Add")))

ReplaceInvalidId(add, accepted) ==
  LET Match(s) ==
        LET out == Out(add)[1]
            x == Gated(s.keep)
            ScalarOfType(v) == ScalarInt(v) # {} /\ DType(v) = DType(out)
            S == Range(s)
        IN  Fuse(/\ IsSelection(add) /\ IsInt(out)
                 /\ \A n \in {s.keep, s.replace, s.keepCast, s.replaceCast} :
                      DType(Out(n)[1]) = DType(out)
                 /\ CastTo(s.keepCast, DType(out)) /\ CastTo(s.replaceCast, DType(out))
                 /\ ScalarOfType(Gated(s.replace)) /\ ScalarOfType(In(s.less)[2])
                 /\ ~IsConst(x) /\ DType(x) = DType(out)
                 /\ Ranked(x) /\ Ranked(out) => ShapesEqualOnKnownDims(Dims(x), Dims(out))
                 /\ S \cap accepted = {}, S)
  IN  Match(Selection(add))

-----------------------------------------------------------------------------
\* TargetIdCountEmbedding: how often the target appears among the valid source
\* identifiers, as a feature and as the row of an embedding.  The set of nodes
\* is not checked for paths that leave it and come back.
TargetNodes(gather) ==
  LET bucketUnsqueeze == At(gather, 2)
      min == At(bucketUnsqueeze, 1)
      reduce == Via(min, "ReduceSum")
      mask == At(reduce, 1)
      and == At(mask, 1)
      hit == Via(and, "Equal")
      valid == Via(and, "Unsqueeze")
      sub == Via(hit, "Sub")
      not == At(valid, 1)
      IsSource(i) == /\ IsOp(At(sub, i), "Unsqueeze") /\ In(At(sub, i)) # <<>>
                     /\ IsInt(In(At(sub, i))[1])
      side == IF IsSource(1) THEN 1 ELSE IF IsSource(2) THEN 2 ELSE 0
      CastOf(n) == IF Len(Out(n)) = 1
                   THEN {m \in ReaderNodes(Out(n)[1]) : CastTo(m, "float")} ELSE {}
      features == IF reduce = 0 THEN {}
                  ELSE {n \in ReaderNodes(Out(reduce)[1]) \ {min} :
                          IsOp(n, "Unsqueeze") /\ CastOf(n) # {}}
      feature == IF features = {} THEN 0 ELSE Min(features)
  IN  [gather |-> gather, bucketUnsqueeze |-> bucketUnsqueeze, min |-> min,
       reduce |-> reduce, mask |-> mask, and |-> and, hit |-> hit, valid |-> valid,
       sub |-> sub, not |-> not, pad |-> At(not, 1), source |-> At(sub, side),
       feature |-> feature, count |-> IF feature = 0 THEN 0 ELSE Min(CastOf(feature))]

TargetIdCountEmbedding(gather, accepted) ==
  LET Match(t) ==
        LET ids == In(t.source)[1]
            target == In(t.sub)[IF At(t.sub, 1) = t.source THEN 2 ELSE 1]
            S == Range(t)
            internal == (UNION {ToSet(Out(n)) : n \in S}) \ {Out(gather)[1], Out(t.count)[1]}
        IN  Fuse(/\ IsOp(gather, "Gather") /\ AttrOr(gather, "axis", 0) = 0 /\ Arity(gather, 2, 1)
                 /\ IsFloat(In(gather)[1]) /\ IsFloat(Out(gather)[1])
                 /\ 0 \notin S
                 /\ IsOp(t.bucketUnsqueeze, "Unsqueeze") /\ IsOp(t.min, "Min")
                 /\ Attr(t.mask, "to") \in {{"int32"}, {"int64"}} /\ IsOp(t.mask, "Cast")
                 /\ IsOp(t.and, "And") /\ IsOp(t.not, "Not") /\ IsOp(t.pad, "Equal")
                 /\ \A n \in {t.bucketUnsqueeze, t.min, t.reduce, t.and, t.hit, t.sub, t.valid, t.pad} :
                      Len(In(n)) = 2
                 /\ Len(In(t.mask)) = 1 /\ Len(In(t.not)) = 1
                 /\ ScalarInt(Beside(t.min, "ReduceSum")) # {}
                 /\ Len(Out(t.reduce)) = 1 /\ IsSmallIntegerInitializer(In(t.reduce)[2])
                 /\ Len(Out(t.count)) = 1 /\ IsFloat(Out(t.count)[1])
                 /\ ScalarInt(Beside(t.hit, "Sub")) = {0}
                 /\ LET other == Producer(target)
                    IN  IsOp(other, "Unsqueeze") => In(other) # <<>> /\ In(other)[1] # ids
                 /\ ids \in Range(In(t.pad))
                 /\ LET pad == IF In(t.pad)[1] = ids THEN In(t.pad)[2] ELSE In(t.pad)[1]
                    IN  pad # ids /\ ScalarInt(pad) # {}
                 /\ S \cap accepted = {}
                 /\ \A v \in internal : ~Exported(v) /\ ReaderNodes(v) \subseteq S, S)
  IN  Match(TargetNodes(gather))
=============================================================================
