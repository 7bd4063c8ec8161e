------------------------------ MODULE FusedId ------------------------------
(***************************************************************************)
(* What the fusions of identifier and bucket arithmetic compute, with the  *)
(* device kernels they launch (kernels/tensor/..._impl.mu).  The factories *)
(* take the same paths through the part as the matchers, whose paths they  *)
(* are given here.                                                         *)
(***************************************************************************)
EXTENDS FusedParts, FusionsId

\* The rows of a table, one for each identifier; a row that is not in the table
\* is its first one.
TableRows(table, ids, Row(_)) ==
  LET block == NumElementsFrom(table.dims, 2)
      row(id) == LET r == Row(id) IN IF r \in 0..(table.dims[1] - 1) THEN r ELSE 0
      dims == ids.dims \o Tail(table.dims)
  IN  [dtype |-> table.dtype, dims |-> dims,
       data |-> Tabulate(NumElements(dims), LAMBDA k :
                  table.data[row(ids.data[((k - 1) \div block) + 1]) * block + ((k - 1) % block) + 1])]
Tabled(t) == RankOf(t) >= 1 /\ t.dims[1] > 0

(* Mutant: the remainder is taken towards minus infinity.                  *)
RemainderFloored(id, modulus) == id % modulus
\* The remainder has the sign of the identifier.
Remainder(id, modulus) == id - Quotient(id, modulus) * modulus

HashedRows(table, ids, modulus, offset, Valid(_)) ==
  IF Tabled(table) /\ ids.dtype \in Integral /\ modulus > 0 /\ offset >= 0 /\ offset + modulus <= table.dims[1]
  THEN {TableRows(table, ids, LAMBDA id :
          IF Valid(id) THEN Remainder(id, modulus) + offset ELSE 0)}
  ELSE {}
HashParsed(h) ==
  /\ IsOp(h.mul, "Mul") /\ h.mask # 0 /\ h.add # 0 /\ h.sub # 0
  /\ IsOp(h.product, "Mul") /\ h.div # 0
HashSource(h) == In(h.sub)[1]
HashModulus(h) == ScalarInt(Beside(h.product, "Div"))
HashOffset(h) == ScalarInt(Beside(h.add, "Sub"))

ModuloGatherCompute(val) ==
  LET gather == NodesOf("Gather")[1]
      Of(h) ==
        LET equal == At(At(h.mask, 1), 1)
            x == HashSource(h)
            invalid == In(equal)[IF In(equal)[1] = x THEN 2 ELSE 1]
        IN  IF HashParsed(h) /\ IsOp(At(h.mask, 1), "Not") /\ IsOp(equal, "Equal")
               /\ GivenAll({In(gather)[1], x}, val)
            THEN UNION {Yields(Out(gather)[1],
                          HashedRows(val[In(gather)[1]], val[x], m, o, LAMBDA id : id # i)) :
                          m \in HashModulus(h), o \in HashOffset(h), i \in ScalarInt(invalid)}
            ELSE {}
  IN  Of(HashNodes(At(gather, 2)))

\* The axis is the one the node names; from the back it names none.
WithoutOne(t, axis) ==
  IF axis \in 0..(RankOf(t) - 1) /\ t.dims[axis + 1] = 1
  THEN {WithDims(t, SubSeq(t.dims, 1, axis) \o SubSeq(t.dims, axis + 2, RankOf(t)))} ELSE {}
BucketizeGatherCompute(val) ==
  LET squeeze == NodesOf("Squeeze")[1]
      gather == At(squeeze, 1)
      Of(h) ==
        LET greater == At(h.mask, 1)
            x == HashSource(h)
            threshold == {f \in ScalarFloat(Beside(greater, "Cast")) : DType(Beside(greater, "Cast")) = "float"}
        IN  IF HashParsed(h) /\ IsOp(gather, "Gather") /\ IsOp(greater, "Greater")
               /\ In(Via(greater, "Cast")) = <<x>> /\ GivenAll({In(gather)[1], x}, val)
            THEN UNION {UNION {Yields(Out(squeeze)[1], WithoutOne(y, s[1])) :
                           y \in HashedRows(val[In(gather)[1]], val[x], m, o,
                                            LAMBDA id : Before(Number(f), Residue(id)))} :
                          m \in HashModulus(h), o \in HashOffset(h), f \in threshold,
                          s \in {a \in SmallIntInitializer(In(squeeze)[2]) : Len(a) = 1}}
            ELSE {}
  IN  Of(HashNodes(At(gather, 2)))

-----------------------------------------------------------------------------
\* What is no more than a bound gives way to another identifier.
ReplaceInvalidIdCompute(val) ==
  LET add == Last(NodesOf("Add"))
      less == Last(NodesOf("LessOrEqual"))
      x == In(less)[1]
      factors(i) == IF IsOp(At(add, i), "Mul") THEN In(At(add, i)) ELSE <<>>
      constants == SelectSeq(factors(1) \o factors(2), IsConst)
      scalar(v) == IF DType(v) = DType(x) THEN ScalarInt(v) ELSE {}
  IN  IF constants = <<>> \/ ~GivenAll({x}, val) THEN {}
      ELSE UNION {Yields(Out(add)[1],
                    {Mapped(val[x], DType(x), LAMBDA id : IF id <= bound THEN replacement ELSE id)}) :
             bound \in scalar(In(less)[2]), replacement \in scalar(Last(constants))}

\* The candidates go to runs of dense elements, the first to the first run.
SparseMask(dense, bound, sparse, default, type) ==
  LET repeats == Size(dense) \div Size(bound)
      candidate(k) == IF Size(bound) = Size(dense) THEN k ELSE ((k - 1) \div repeats) + 1
      least(c) == sparse.data[IF Size(sparse) = 1 THEN 1 ELSE c]
      id(c) == IF bound.data[c] <= least(c) THEN default ELSE bound.data[c]
  IN  [dtype |-> type, dims |-> dense.dims,
       data |-> Tabulate(Size(dense), LAMBDA k : IF dense.data[k] = id(candidate(k)) THEN 1 ELSE 0)]
SparseIdToMaskCompute(val) ==
  LET casts == SelectSeq(NodesOf("Cast"), LAMBDA n : Len(Out(n)) = 1 /\ Exported(Out(n)[1]))
      cast == casts[1]
      equal == At(cast, 1)
      fits(dense, bound, sparse) ==
        /\ dense.dtype \in Integral /\ SameDType(<<dense, bound, sparse>>)
        /\ Size(bound) > 0 /\ Size(dense) % Size(bound) = 0
        /\ Size(sparse) \in {1, Size(bound)}
      Of(s) ==
        LET dense == Beside(equal, "Add")
            bound == Gated(s.keep)
            sparse == In(s.less)[2]
        IN  IF /\ s.add # 0 /\ IsOp(s.keep, "Mul") /\ IsOp(s.replace, "Mul")
               /\ IsConst(Gated(s.replace)) /\ ~IsConst(bound) /\ At(s.not, 1) = s.less
               /\ In(s.less)[1] = bound /\ GivenAll({dense, bound, sparse}, val)
               /\ fits(val[dense], val[bound], val[sparse])
            THEN UNION {Yields(Out(cast)[1], {SparseMask(val[dense], val[bound], val[sparse], d, type)}) :
                          d \in ScalarInt(Gated(s.replace)), type \in Attr(cast, "to")}
            ELSE {}
  IN  IF casts = <<>> THEN {} ELSE Of(Selection(Via(equal, "Add")))

-----------------------------------------------------------------------------
\* Zeros, and the rows of the valid identifiers over them.
MaskedEmbeddingLookupCompute(val) ==
  LET finals == SelectSeq(NodesOf("Unsqueeze"), LAMBDA n : Exported(Out(n)[1]))
      rows(table, ids, dims, least) ==
        LET width == table.dims[2]
            valid(id) == id >= least /\ id \in 0..(table.dims[1] - 1)
            at(k) == LET id == ids.data[((k - 1) \div width) + 1]
                     IN  IF valid(id) THEN table.data[id * width + ((k - 1) % width) + 1] ELSE 0
        IN  IF RankOf(table) = 2 /\ table.dims[1] > 0 /\ width > 0 /\ ids.dtype \in Integral
               /\ NumElements(dims) = Size(ids) * width
            THEN {[dtype |-> table.dtype, dims |-> dims, data |-> Tabulate(Size(ids) * width, at)]}
            ELSE {}
      Of(m) ==
        LET out == Out(m.unsqueeze)[1]
            flat == Out(m.reshape)[1]
            ids == In(m.reshape)[1]
            table == In(m.embedding)[1]
            tests == {n \in ReaderNodes(flat) : IsOp(n, "GreaterOrEqual")}
            threshold == In(Min(tests))[IF In(Min(tests))[1] = flat THEN 2 ELSE 1]
            shape == IF Ranked(out) /\ Rank(out) > 0 THEN Dims(out)
                     ELSE <<1, Size(val[ids]), val[table].dims[2]>>
        IN  IF /\ IsOp(m.scatter, "ScatterND") /\ IsOp(m.embedding, "Gather") /\ IsOp(m.ids, "Gather")
               /\ IsOp(m.reshape, "Reshape") /\ IsOp(m.squeeze, "Squeeze") /\ tests # {}
               /\ GivenAll({ids, table}, val)
            THEN UNION {Yields(out, rows(val[table], val[ids], shape, t)) : t \in ScalarInt(threshold)}
            ELSE {}
  IN  IF finals = <<>> THEN {} ELSE Of(MaskedNodes(finals[1]))

\* How often the target is among the identifiers of its row, and the row of the
\* table with that number, the cap or the last row at most.  The identifiers of
\* a row are taken to lie one behind the other.
CountedRows(ids, target, table, rows, pad, cap) ==
  LET length == Size(ids) \div rows
      width == NumElementsFrom(table.dims, 2)
      wanted(r) == target[IF Len(target) = 1 THEN 1 ELSE r]
      counts == Tabulate(rows, LAMBDA r :
        Cardinality({c \in 1..length : LET id == ids.data[(r - 1) * length + c]
                                       IN  id # pad /\ id = wanted(r)}))
      bucket(r) == LET last == IF cap < table.dims[1] - 1 THEN cap ELSE table.dims[1] - 1
                   IN  IF counts[r] < last THEN counts[r] ELSE last
  IN  [counts |-> Tabulate(rows, LAMBDA r : Residue(counts[r])),
       rows |-> Tabulate(rows * width, LAMBDA k :
                  table.data[bucket(((k - 1) \div width) + 1) * width + ((k - 1) % width) + 1])]
TargetIdCountEmbeddingCompute(val) ==
  LET axes(v) == SmallIntInitializer(v)
      other(n, v) == CHOOSE w \in ToSet(In(n)) : w # v
      reduced(dims, axis, keepdims) ==
        LET a == IF axis < 0 THEN axis + Len(dims) ELSE axis
        IN  IF a \notin 0..(Len(dims) - 1) THEN {}
            ELSE {SubSeq(dims, 1, a) \o (IF keepdims THEN <<1>> ELSE <<>>) \o SubSeq(dims, a + 2, Len(dims))}
      shape(dims, v) == UNION {{t.dims : t \in Unsqueezed([dims |-> dims], a)} : a \in axes(v)}
      Of(t) ==
        LET ids == In(t.source)[1]
            target == In(t.sub)[IF At(t.sub, 1) = t.source THEN 2 ELSE 1]
            fixed == ScalarInt(target)
            table == In(t.gather)[1]
            targets == IF fixed = {} THEN val[target].data ELSE <<CHOOSE i \in fixed : TRUE>>
            fits == /\ RankOf(val[ids]) >= 1 /\ RankOf(val[table]) >= 2 /\ val[table].dims[1] > 0
                    /\ val[ids].dtype \in Integral /\ val[table].dtype = "float"
                    /\ fixed = {} => val[target].dtype \in Integral
            dims == UNION {reduced(s, a[1], AttrOr(t.reduce, "keepdims", 1) # 0) :
                             s \in shape(val[ids].dims, In(t.source)[2]), a \in axes(In(t.reduce)[2])}
            outcome(d, bucket, feature, pad, cap) ==
              {(Out(t.gather)[1] :> [dtype |-> "float", dims |-> bucket \o Tail(val[table].dims), data |-> y.rows])
               @@ (Out(t.count)[1] :> [dtype |-> "float", dims |-> feature, data |-> y.counts]) :
                 y \in {CountedRows(val[ids], targets, val[table], NumElements(d), pad, cap)}}
        IN  IF GivenAll({ids, table} \cup (IF fixed = {} THEN {target} ELSE {}), val) /\ fits
            THEN UNION {IF /\ NumElements(d) > 0 /\ Size(val[ids]) % NumElements(d) = 0
                           /\ Len(targets) \in {1, NumElements(d)}
                        THEN UNION {outcome(d, bucket, feature, pad, cap) :
                               bucket \in shape(d, In(t.bucketUnsqueeze)[2]),
                               feature \in shape(d, In(t.feature)[2]),
                               pad \in ScalarInt(other(t.pad, ids)),
                               cap \in ScalarInt(Beside(t.min, "ReduceSum"))}
                        ELSE {} : d \in dims}
            ELSE {}
      gathers == {n \in Node : TargetResolves(n)}
  IN  IF gathers = {} THEN {} ELSE Of(TargetNodes(Min(gathers)))

-----------------------------------------------------------------------------
\* The scalars of LogBucketizeGather, through the Casts over a constant.
ScalarThrough(v, Of(_)) ==
  LET value(w) == IF IsConst(w) THEN (IF Len(graph.info[w].data) = 1
                                      THEN {Of([type |-> DType(w), is |-> graph.info[w].data[1]])} ELSE {})
                  ELSE {}
      through[n \in {0} \cup Node] ==
        IF IsOp(n, "Constant")
        THEN {Of([type |-> "int64", is |-> s[1]]) : s \in {a \in Attr(n, "value") : Len(a) = 1}}
        ELSE IF IsOp(n, "Cast")
        THEN IF IsConst(In(n)[1]) THEN value(In(n)[1]) ELSE through[At(n, 1)]
        ELSE {}
  IN  IF IsConst(v) THEN value(v) ELSE through[Producer(v)]
ScalarAsFloat(v) ==
  ScalarThrough(v, LAMBDA x : IF x.type \in FloatTypes THEN Number(x.is) ELSE Residue(x.is))
ScalarAsInt(v) ==
  ScalarThrough(v, LAMBDA x : IF x.type \notin FloatTypes THEN x.is
                              ELSE IF x.is \in {"0", "1", "2", "4"} THEN Number(x.is) ELSE 0)

\* The bucket of a time difference: what is below the range is in the first
\* bucket, what is above in the last.
LogBucket(p, difference) ==
  LET AtLeast(x, least) == IF Before(x, least) THEN least ELSE x
      seconds == AtLeast(Residue(difference), p.diffMin)
      log == Over(LogOf(AtLeast(Over(seconds, p.timeScale), p.valueMin)), p.logBase)
      mapped == FloorOf(Times(Over(Minus(log, p.start), p.span), p.scale))
      index == Converted(mapped, "float", "int64") + p.offset
  IN  IF ~Before(p.lower, log) THEN 0
      ELSE IF ~Before(log, p.upper) THEN p.max
      ELSE IF index < p.min THEN p.min ELSE IF index > p.max THEN p.max ELSE index
LogBucketParams(b) ==
  {[diffMin |-> diffMin, timeScale |-> timeScale, valueMin |-> valueMin, logBase |-> logBase,
    start |-> start, span |-> span, scale |-> scale, offset |-> offset, min |-> min,
    max |-> max, lower |-> lower, upper |-> upper] :
     diffMin \in ScalarAsFloat(In(b.diffClip)[2]), timeScale \in ScalarAsFloat(In(b.timeDiv)[2]),
     valueMin \in ScalarAsFloat(In(b.valueClip)[2]), logBase \in ScalarAsFloat(In(b.bucket)[2]),
     start \in ScalarAsFloat(In(b.start)[2]), span \in ScalarAsFloat(In(b.span)[2]),
     scale \in ScalarAsFloat(In(b.scale)[2]), offset \in ScalarAsInt(In(b.add)[2]),
     min \in ScalarAsInt(In(b.indexClip)[2]), max \in ScalarAsInt(In(b.indexClip)[3]),
     lower \in ScalarAsFloat(In(b.less)[2]), upper \in ScalarAsFloat(In(b.greater)[2])}
LogBucketizeGatherCompute(val) ==
  LET casts == SelectSeq(NodesOf("Cast"), LAMBDA n : IsOp(At(n, 1), "Unsqueeze"))
      anchor == (casts \o NodesOf("Unsqueeze"))[1]
      Of(b) ==
        LET table == In(b.gather)[1]
            current == In(b.sub)[1]
            sequence == In(b.reshape)[1]
            rows(p, now, seen, t) ==
              LET flat == WithDims(seen, <<Size(seen)>>)
                  difference == Tabulate(Size(seen), LAMBDA k :
                    now.data[IF Size(now) = 1 THEN 1 ELSE k] - seen.data[k])
              IN  TableRows(t, [flat EXCEPT !.data = difference], LAMBDA d : LogBucket(p, d))
            fits(p, now, seen, t) ==
              /\ Tabled(t) /\ t.dims[1] > p.max /\ now.dtype \in Integral /\ seen.dtype \in Integral
              /\ 0 \notin {p.timeScale, p.logBase, p.span} /\ p.min >= 0 /\ p.max >= p.min
              /\ Size(now) \in {1, Size(seen)}
              /\ IsOp(anchor, "Cast") => AttrIs(anchor, "to", t.dtype)
        IN  IF /\ \A k \in DOMAIN LogBucketOps : IsOp(b[k], LogBucketOps[k])
               /\ In(b.greater)[1] = In(b.less)[1] /\ In(b.start)[1] = In(b.less)[1]
               /\ IntConstant(In(b.reshape)[2]) = {<<-1>>}
               /\ GivenAll({table, current, sequence}, val)
            THEN UNION {IF fits(p, val[current], val[sequence], val[table])
                        THEN Yields(Out(anchor)[1],
                                    Unsqueezed(rows(p, val[current], val[sequence], val[table]), axes))
                        ELSE {} :
                   p \in LogBucketParams(b),
                   axes \in {a \in SmallIntInitializer(In(b.unsqueeze)[2]) : Len(a) = 1}}
            ELSE {}
  IN  Of(LogBucketNodes(IF IsOp(anchor, "Cast") THEN At(anchor, 1) ELSE anchor))
=============================================================================
