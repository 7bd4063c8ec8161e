--------------------------- MODULE FusedAttention ---------------------------
(***************************************************************************)
(* The fused nodes of attention and of its mask.                           *)
(* MhtaScaledDotProductAttention takes its inputs in one of five layouts,  *)
(* which the factory tells from the nodes, and brings them to queries,     *)
(* keys and values of [batch, heads, sequence, width]                      *)
(* (mhta_scaled_dot_product_attention_fusion.cc).  Of muDNN's kernels only *)
(* this is used: RunFlash, for half precision, leaves NaN in a row whose   *)
(* keys are all masked.                                                    *)
(***************************************************************************)
EXTENDS FusedParts

\* An output that was allocated and not written.
Unwritten(dtype, dims) ==
  [dtype |-> dtype, dims |-> dims, data |-> Tabulate(NumElements(dims), LAMBDA k : NaN)]

\* SetupMhtaSdpaMaskParams: masks are padded with ones on the left; with an end
\* the keys may be a prefix of the mask's.
MaskFits(mask, targets, prefix) ==
  /\ RankOf(mask) \in 1..4 /\ \A d \in ToSet(mask.dims) : d > 0
  /\ \A i \in 1..4 :
       LET d == PadLeft(mask.dims, 4)[i]
       IN  d \in {1, targets[i]} \/ (prefix /\ i = 4 /\ d >= targets[i])
MaskAt(mask, c) ==
  LET dims == PadLeft(mask.dims, 4)
  IN  Elem(WithDims(mask, dims), [i \in 1..4 |-> IF dims[i] = 1 THEN 0 ELSE c[i]])

\* The layouts: the shapes a layout takes, and the three tensors as
\* [batch, heads, sequence, width].
FitsLayout(layout, q, k, v) ==
  LET shape(t, is) == [i \in DOMAIN is |-> t.dims[is[i]]]
      rank == IF layout \in {"kFoldedHeadRank3", "kLseqShdStridedFlash"} THEN 3 ELSE 4
  IN  IF ~\A t \in {q, k, v} : RankOf(t) = rank THEN FALSE
      ELSE CASE layout = "kLseqShdStridedFlash" ->
                  shape(q, <<2, 3>>) = shape(k, <<2, 3>>) /\ shape(q, <<2, 3>>) = shape(v, <<2, 3>>)
             [] layout = "kSimRank3" ->
                  /\ q.dims[2] = 1 /\ shape(k, <<1, 3, 4>>) = shape(q, <<1, 3, 4>>)
                  /\ v.dims = shape(k, <<1, 3, 2, 4>>)
             [] layout = "kFoldedHeadRank3" ->
                  /\ shape(k, <<1, 2>>) = shape(q, <<1, 3>>)
                  /\ v.dims = shape(k, <<1, 3, 2>>)
             [] layout = "kBshdStridedFlash" -> k.dims = q.dims /\ v.dims = q.dims
             [] layout = "kBhsd" -> k.dims = shape(q, <<1, 2, 4, 3>>) /\ v.dims = q.dims
ByHeads(layout, q, k, v) ==
  LET rows(t) == Permuted(WithDims(t, <<1>> \o t.dims), <<0, 2, 1, 3>>)
      one(t) == WithDims(t, <<t.dims[1], 1, t.dims[2], t.dims[3]>>)
      swapped(t) == Permuted(t, <<0, 2, 1, 3>>)
      turned(t) == Permuted(t, <<0, 1, 3, 2>>)
  IN  CASE layout = "kLseqShdStridedFlash" -> <<rows(q), rows(k), rows(v)>>
        [] layout = "kSimRank3" -> <<swapped(q), swapped(k), v>>
        [] layout = "kFoldedHeadRank3" -> <<one(q), turned(one(k)), one(v)>>
        [] layout = "kBshdStridedFlash" -> <<swapped(q), swapped(k), swapped(v)>>
        [] layout = "kBhsd" -> <<q, turned(k), v>>
\* And the result in the layout of the output.
FromHeads(layout, y, q) ==
  CASE layout = "kLseqShdStridedFlash" -> WithDims(Permuted(y, <<0, 2, 1, 3>>), q.dims)
    [] layout = "kSimRank3" -> WithDims(y, <<q.dims[1], 1, q.dims[3] * q.dims[4]>>)
    [] layout = "kFoldedHeadRank3" -> WithDims(y, q.dims)
    [] layout = "kBshdStridedFlash" -> Permuted(y, <<0, 2, 1, 3>>)
    [] layout = "kBhsd" -> y

\* What a factory tells a Compute.  mask is "" when there is none; form says
\* what it does: "added" to the scores after mask_scale, "keep" as BOOL, "prefix"
\* as the leading keys of an INT32 mask, "last" hides the last key.
Sdpas(layout, form, q, k, v, mask, scale, mask_scale, end) ==
  [layout |-> layout, form |-> form, q |-> q, k |-> k, v |-> v, mask |-> mask,
   scale |-> scale, mask_scale |-> mask_scale, end |-> end]

\* Whether a key stays, and what a score takes.
Kept(form, mask, keys, c) ==
  CASE form = "keep" -> MaskAt(mask, c) # 0
    [] form = "prefix" -> MaskAt(mask, c) = 1
    [] form = "last" -> c[4] < (IF keys > 1 THEN keys - 1 ELSE 1)
    [] OTHER -> TRUE
(* Mutant: the mask is added as it is, not divided by the temperature.     *)
UnscaledPenalty(s, mask, keys, c) ==
  IF ~Kept(s.form, mask, keys, c) THEN MinusInf
  ELSE IF s.form = "added" THEN MaskAt(mask, c) ELSE 0
PenaltyOf(s, mask, keys, c) ==
  IF ~Kept(s.form, mask, keys, c) THEN MinusInf
  ELSE IF s.form = "added" THEN Times(MaskAt(mask, c), s.mask_scale) ELSE 0

\* RunFlash's NaN is repaired in one layout only.
EmptyRow(s, dtype) ==
  IF dtype \in {"float16", "bfloat16"} /\ ~(s.layout = "kBhsd" /\ s.form \in {"keep", "prefix"})
  THEN NaN ELSE 0
SdpaTypes(s, q, k, v, mask) ==
  /\ k.dtype = q.dtype /\ v.dtype = q.dtype /\ q.dtype \in Floating
  /\ CASE s.form = "added" -> mask.dtype = q.dtype
       [] s.form = "keep" -> mask.dtype = "bool" /\ q.dtype # "double"
       [] s.form = "prefix" -> mask.dtype = "int32" /\ q.dtype # "double"
       [] s.form = "last" -> q.dtype = "float"
       [] s.form = "none" -> q.dtype = "bfloat16"

SdpaCompute(s, val) ==
  LET q == val[s.q]
      mask == IF s.mask = Missing THEN Absent ELSE val[s.mask]
      ended(keys) == s.form = "prefix" => \E e \in s.end : /\ e.dtype = "int64" /\ Size(e) = 1
                                                          /\ e.data = <<keys>>
      attend(x) ==
        LET keys == x[2].dims[3]
            dims == SubSeq(x[1].dims, 1, 3) \o <<x[1].dims[4]>>
            left(y) == FromHeads(s.layout, y, q)
        IN  IF x[1].dims[1] = 0 \/ x[1].dims[2] = 0 \/ x[1].dims[4] = 0
            THEN {left(Unwritten(q.dtype, dims))}
            ELSE IF ~ended(keys) \/ (s.mask # Missing /\
                      ~MaskFits(mask, SubSeq(dims, 1, 3) \o <<keys>>, s.form = "prefix")) THEN {}
            ELSE IF keys = 0
            THEN {left(IF s.form = "none" THEN Mapped(Unwritten(q.dtype, dims), q.dtype, LAMBDA e : 0)
                       ELSE Unwritten(q.dtype, dims))}
            ELSE {left(Sdpa(x[1], x[2], x[3], s.scale, LAMBDA c : PenaltyOf(s, mask, keys, c),
                            EmptyRow(s, q.dtype)))}
  IN  IF /\ GivenAll({s.q, s.k, s.v, s.mask}, val)
         /\ SdpaTypes(s, q, val[s.k], val[s.v], mask)
         /\ FitsLayout(s.layout, q, val[s.k], val[s.v])
      THEN attend(ByHeads(s.layout, q, val[s.k], val[s.v])) ELSE {}

\* The nodes the factory looks for: the last of an operator, and a MatMul by
\* what it reads.
LastOf(op) == IF NodesOf(op) = <<>> THEN 0 ELSE Last(NodesOf(op))
MatMulOver(Reads(_)) ==
  LET found == SelectSeq(NodesOf("MatMul"), LAMBDA n : Len(In(n)) = 2 /\ Reads(n))
  IN  IF found = <<>> THEN 0 ELSE Head(found)
SoftmaxValue == MatMulOver(LAMBDA n : In(n)[1] = Out(LastOf("Softmax"))[1])

\* FindBshdBoundaryTransposes; without them the inputs are those of the MatMuls.
FoundBshd(score, value) ==
  LET out == SingleReader(Out(value)[1])
  IN  /\ IsExactTranspose(At(score, 1), <<0, 2, 1, 3>>)
      /\ IsExactTranspose(At(score, 2), <<0, 2, 3, 1>>)
      /\ IsExactTranspose(At(value, 2), <<0, 2, 1, 3>>)
      /\ HasOnlyConsumer(In(score)[1], score, 1) /\ HasOnlyConsumer(In(score)[2], score, 2)
      /\ HasOnlyConsumer(In(value)[2], value, 2)
      /\ IsExactTranspose(out, <<0, 2, 1, 3>>) /\ Len(Out(out)) = 1
FourDimensional(form, score, value, mask, scale, mask_scale, end) ==
  IF FoundBshd(score, value)
  THEN Sdpas("kBshdStridedFlash", form, In(At(score, 1))[1], In(At(score, 2))[1],
             In(At(value, 2))[1], mask, scale, mask_scale, end)
  ELSE Sdpas("kBhsd", form, In(score)[1], In(score)[2], In(value)[2], mask, scale, mask_scale, end)

\* Two Wheres: a BOOL mask, or an INT32 one by the end of the Slice that cuts it.
BooleanSdpa(val) ==
  LET value == MatMulOver(LAMBDA n : IsOp(At(n, 1), "Where"))
      mul == LastOf("Mul")
      pre == At(LastOf("Softmax"), 1)
      score == At(mul, 1)
      equal == At(pre, 1)
      slice == At(At(equal, IF IsOp(At(equal, 2), "Cast") THEN 2 ELSE 1), 1)
      end == IF ScalarInt(In(slice)[3]) # {} THEN {Ints(<<e>>) : e \in ScalarInt(In(slice)[3])}
             ELSE {val[v] : v \in {In(slice)[3]} \cap DOMAIN val}
      told(form, mask, ends) ==
        {FourDimensional(form, score, value, mask, Number(f), 0, ends) : f \in ScalarFloat(In(mul)[2])}
  IN  IF /\ value # 0 /\ mul # 0 /\ IsOp(pre, "Where") /\ IsOp(score, "MatMul")
         /\ In(pre)[1] = In(At(value, 1))[1] /\ In(pre)[2] = Out(mul)[1]
      THEN IF ~IsOp(equal, "Equal") THEN told("keep", In(pre)[1], {})
           ELSE IF IsOp(slice, "Slice") /\ end # {} THEN told("prefix", In(slice)[1], end) ELSE {}
      ELSE {}

\* One Where: the last key is hidden; in bfloat16 it is the zeros K and V are
\* padded with, and both are left away.
LseqSdpa ==
  LET pre == LastOf("Where")
      value == SoftmaxValue
      mul == At(pre, 2)
      score == At(mul, 1)
      turned(n, i, perm) == LET t == At(n, i) IN IF IsExactTranspose(t, perm) THEN t ELSE 0
      q == At(turned(score, 1, <<1, 0, 2>>), 1)
      k == At(At(turned(score, 2, <<1, 2, 0>>), 1), 1)
      v == At(At(turned(value, 2, <<1, 0, 2>>), 1), 1)
      boundary == \A n \in {q, k, v} : CastTo(n, "float")
  IN  IF /\ At(LastOf("Softmax"), 1) = pre /\ value # 0 /\ IsOp(mul, "Mul") /\ IsOp(score, "MatMul")
      THEN {IF boundary
            THEN Sdpas("kLseqShdStridedFlash", "none", In(q)[1], In(k)[1], In(v)[1], Missing,
                       Number(f), 0, {})
            ELSE Sdpas("kFoldedHeadRank3", "last", In(score)[1], In(score)[2], In(value)[2], Missing,
                       Number(f), 0, {})
            : f \in {g \in ScalarFloat(In(mul)[2]) : IsFinite(g)}}
      ELSE {}

\* An Einsum: the temperature divides or multiplies, the scores are looked for.
SimRank3Sdpa ==
  LET temper == At(LastOf("Softmax"), 1)
      data == IF IsOp(At(temper, 1), "Add") THEN 1 ELSE 2
      add == At(temper, data)
      places == SelectSeq(<<<<1, 1>>, <<1, 2>>, <<2, 1>>, <<2, 2>>>>,
                  LAMBDA p : /\ IsOp(At(add, p[1]), "Mul") /\ Len(In(At(add, p[1]))) = 2
                             /\ IsOp(At(At(add, p[1]), p[2]), "Einsum"))
      matmul == At(LastOf("Reshape"), 1)
      told(mul, place, t) ==
        LET score == At(mul, place[2])
            inverse == IF IsOp(temper, "Div") THEN Over(1, Number(t)) ELSE Number(t)
        IN  {Sdpas("kSimRank3", "added", In(score)[2], In(score)[1], In(matmul)[2],
                   In(add)[3 - place[1]], Times(Number(f), inverse), inverse, {}) :
               f \in ScalarFloat(In(mul)[3 - place[2]])}
  IN  IF /\ IsOp(temper, "Div") => data = 1
         /\ IsOp(add, "Add") /\ places # <<>> /\ IsOp(matmul, "MatMul")
         /\ \E e \in Attr(At(At(add, places[1][1]), places[1][2]), "equation") :
              IsSupportedMhtaSimRank3Equation(e)
      THEN UNION {told(At(add, places[1][1]), places[1], t) :
                    t \in ScalarFloat(In(temper)[3 - data]) \ {"0"}}
      ELSE {}

PlainSdpa ==
  LET mul == LastOf("Mul")
      div == LastOf("Div")
      add == LastOf("Add")
      score == At(mul, 1)
      other == IF In(add)[2] = Out(mul)[1] THEN 1 ELSE 2
  IN  IF /\ mul # 0 /\ div # 0 /\ add # 0 /\ SoftmaxValue # 0 /\ IsOp(score, "MatMul")
         /\ Out(mul)[1] \in ToSet(In(add))
      THEN {FourDimensional("added", score, SoftmaxValue, In(add)[other],
                            Over(Number(f), Number(t)), Over(1, Number(t)), {})
            : f \in ScalarFloat(In(mul)[2]), t \in ScalarFloat(In(div)[2]) \ {"0"}}
      ELSE {}

MhtaScaledDotProductAttentionCompute(val) ==
  LET none(ops) == \A op \in ops : LastOf(op) = 0
      told == IF Len(NodesOf("Where")) = 2 THEN BooleanSdpa(val)
              ELSE IF Len(NodesOf("Where")) = 1 /\ none({"Add", "Div", "Einsum", "Reshape"})
              THEN LseqSdpa
              ELSE IF LastOf("Einsum") # 0 THEN SimRank3Sdpa ELSE PlainSdpa
  IN  IF LastOf("Softmax") = 0 THEN {}
      ELSE UNION {Yields(FirstOutput, SdpaCompute(s, val)) : s \in told}

-----------------------------------------------------------------------------
\* x W' + b of weights [out, in].
Projected(x, w, b) == GemmOf(x, w, b, FALSE, TRUE, 1, 1, "", 0)

\* The rows of x are one batch; the result has as many, whatever the Reshape
\* asks for.  A mask of 0 hides a key.
QkvAttentionOutputProjectionCompute(val) ==
  LET a == LastOf("com.microsoft.Attention")
      ins == In(a)
      gemm == LastOf("Gemm")
      source == In(LastOf("Unsqueeze"))[1]
      heads == AttrOr(a, "num_heads", 0)
      width == graph.node[a].attr.qkv_hidden_sizes[1]
      mask == IF Len(ins) = 4 THEN val[ins[4]] ELSE Absent
      hidden(c) == IF Present(mask) /\ BroadcastElem(mask, c) = 0 THEN MinusInf ELSE 0
      attended(x, qw, qb) ==
        {WithDims(y, <<x.dims[1], width>>) :
           y \in {Attended(Biased(p, qb), heads, <<width, width, width>>,
                           ScaleOf(graph.node[a], width \div heads), hidden) :
                    p \in MatMulOf(WithDims(x, <<1>> \o x.dims), qw, FALSE, FALSE)}}
      compute(x, qw, qb, ow, ob) ==
        IF /\ x.dtype = "float" /\ RankOf(x) = 2 /\ RankOf(ow) = 2
           /\ width > 0 /\ heads > 0 /\ width % heads = 0
           /\ qw.dims = <<x.dims[2], 3 * width>> /\ qb.dims = <<3 * width>>
           /\ ow.dims[2] = width /\ ob.dims = <<ow.dims[1]>>
           /\ Present(mask) => /\ mask.dtype = "int32"
                               /\ mask.dims \in {<<1, h, x.dims[1], x.dims[1]>> : h \in {1, heads}}
        THEN UNION {Projected(y, ow, ob) : y \in attended(x, qw, qb)} ELSE {}
  IN  IF GivenAll({source} \cup ToSet(Tail(ins)) \cup ToSet(Tail(In(gemm))), val)
      THEN Yields(FirstOutput, compute(val[source], val[ins[2]], val[ins[3]],
                                       val[In(gemm)[2]], val[In(gemm)[3]]))
      ELSE {}

\* The pattern is looked for again.  The branches are in the order of the first
\* Concat, the output projections in that of the last one.
KqvSplits(source) == {BranchOf(n).split : n \in Branches(source)}
RowsFrom(first, last, val) ==
  LET number(v) == IF v \in DOMAIN val /\ val[v].dtype \in Integral /\ Size(val[v]) = 1
                   THEN {val[v].data[1]} ELSE {}
  IN  {[first |-> a, count |-> b - a] : a \in number(first), b \in number(last)}
SlicedRows(n, val) == RowsFrom(In(n)[2], In(n)[3], val)

\* Where the rows a slice takes are in the packed sequence: after those of the
\* slices before it.
Packed(rows, i) == MapThenSumSet(LAMBDA k : rows[k].count, 1..(i - 1))
\* Each result is written where its slice has read, a later one over an earlier.
ScatteredOutput(results, rows) ==
  Build("float", <<Packed(rows, Len(rows) + 1), results[1].dims[2]>>, LAMBDA c :
    LET over == {k \in DOMAIN rows : c[1] \in rows[k].first..(rows[k].first + rows[k].count - 1)}
    IN  IF over = {} THEN NaN ELSE Elem(results[Max(over)], <<c[1] - rows[Max(over)].first, c[2]>>))

\* The nodes by their roles, and the tensors.
KqvPlan(source, p, concat) ==
  [source |-> source, mha |-> p.mha,
   matmul |-> [i \in DOMAIN In(concat) |-> At(At(p.concat[1], i), 1)],
   gemm |-> [i \in DOMAIN In(concat) |-> At(concat, i)]]
FoundKqv ==
  LET plan(source, p) == KqvPlan(source, p, OutputConcat(p.gather))
      from(source) == plan(source, KqvNodes(KqvSplits(source)))
  IN  from(In(Head(SelectSeq(NodesOf("Slice"), LAMBDA n : MultiKqvMhaOutputProjection(n, {}) # {})))[1])
KqvGiven(g, val) ==
  [x |-> val[g.source], bias |-> val[In(g.mha)[4]], heads |-> AttrOr(g.mha, "num_heads", 0),
   mask |-> IF Len(In(g.mha)) = 5 THEN val[In(g.mha)[5]] ELSE Absent,
   qkv |-> [i \in DOMAIN g.matmul |-> val[In(g.matmul[i])[2]]],
   out |-> [i \in DOMAIN g.gemm |-> val[In(g.gemm[i])[2]]],
   shift |-> [i \in DOMAIN g.gemm |-> val[In(g.gemm[i])[3]]]]
KqvFits(k, width) ==
  /\ k.x.dtype = "float" /\ RankOf(k.x) = 2 /\ k.x.dims[2] > 0
  /\ RankOf(k.bias) = 1 /\ width > 0 /\ k.bias.dims[1] % 3 = 0 /\ k.heads > 0 /\ width % k.heads = 0
  /\ \A i \in DOMAIN k.qkv :
       /\ k.qkv[i].dtype = "float" /\ k.qkv[i].dims = <<k.x.dims[2], 3 * width>>
       /\ RankOf(k.out[i]) = 2 /\ k.out[i].dims = <<k.out[1].dims[1], width>>
       /\ k.out[i].dims[1] > 0 /\ k.shift[i].dims = <<k.out[i].dims[1]>>
  /\ Present(k.mask) => k.mask.dtype = "int32" /\ k.mask.dims = <<1, k.x.dims[1], k.x.dims[1]>>

\* Rows the branches may take, and those that follow one another.
(* Mutant: the last row is not one of the rows.                           *)
LegalRowsButLast(rows, x) ==
  \A i \in DOMAIN rows : rows[i].first >= 0 /\ rows[i].count >= 0 /\ rows[i].first + rows[i].count < x.dims[1]
LegalRows(rows, x) ==
  \A i \in DOMAIN rows : rows[i].first >= 0 /\ rows[i].count >= 0 /\ rows[i].first + rows[i].count <= x.dims[1]
Consecutive(rows, x) ==
  /\ \A i \in DOMAIN rows : rows[i].first = Packed(rows, i)
  /\ Packed(rows, Len(rows) + 1) = x.dims[1]
KqvAttended(k, packed, width, scale) ==
  LET filler(c) == IF Present(k.mask) /\ BroadcastElem(k.mask, c) <= 0 THEN Number("-10000") ELSE 0
  IN  WithDims(Attended(WithDims(Biased(packed, k.bias), <<1>> \o packed.dims), k.heads,
                        <<width, width, width>>, scale, filler),
               <<k.x.dims[1], width>>)
KqvCompute(k, width, scale, from, to) ==
  LET only(sets) == [i \in DOMAIN sets |-> CHOOSE t \in sets[i] : TRUE]
      parts == [i \in DOMAIN from |-> MatMulOf(Part(k.x, 0, from[i].first, from[i].count), k.qkv[i],
                                               FALSE, FALSE)]
      results(a) == [i \in DOMAIN to |-> Projected(Part(a, 0, Packed(to, i), to[i].count),
                                                   k.out[i], k.shift[i])]
  IN  IF /\ LegalRows(from, k.x) /\ LegalRows(to, k.x) /\ Consecutive(from, k.x)
         /\ \A i \in DOMAIN to : from[i].count = to[i].count
      THEN {ScatteredOutput(only(results(a)), to) : a \in {KqvAttended(k, Joined(only(parts), 0), width, scale)}}
      ELSE {}

MultiKqvMhaOutputProjectionCompute(val) ==
  LET read(g) == {g.source} \cup ToSet(SubSeq(In(g.mha), 4, Len(In(g.mha))))
                 \cup {In(n)[2] : n \in Range(g.matmul)} \cup UNION {ToSet(Tail(In(n))) : n \in Range(g.gemm)}
      rows(nodes) == Results([i \in DOMAIN nodes |-> SlicedRows(At(nodes[i], 1), val)])
      outcome(k, width, g) ==
        IF KqvFits(k, width)
        THEN UNION {KqvCompute(k, width, ScaleOf(graph.node[g.mha], width \div k.heads), f, t) :
                      f \in rows(g.matmul), t \in rows(g.gemm)} ELSE {}
      given(k, g) == outcome(k, k.bias.dims[1] \div 3, g)
      compute(g) == IF GivenAll(read(g), val) THEN given(KqvGiven(g, val), g) ELSE {}
  IN  Yields(FirstOutput, compute(FoundKqv))

-----------------------------------------------------------------------------
\* GenerateMTGRCustomMask: the lengths are read from the shapes of its inputs,
\* and the mask is written from them at once.

\* The number of rows or columns an iota initializer counts.
IotaCapacity(v) ==
  {c \in IF HasRank(v, 3) /\ DType(v) = "int64" THEN {Product(Dims(v))} ELSE {} :
     /\ c > 0 /\ Dims(v) \in {<<1, c, 1>>, <<1, 1, c>>}
     /\ IntInitializer(v) = {[i \in 1..c |-> i - 1]}}

\* What a position of the mask holds: the upstream columns, and of the target
\* its diagonal.
(* Mutant: a target attends to the targets before it. *)
AttendsCausally(c, upstream) == c[4] < upstream \/ (c[3] >= c[4] /\ c[3] >= upstream)
Attends(c, upstream) == c[4] < upstream \/ (c[3] = c[4] /\ c[3] >= upstream)
MaskOf(dtype, dimension, upstream, total) ==
  Build(dtype, <<1, 1, dimension, dimension>>, LAMBDA c :
    IF c[3] < total /\ c[4] < total /\ Attends(c, upstream) THEN 1 ELSE 0)
LengthOf(v) == [dtype |-> "int64", dims |-> <<>>, data |-> <<v>>]

\* Both lengths' nodes: a Gather of the Shape of an input of that rank.
LengthGathers(rank) ==
  {g \in ToSet(NodesOf("Gather")) :
     IsOp(At(g, 1), "Shape") /\ HasRank(In(At(g, 1))[1], rank)}
PrefixLengths ==
  UNION {IF At(a, 1) \in LengthGathers(3) THEN {p \in ScalarInt(In(a)[2]) : p >= 0} ELSE {} :
           a \in ToSet(NodesOf("Add"))}

\* The whole mask and the total length leave a fusion of 40 nodes, the cropped
\* mask one of 44; the target's length leaves both.
GenerateMTGRCustomMaskCompute(val) ==
  LET sources(rank) == {In(s)[1] : s \in {s \in ToSet(NodesOf("Shape")) : HasRank(In(s)[1], rank)}}
      leaving(S) == {v \in UNION {Outputs(n) : n \in S} : Exported(v)}
      masks == leaving({n \in ToSet(NodesOf("Cast")) : AttrIs(n, "to", "int32")})
      whole == leaving(ToSet(NodesOf("Unsqueeze")))
      totals == {v \in leaving(ToSet(NodesOf("Add"))) : DType(v) = "int64" /\ HasRank(v, 0)}
      targets == leaving(LengthGathers(2))
      capacities == UNION {IotaCapacity(In(n)[1]) : n \in ToSet(NodesOf("GreaterOrEqual"))}
      full == Len(graph.node) = 40
      every(vs, t) == [v \in vs |-> t]
      written(upstream, target, capacity) ==
        LET total == upstream + target
        IN  every(targets, LengthOf(target)) @@
            (IF full THEN every(whole, MaskOf("bool", capacity, upstream, total))
                          @@ every(totals, LengthOf(total))
             ELSE every(masks, MaskOf("int32", Min({total, capacity}), upstream, total)))
      length(v) == val[v].dims[2]
  IN  IF /\ GivenAll(sources(3) \cup sources(2), val)
         /\ Cardinality(sources(3)) = 4 /\ Cardinality(sources(2)) = 1
         /\ (IF full THEN whole ELSE masks) # {} /\ (totals # {}) = full /\ targets # {}
         /\ Cardinality(capacities) = 1 /\ Cardinality(PrefixLengths) = 1
         /\ \A v \in sources(3) : RankOf(val[v]) = 3
         /\ \A v \in sources(2) : RankOf(val[v]) = 2
      THEN {written(p + MapThenSumSet(length, sources(3)), MapThenSumSet(length, sources(2)), c) :
              p \in PrefixLengths, c \in capacities}
      ELSE {}
=============================================================================
