---------------------------- MODULE KernelsMath ----------------------------
(***************************************************************************)
(* The kernels that compute (kernels/math, activation, logical, nn,        *)
(* reduction and llm) and Kernel, which sends a node to the kernel of its  *)
(* operator.  Inputs and outputs are as in KernelsTensor.  The host takes  *)
(* the place of the device for shapes and other integers in its memory,    *)
(* with the same results.                                                  *)
(***************************************************************************)
EXTENDS KernelsTensor

\* Float attributes and constants are written as symbols.
Number(symbol) ==
  CASE symbol = "0" -> 0 [] symbol = "1" -> 1 [] symbol = "2" -> 2
    [] symbol = "0.5" -> -50 [] symbol = "0.01" -> 29 [] symbol = "-inf" -> MinusInf
    [] symbol = "1e-6" -> 7 [] symbol = "1e-5" -> 17 [] symbol = "1e-16" -> -45
    [] symbol = "4" -> 4 [] symbol = "0.25" -> -25
    [] symbol = "-10000" -> 43 [] OTHER -> 37
FloatAttribute(n, a, default) == Number(Attribute(n, a, default))

-----------------------------------------------------------------------------
\* Element by element.
Added(type, x, y) == IF type \in Integral THEN x + y ELSE Plus(x, y)
Subtracted(type, x, y) == IF type \in Integral THEN x - y ELSE Minus(x, y)
Multiplied(type, x, y) == IF type \in Integral THEN x * y ELSE Times(x, y)
Divided(type, x, y) == IF type \in Integral THEN Quotient(x, y) ELSE Over(x, y)
Power(x, y) == CASE y = 0 -> 1 [] y = 1 -> x [] y = 2 -> Times(x, x) [] OTHER -> NaN
\* Python's remainder: it has the sign of the divisor; by zero it is zero.
Modulo(x, y) == CASE y > 0 -> x % y [] y = 0 -> 0 [] y < 0 -> -((-x) % (-y))

Broadcast(x, y, dtype, F(_, _)) ==
  {<<Build(dtype, dims, LAMBDA c : F(BroadcastElem(x, c), BroadcastElem(y, c)))>> :
     dims \in {d \in BroadcastShape(x.dims, y.dims) : Len(d) <= kMusaMaxBroadcastRank}}
Arithmetic(x, F(_, _, _)) ==
  Broadcast(x[1], x[2], x[1].dtype, LAMBDA a, b : F(x[1].dtype, a, b))
Compare(x, F(_, _)) ==
  Broadcast(x[1], x[2], "bool", LAMBDA a, b : IF F(a, b) THEN 1 ELSE 0)
Logical(x, F(_, _)) == IF x[1].dtype = "bool" THEN Compare(x, F) ELSE {}
Unary(x, F(_)) == {<<Mapped(x[1], x[1].dtype, F)>>}
AddKernel(x) == Arithmetic(x, Added)
SubKernel(x) == Arithmetic(x, Subtracted)
MulKernel(x) == Arithmetic(x, Multiplied)
DivKernel(x) == Arithmetic(x, Divided)
PowKernel(x) == Broadcast(x[1], x[2], x[1].dtype, Power)
ModKernel(n, x) ==
  IF Attribute(n, "fmod", 0) = 0 /\ x[1].dtype = x[2].dtype /\ x[1].dtype \in Integral
  THEN Broadcast(x[1], x[2], x[1].dtype, Modulo) ELSE {}
\* Max, Min and Sum take any number of inputs of one type.
Variadic(x, F(_, _)) ==
  FoldLeft(LAMBDA done, t : UNION {Broadcast(d[1], t, t.dtype, F) : d \in done}, {<<x[1]>>}, Tail(x))
MaxKernel(x) == Variadic(x, Greatest)
MinKernel(x) == Variadic(x, Least)
SumKernel(x) ==
  IF \A i \in DOMAIN x : x[i].dtype = x[1].dtype
  THEN Variadic(x, LAMBDA a, b : Added(x[1].dtype, a, b)) ELSE {}

NegKernel(x) == Unary(x, LAMBDA v : Subtracted(x[1].dtype, 0, v))
FloorKernel(x) == Unary(x, FloorOf)
LogKernel(x) == Unary(x, LogOf)
SqrtKernel(x) == Unary(x, SqrtOf)
SigmoidKernel(x) == Unary(x, SigmoidOf)
TanhKernel(x) == Unary(x, TanhOf)

LeakyReluOf(x, alpha) == IF Finite(x) /\ x < 0 THEN Times(alpha, x) ELSE x
ReluOf(x) == Greatest(x, 0)
ReluKernel(x) == Unary(x, ReluOf)
LeakyReluKernel(n, x) ==
  LET alpha == FloatAttribute(n, "activation_alpha", Attribute(n, "alpha", "0.01"))
  IN  Unary(x, LAMBDA v : LeakyReluOf(v, alpha))

\* Nothing is equal to, below or above what is no number.
EqualKernel(x) == Compare(x, LAMBDA a, b : a = b /\ a # NaN)
LessKernel(x) == Compare(x, Before)
LessOrEqualKernel(x) == Compare(x, LAMBDA a, b : Before(a, b) \/ (a = b /\ a # NaN))
GreaterKernel(x) == Compare(x, LAMBDA a, b : Before(b, a))
GreaterOrEqualKernel(x) == Compare(x, LAMBDA a, b : Before(b, a) \/ (a = b /\ a # NaN))
AndKernel(x) == Logical(x, LAMBDA a, b : a = 1 /\ b = 1)
OrKernel(x) == Logical(x, LAMBDA a, b : a = 1 \/ b = 1)
NotKernel(x) == IF x[1].dtype = "bool" THEN Unary(x, LAMBDA v : 1 - v) ELSE {}
\* The bounds are inputs of one element, which take precedence, or attributes.
ClipKernel(n, x) ==
  LET bound(i, a) == IF Given(x, i) THEN {x[i].data[1]}
                     ELSE IF a \in DOMAIN n.attr THEN {Number(n.attr[a])} ELSE {}
      fits(i) == Given(x, i) => x[i].dtype = x[1].dtype /\ Size(x[i]) = 1
      above(v) == IF \E b \in bound(2, "min") : Before(v, b) THEN CHOOSE b \in bound(2, "min") : TRUE ELSE v
      below(v) == IF \E b \in bound(3, "max") : Before(b, v) THEN CHOOSE b \in bound(3, "max") : TRUE ELSE v
  IN  IF fits(2) /\ fits(3) THEN Unary(x, LAMBDA v : below(above(v))) ELSE {}

-----------------------------------------------------------------------------
\* Reductions.
ReduceOf(op, type, s) ==
  LET total(F(_)) == FoldLeft(LAMBDA a, v : Added(type, a, F(v)), 0, s)
      square(v) == Multiplied(type, v, v)
  IN  CASE op = "ReduceSum" -> total(LAMBDA v : v)
        [] op = "ReduceMean" -> Divided(type, total(LAMBDA v : v), Len(s))
        [] op = "ReduceSumSquare" -> total(square)
        [] op = "ReduceL2" -> SqrtOf(total(square))
        [] op = "ReduceProd" -> FoldLeft(LAMBDA a, v : Multiplied(type, a, v), 1, s)
        [] op = "ReduceMax" -> FoldLeft(LAMBDA a, v : Greatest(a, v), MinusInf, s)
\* Of a tensor, one dimension at a time is kept (as one) or dropped.
Reduced(op, t, axes, keepdims) ==
  LET kept == SelectSeq([i \in DOMAIN t.dims |-> i], LAMBDA i : i - 1 \notin axes)
      dropped == SelectSeq([i \in DOMAIN t.dims |-> i], LAMBDA i : i - 1 \in axes)
      outer == [k \in DOMAIN kept |-> t.dims[kept[k]]]
      inner == [k \in DOMAIN dropped |-> t.dims[dropped[k]]]
      steps == Strides(inner)
      place(s, i) == CHOOSE k \in DOMAIN s : s[k] = i
      at(c, r) == [i \in DOMAIN t.dims |-> IF i - 1 \in axes THEN r[place(dropped, i)]
                                                            ELSE c[place(kept, i)]]
      values(c) == Tabulate(NumElements(inner), LAMBDA k : Elem(t, at(c, Coordinates(k - 1, inner, steps))))
  IN  WithDims(Build(t.dtype, outer, LAMBDA c : ReduceOf(op, t.dtype, values(c))),
               IF keepdims THEN [i \in DOMAIN t.dims |-> IF i - 1 \in axes THEN 1 ELSE t.dims[i]]
               ELSE outer)
ReduceKernel(n, x) ==
  LET axes == IF Len(x) > 1 /\ Present(x[2]) THEN x[2].data ELSE Attribute(n, "axes", <<>>)
      noop == n.op \notin {"ReduceMean", "ReduceL2"} /\ Attribute(n, "noop_with_empty_axes", 0) # 0
  IN  IF axes = <<>> /\ noop THEN {<<x[1]>>}
      ELSE When(/\ RankOf(x[1]) <= kMusaMaxBroadcastRank
                /\ n.op \in {"ReduceMean", "ReduceL2"} => x[1].dtype # "int64",
                <<Reduced(n.op, x[1], AxesSet(axes, RankOf(x[1])), Attribute(n, "keepdims", 1) # 0)>>)

Softmax(t, axis) ==
  LET line(c) == Tabulate(t.dims[axis + 1], LAMBDA i : Exponential(Elem(t, [c EXCEPT ![axis + 1] = i - 1])))
  IN  Build(t.dtype, t.dims, LAMBDA c : Over(Exponential(Elem(t, c)), SumOf(line(c))))
SoftmaxKernel(n, x) ==
  LET axis == NormalizedAxis(Attribute(n, "axis", -1), RankOf(x[1]))
  IN  IF axis \notin 0..(RankOf(x[1]) - 1) THEN {} ELSE {<<Softmax(x[1], axis)>>}

\* What is left of a tensor without its mean, the mean, and the inverse deviation.
Moments(t, axes, epsilon) ==
  LET mean == Reduced("ReduceMean", t, axes, TRUE)
      centered == Build(t.dtype, t.dims, LAMBDA c : Minus(Elem(t, c), BroadcastElem(mean, c)))
      variance == Reduced("ReduceMean", Mapped(centered, t.dtype, LAMBDA v : Times(v, v)), axes, TRUE)
  IN  [centered |-> centered, mean |-> mean,
       inverse |-> Mapped(variance, "float", LAMBDA v : Over(1, SqrtOf(Plus(v, epsilon))))]
\* Optional second and third outputs: the mean and the inverse deviation.
LayerNormalizationKernel(n, x) ==
  LET t == x[1]
      axis == NormalizedAxis(Attribute(n, "axis", -1), RankOf(t))
      inner == SubSeq(t.dims, axis + 1, RankOf(t))
      fits(i) == x[i].dims = inner /\ x[i].dtype = t.dtype
      scaled(m, c) == Times(Times(Elem(m.centered, c), BroadcastElem(m.inverse, c)), BroadcastElem(x[2], c))
      y(m) == Build(t.dtype, t.dims, LAMBDA c :
                IF Given(x, 3) THEN Plus(scaled(m, c), BroadcastElem(x[3], c)) ELSE scaled(m, c))
  IN  IF /\ Attribute(n, "stash_type", 1) = 1 /\ axis \in 0..(RankOf(t) - 1)
         /\ fits(2) /\ (Given(x, 3) => fits(3)) /\ t.dtype \in {"float", "float16"}
      THEN {SubSeq(<<y(m), m.mean, m.inverse>>, 1, Len(n.outs)) :
              m \in {Moments(t, axis..(RankOf(t) - 1), FloatAttribute(n, "epsilon", "1e-5"))}}
      ELSE {}

-----------------------------------------------------------------------------
\* Matrix products.  An operand with a batch of one element is broadcast, any
\* other batch must be that of the output.  Vectors are left out: only an empty
\* product takes them.
Linear(batch, output) == batch = output \/ NumElements(batch) = 1
MatrixElem(t, c, i, j, trans) ==
  BroadcastElem(t, SubSeq(c, 1, Len(c) - 2) \o (IF trans THEN <<j, i>> ELSE <<i, j>>))
\* The size of an operand along one side of the product.
SideOf(t, first, trans) == t.dims[RankOf(t) - (IF first = trans THEN 0 ELSE 1)]
BatchOf(t) == SubSeq(t.dims, 1, RankOf(t) - 2)
MatMulShape(a, b, transA, transB) ==
  IF RankOf(a) < 2 \/ RankOf(b) < 2 THEN {}
  ELSE IF SideOf(a, FALSE, transA) # SideOf(b, TRUE, transB) THEN {}
  ELSE {s \o <<SideOf(a, TRUE, transA), SideOf(b, FALSE, transB)>> :
          s \in BroadcastShape(BatchOf(a), BatchOf(b))}
MatMulOf(a, b, transA, transB) ==
  LET depth == SideOf(a, FALSE, transA)
      cell(c) == SumOf(Tabulate(depth, LAMBDA k :
                   Times(MatrixElem(a, c, c[Len(c) - 1], k - 1, transA),
                         MatrixElem(b, c, k - 1, c[Len(c)], transB))))
      strided(dims) == LET batch == SubSeq(dims, 1, Len(dims) - 2)
                       IN  Linear(BatchOf(a), batch) /\ Linear(BatchOf(b), batch)
  IN  {Build(a.dtype, dims, cell) : dims \in
         {d \in MatMulShape(a, b, transA, transB) :
            /\ a.dtype = b.dtype /\ a.dtype \in Floating \ {"double"}
            /\ Len(d) <= kMusaMaxBroadcastRank
            /\ NumElements(d) = 0 \/ depth = 0 \/ strided(d)}}
MatMulKernel(x) == {<<y>> : y \in MatMulOf(x[1], x[2], FALSE, FALSE)}

Activated(name, alpha, v) ==
  CASE name = "Relu" -> ReluOf(v) [] name = "LeakyRelu" -> LeakyReluOf(v, alpha)
    [] name = "Tanh" -> TanhOf(v) [] name = "Sigmoid" -> SigmoidOf(v) [] name = "" -> v
\* GemmCompute: alpha op(A) op(B) + beta C and an activation.
GemmShape(a, b, transA, transB) ==
  IF RankOf(a) = 2 /\ RankOf(b) = 2 THEN MatMulShape(a, b, transA, transB) ELSE {}
GemmOf(a, b, bias, transA, transB, alpha, beta, activation, slope) ==
  LET plus(y, c) == IF Present(bias)
                    THEN Plus(Times(alpha, Elem(y, c)), Times(beta, BroadcastElem(bias, c)))
                    ELSE Times(alpha, Elem(y, c))
  IN  {Build(y.dtype, y.dims, LAMBDA c : Activated(activation, slope, plus(y, c))) :
         y \in {p \in MatMulOf(a, b, transA, transB) :
                  /\ p.dims \in GemmShape(a, b, transA, transB)
                  /\ Present(bias) => /\ bias.dtype = a.dtype
                                      /\ BroadcastShape(bias.dims, p.dims) = {p.dims}}}
GemmKernel(n, x) ==
  {<<y>> : y \in GemmOf(x[1], x[2], IF Len(x) > 2 THEN x[3] ELSE Absent,
                        Attribute(n, "transA", 0) # 0, Attribute(n, "transB", 0) # 0,
                        FloatAttribute(n, "alpha", "1"), FloatAttribute(n, "beta", "1"), "", 0)}

\* The seven equations Einsum knows, of float tensors a and b with the axes the
\* letters stand for.
FloatRanks(a, b, r, s) == a.dtype = "float" /\ b.dtype = "float" /\ RankOf(a) = r /\ RankOf(b) = s
SumOver(k, F(_)) == SumOf(Tabulate(k, LAMBDA i : F(i - 1)))
Contracted(a, dims, F(_)) == {<<Build(a.dtype, dims, F)>>}
ScoresSum(a, b, c, first) ==
  SumOver(b.dims[2], LAMBDA j : SumOver(a.dims[4], LAMBDA w :
    Times(Elem(a, <<first, c[3], c[2], w>>), Elem(b, <<c[1], j, c[2], w>>))))
EinsumDiagonal(a) ==
  IF RankOf(a) = 2 /\ a.dims[1] = a.dims[2]
  THEN Contracted(a, <<a.dims[1]>>, LAMBDA c : Elem(a, <<c[1], c[1]>>)) ELSE {}
EinsumBhijHk(a, b) ==
  IF FloatRanks(a, b, 4, 2) /\ a.dims[2] = b.dims[1]
  THEN Contracted(a, <<a.dims[1], b.dims[2], a.dims[3], a.dims[4]>>, LAMBDA c :
         SumOver(a.dims[2], LAMBDA h : Times(Elem(a, <<c[1], h, c[3], c[4]>>), Elem(b, <<h, c[2]>>))))
  ELSE {}
EinsumIjBjk(a, b) ==
  IF FloatRanks(a, b, 2, 3) /\ a.dims[2] = b.dims[2]
  THEN Contracted(a, <<b.dims[1], a.dims[1], b.dims[3]>>, LAMBDA c :
         SumOver(a.dims[2], LAMBDA j : Times(Elem(a, <<c[2], j>>), Elem(b, <<c[1], j, c[3]>>))))
  ELSE {}
EinsumBlhwBjhwBhl(a, b) ==
  IF FloatRanks(a, b, 4, 4) /\ \A i \in {1, 3, 4} : a.dims[i] = b.dims[i]
  THEN Contracted(a, <<a.dims[1], a.dims[3], a.dims[2]>>, LAMBDA c : ScoresSum(a, b, c, c[1]))
  ELSE {}
EinsumIlhwBjhwBhl(a, b) ==
  IF FloatRanks(a, b, 4, 4) /\ \A i \in {3, 4} : a.dims[i] = b.dims[i]
  THEN Contracted(a, <<b.dims[1], a.dims[3], a.dims[2]>>, LAMBDA c :
         SumOver(a.dims[1], LAMBDA i : ScoresSum(a, b, c, i)))
  ELSE {}
EinsumNikBnkBni(a, b) ==
  IF FloatRanks(a, b, 3, 3) /\ a.dims[1] = b.dims[2] /\ a.dims[3] = b.dims[3]
  THEN Contracted(a, <<b.dims[1], a.dims[1], a.dims[2]>>, LAMBDA c :
         SumOver(a.dims[3], LAMBDA k : Times(Elem(a, <<c[2], c[3], k>>), Elem(b, <<c[1], c[2], k>>))))
  ELSE {}
EinsumBnkNkdBnd(a, b) ==
  IF FloatRanks(a, b, 3, 3) /\ a.dims[2] = b.dims[1] /\ a.dims[3] = b.dims[2]
  THEN Contracted(a, <<a.dims[1], a.dims[2], b.dims[3]>>, LAMBDA c :
         SumOver(a.dims[3], LAMBDA k : Times(Elem(a, <<c[1], c[2], k>>), Elem(b, <<c[2], k, c[3]>>))))
  ELSE {}
EinsumKernel(n, x) ==
  LET equation == Attribute(n, "equation", "")
  IN  CASE equation = "aa->a" -> EinsumDiagonal(x[1])
        [] equation = "bhij,hk->bkij" -> EinsumBhijHk(x[1], x[2])
        [] equation = "ij,bjk->bik" -> EinsumIjBjk(x[1], x[2])
        [] equation = "blhw,bjhw->bhl" -> EinsumBlhwBjhwBhl(x[1], x[2])
        [] equation = "ilhw,bjhw->bhl" -> EinsumIlhwBjhwBhl(x[1], x[2])
        [] equation = "nik,bnk->bni" -> EinsumNikBnkBni(x[1], x[2])
        [] equation = "bnk,nkd->bnd" -> EinsumBnkNkdBnd(x[1], x[2])
        [] OTHER -> {}

-----------------------------------------------------------------------------
\* Attention of queries [batch, heads, queries, width] over keys and values of
\* as many heads.  Every score takes a penalty; a query whose keys all weigh
\* nothing yields what is given for it.
Sdpa(q, k, v, scale, Penalty(_), unseen) ==
  LET keys == k.dims[3]
      score(c, j) == Times(scale, SumOf(Tabulate(q.dims[4], LAMBDA p :
                       Times(Elem(q, [c EXCEPT ![4] = p - 1]),
                             Elem(k, <<c[1], c[2], j - 1, p - 1>>)))))
      weights(c) == Tabulate(keys, LAMBDA j :
                      Exponential(Plus(score(c, j), Penalty(<<c[1], c[2], c[3], j - 1>>))))
      mix(c, w) == IF \A j \in DOMAIN w : w[j] = 0 THEN unseen
                   ELSE Over(SumOf(Tabulate(keys, LAMBDA j :
                               Times(w[j], Elem(v, <<c[1], c[2], j - 1, c[4]>>)))), SumOf(w))
  IN  Build(q.dtype, SubSeq(q.dims, 1, 3) \o <<v.dims[4]>>, LAMBDA c : mix(c, weights(c)))
\* Over packed queries, keys and values [batch, sequence, q+k+v].
Attended(qkv, heads, sizes, scale, Penalty(_)) ==
  LET byHead(first, size) ==
        Permuted(WithDims(Part(qkv, 2, first, size),
                          <<qkv.dims[1], qkv.dims[2], heads, size \div heads>>), <<0, 2, 1, 3>>)
      y == Sdpa(byHead(0, sizes[1]), byHead(sizes[1], sizes[2]),
                byHead(sizes[1] + sizes[2], sizes[3]), scale, Penalty, 0)
  IN  WithDims(Permuted(y, <<0, 2, 1, 3>>), <<qkv.dims[1], qkv.dims[2], sizes[3]>>)
\* The factor of the scores: an attribute, or 1 / sqrt(the width of a head).
ScaleOf(n, width) ==
  IF "scale" \in DOMAIN n.attr THEN Number(n.attr.scale) ELSE Over(1, SqrtOf(width))
Biased(t, bias) == Build(t.dtype, t.dims, LAMBDA c : Plus(Elem(t, c), BroadcastElem(bias, c)))

AttentionKernel(n, x) ==
  LET heads == Attribute(n, "num_heads", 0)
      sizes == Attribute(n, "qkv_hidden_sizes", <<>>)
      width == sizes[1] + sizes[2] + sizes[3]
      d == x[1].dims
      mask == IF Len(x) > 3 THEN x[4] ELSE Absent
      hidden(c) == IF Present(mask) /\ BroadcastElem(mask, c) = 0 THEN MinusInf ELSE 0
      maskFits == Present(mask) =>
        /\ mask.dtype = "int32" /\ RankOf(mask) = 4 /\ mask.dims[1] \in {1, d[1]}
        /\ mask.dims[2] \in {1, heads} /\ mask.dims[3] = d[2] /\ mask.dims[4] = d[2]
  IN  IF /\ Attribute(n, "unidirectional", 0) = 0 /\ heads > 0 /\ Len(sizes) = 3
         /\ \A i \in 1..3 : x[i].dtype = "float" /\ RankOf(x[i]) = 4 - i
      THEN IF /\ x[2].dims = <<d[3], width>> /\ x[3].dims = <<width>> /\ maskFits
              /\ sizes[1] = sizes[2] /\ \A i \in 1..3 : sizes[i] % heads = 0
           THEN {<<Attended(Biased(p, x[3]), heads, sizes, ScaleOf(n, sizes[1] \div heads), hidden)>> :
                   p \in MatMulOf(x[1], x[2], FALSE, FALSE)}
           ELSE {}
      ELSE {}

MultiHeadAttentionKernel(n, x) ==
  LET heads == Attribute(n, "num_heads", 0)
      d == x[1].dims
      mask == IF Len(x) > 4 THEN x[5] ELSE Absent
      filler(c) == IF Present(mask) /\ Elem(mask, <<c[1], c[3], c[4]>>) <= 0
                   THEN FloatAttribute(n, "mask_filter_value", "-10000") ELSE 0
      packed == Joined(<<x[1], x[2], x[3]>>, 2)
  IN  IF /\ heads > 0 /\ Attribute(n, "unidirectional", 0) = 0 /\ Len(n.outs) = 1
         /\ Len(x) >= 4 /\ \A i \in 1..4 : x[i].dtype = "float"
         /\ \A i \in 5..Len(x) : i > 5 => ~Present(x[i])
         /\ RankOf(x[1]) = 3 /\ x[2].dims = d /\ x[3].dims = d
      THEN When(/\ d[3] > 0 /\ d[3] % heads = 0 /\ x[4].dims = <<3 * d[3]>>
                /\ Present(mask) => mask.dtype = "int32" /\ mask.dims = <<d[1], d[2], d[2]>>,
                <<Attended(Biased(packed, x[4]), heads, <<d[3], d[3], d[3]>>,
                           ScaleOf(n, d[3] \div heads), filler)>>)
      ELSE {}

-----------------------------------------------------------------------------
Kernel(n, x) ==
  CASE n.op = "Concat" -> ConcatKernel(n, x) [] n.op = "Split" -> SplitKernel(n, x)
    [] n.op = "Slice" -> SliceKernel(n, x) [] n.op = "Reshape" -> ReshapeKernel(n, x)
    [] n.op = "Unsqueeze" -> UnsqueezeKernel(n, x) [] n.op = "Squeeze" -> SqueezeKernel(n, x)
    [] n.op = "Transpose" -> TransposeKernel(n, x) [] n.op = "Tile" -> TileKernel(n, x)
    [] n.op = "Expand" -> ExpandKernel(n, x) [] n.op = "Where" -> WhereKernel(n, x)
    [] n.op = "Gather" -> GatherKernel(n, x) [] n.op = "ScatterND" -> ScatterNDKernel(n, x)
    [] n.op = "Shape" -> ShapeKernel(n, x) [] n.op = "Identity" -> IdentityKernel(n, x)
    [] n.op = "Cast" -> CastKernel(n, x) [] n.op = "Range" -> RangeKernel(n, x)
    [] n.op = "ConstantOfShape" -> ConstantOfShapeKernel(n, x)
    [] n.op = "Unique" -> UniqueKernel(n, x) [] n.op = "NonZero" -> NonZeroKernel(n, x)
    [] n.op = "TopK" -> TopKKernel(n, x)
    [] n.op = "Add" -> AddKernel(x) [] n.op = "Sub" -> SubKernel(x)
    [] n.op = "Mul" -> MulKernel(x) [] n.op = "Div" -> DivKernel(x)
    [] n.op = "Pow" -> PowKernel(x) [] n.op = "Mod" -> ModKernel(n, x)
    [] n.op = "Max" -> MaxKernel(x) [] n.op = "Min" -> MinKernel(x)
    [] n.op = "Sum" -> SumKernel(x) [] n.op = "Clip" -> ClipKernel(n, x)
    [] n.op = "Neg" -> NegKernel(x) [] n.op = "Floor" -> FloorKernel(x)
    [] n.op = "Log" -> LogKernel(x) [] n.op = "Sqrt" -> SqrtKernel(x)
    [] n.op = "Sigmoid" -> SigmoidKernel(x) [] n.op = "Tanh" -> TanhKernel(x)
    [] n.op = "Relu" -> ReluKernel(x) [] n.op = "LeakyRelu" -> LeakyReluKernel(n, x)
    [] n.op = "Equal" -> EqualKernel(x) [] n.op = "Less" -> LessKernel(x)
    [] n.op = "LessOrEqual" -> LessOrEqualKernel(x) [] n.op = "Greater" -> GreaterKernel(x)
    [] n.op = "GreaterOrEqual" -> GreaterOrEqualKernel(x) [] n.op = "And" -> AndKernel(x)
    [] n.op = "Or" -> OrKernel(x) [] n.op = "Not" -> NotKernel(x)
    [] n.op \in {"ReduceSum", "ReduceMean", "ReduceMax", "ReduceProd", "ReduceL2",
                 "ReduceSumSquare"} -> ReduceKernel(n, x)
    [] n.op = "Softmax" -> SoftmaxKernel(n, x) [] n.op = "Einsum" -> EinsumKernel(n, x)
    [] n.op = "LayerNormalization" -> LayerNormalizationKernel(n, x)
    [] n.op = "MatMul" -> MatMulKernel(x) [] n.op = "Gemm" -> GemmKernel(n, x)
    [] n.op = "com.microsoft.Attention" -> AttentionKernel(n, x)
    [] n.op = "com.microsoft.MultiHeadAttention" -> MultiHeadAttentionKernel(n, x)
    [] OTHER -> {}
=============================================================================
