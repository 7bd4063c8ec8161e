--------------------------- MODULE FusionsLinear ---------------------------
(***************************************************************************)
(* The matchers of matrix products with their epilogues: FusedGemm,        *)
(* GemmActivation, ConcatMatMul, ParallelMatMulConcat, ParallelLinear,     *)
(* ParallelEinsum, SwiGlu and Silu; and of the two mixtures of experts.    *)
(***************************************************************************)
EXTENDS FusionGraph

HalfOrSingle == {"float", "float16", "bfloat16"}
IsLinearActivation(n) == Op(n) \in {"Relu", "LeakyRelu", "Tanh", "Sigmoid"}

\* IsBiasShapeForMatMulN: [n] or [1, n].
BiasOf(v, n) == StaticShape(v) /\ Dims(v) \in {<<n>>, <<1, n>>}

\* The common part of CanFuseMatMulAdd and CanFuseMatMulAddActivation: the product
\* is the i-th input of Add, and `out` the value the fusion ends in.
MatMulPlusBias(matmul, add, i, out) ==
  LET a == In(matmul)[1]
      b == In(matmul)[2]
      bias == In(add)[3 - i]
  IN  /\ Arity(matmul, 2, 1) /\ Arity(add, 2, 1) /\ i \in 1..2
      /\ In(add)[i] = Out(matmul)[1]
      /\ SameTypeIn({a, b, bias, out}, HalfOrSingle)
      /\ StaticShape(b) /\ Rank(b) = 2 /\ BiasOf(bias, Dims(b)[2])
      /\ StaticShape(a) => Rank(a) >= 2 /\ Last(Dims(a)) = Dims(b)[1]

\* MatMul -> Add, with the activation when there is one it can take in.
FusedGemm(matmul, accepted) ==
  LET product == Out(matmul)[1]
      reader == CHOOSE r \in Readers(product) : TRUE
      add == reader[1]
      sum == Out(add)[1]
      activation == SingleReader(sum)
      activated == /\ IsLinearActivation(activation) /\ Free(activation, accepted)
                   /\ HasOnlyConsumer(sum, activation, 1) /\ Arity(activation, 1, 1)
                   /\ MatMulPlusBias(matmul, add, reader[2], Out(activation)[1])
  IN  Fuse(/\ Is(matmul, "MatMul", accepted)
           /\ Len(Out(matmul)) = 1 /\ ~Exported(product)
           /\ Cardinality(Readers(product)) = 1
           /\ Is(add, "Add", accepted) /\ Len(Out(add)) = 1 /\ ~Exported(sum)
           /\ activated \/ MatMulPlusBias(matmul, add, reader[2], sum),
           {matmul, add} \cup (IF activated THEN {activation} ELSE {}))

-----------------------------------------------------------------------------
\* A Reshape or an Unsqueeze that only changes the shape of a tensor whose shapes
\* are known.
AliasOnly(n) ==
  /\ Arity(n, 2, 1)
  /\ \/ IsOp(n, "Reshape") /\ IsSmallIntegerInitializer(In(n)[2])
     \/ IsOp(n, "Unsqueeze") /\ UnsqueezeAxes(n) # {}
  /\ SameTypeIn({In(n)[1], Out(n)[1]}, FloatTypes)
  /\ StaticShape(In(n)[1]) /\ StaticShape(Out(n)[1])
  /\ Product(Dims(In(n)[1])) = Product(Dims(Out(n)[1]))

GemmOperands(gemm, out) ==
  Len(In(gemm)) \in 2..3 /\ Len(Out(gemm)) = 1
  /\ SameTypeIn(ToSet(In(gemm)) \cup {out}, FloatTypes)

\* [Reshape ->] Gemm -> Reshape -> activation [-> Reshape or Unsqueeze].
GemmActivationAround(gemm, selected) ==
  LET before == Producer(In(gemm)[1])
      after == SingleReader(Out(gemm)[1])
      activation == SingleReader(Out(after)[1])
      result == Out(activation)[1]
      tail == SingleReader(result)
      viewed == /\ Is(before, "Reshape", selected) /\ AliasOnly(before)
                /\ HasOnlyConsumer(In(gemm)[1], gemm, 1)
                /\ Rank(In(before)[1]) >= 2 /\ Rank(In(gemm)[1]) = 2
      reshaped == /\ ~Exported(result) /\ tail # 0 /\ Free(tail, selected)
                  /\ AliasOnly(tail) /\ HasOnlyConsumer(result, tail, 1)
  IN  Fuse(/\ Is(gemm, "Gemm", selected) /\ Len(In(gemm)) \in 2..3
           /\ Len(Out(gemm)) = 1 /\ ~Exported(Out(gemm)[1])
           /\ Is(after, "Reshape", selected) /\ AliasOnly(after)
           /\ HasOnlyConsumer(Out(gemm)[1], after, 1)
           /\ IsLinearActivation(activation) /\ Free(activation, selected)
           /\ HasOnlyConsumer(Out(after)[1], activation, 1)
           /\ Len(Out(activation)) = 1
           /\ GemmOperands(gemm, IF reshaped THEN Out(tail)[1] ELSE result)
           /\ \A v \in {In(gemm)[1], In(gemm)[2]} : StaticShape(v) /\ Rank(v) = 2,
           {gemm, after, activation} \cup (IF viewed THEN {before} ELSE {})
                                     \cup (IF reshaped THEN {tail} ELSE {}))

\* Gemm -> activation.
GemmActivationDirect(gemm, selected) ==
  LET activation == SingleReader(Out(gemm)[1])
  IN  Fuse(/\ Is(gemm, "Gemm", selected)
           /\ Len(Out(gemm)) = 1 /\ ~Exported(Out(gemm)[1])
           /\ IsLinearActivation(activation) /\ Free(activation, selected)
           /\ HasOnlyConsumer(Out(gemm)[1], activation, 1) /\ Arity(activation, 1, 1)
           /\ GemmOperands(gemm, Out(activation)[1])
           /\ \A v \in {In(gemm)[1], In(gemm)[2]} : StaticShape(v) => Rank(v) = 2,
           {gemm, activation})

\* The candidates of FindGemmActivationFusions in order: a node that one candidate
\* takes is no longer free for the next, and the reshaped ones come first.
GemmActivations(accepted) ==
  LET around ==
        FoldLeftDomain(LAMBDA found, n :
            found \o Made(GemmActivationAround(n, accepted \cup UNION ToSet(found))),
          <<>>, graph.node)
      taken == accepted \cup UNION ToSet(around)
  IN  FoldLeftDomain(LAMBDA found, n : found \o Made(GemmActivationDirect(n, taken)),
                     around, graph.node)

-----------------------------------------------------------------------------
\* x * Sigmoid(x), the sigmoid at the i-th input of Mul.
SiluAt(mul, i, accepted) ==
  LET sigmoid == Producer(In(mul)[i])
      x == In(mul)[3 - i]
  IN  Fuse(/\ Is(mul, "Mul", accepted) /\ Arity(mul, 2, 1)
           /\ Is(sigmoid, "Sigmoid", accepted) /\ Arity(sigmoid, 1, 1)
           /\ In(sigmoid) = <<x>> /\ HasSingleConsumerAt(Out(sigmoid)[1], mul, i),
           [sigmoid |-> sigmoid, gate |-> x])

Silu(mul, accepted) ==
  {{s.sigmoid, mul} : s \in {t \in SiluAt(mul, 1, accepted) \cup SiluAt(mul, 2, accepted) :
     SameTypeIn({t.gate, Out(t.sigmoid)[1], Out(mul)[1]}, FloatTypes)}}

\* MatMul of an input with a constant matrix of known shape.
kSwiGluMaxInputRank == 8
Projection(v, accepted) ==
  LET matmul == Producer(v)
  IN  /\ Is(matmul, "MatMul", accepted) /\ Arity(matmul, 2, 1)
      /\ IsConst(In(matmul)[2]) /\ StaticShape(In(matmul)[2]) /\ Rank(In(matmul)[2]) = 2

\* Silu(input * gate_weight) * (input * up_weight), the gated half at the i-th
\* input of the last Mul.
SwiGluAt(mul, i, accepted) ==
  LET gated == Producer(In(mul)[i])
      up == In(mul)[3 - i]
      upMatMul == Producer(up)
      weight(n) == In(n)[2]
      Half(s) ==
        LET gate == s.gate
            matmul == Producer(gate)
            input == In(matmul)[1]
        IN  Fuse(/\ ~Exported(gate) /\ ~Exported(up)
                 /\ Cardinality(Readers(gate)) = 2
                 /\ ReaderNodes(gate) = {s.sigmoid, gated}
                 /\ HasOnlyConsumer(up, mul, 3 - i)
                 /\ Projection(gate, accepted) /\ Projection(up, accepted)
                 /\ matmul # upMatMul /\ In(upMatMul)[1] = input
                 /\ Dims(weight(matmul)) = Dims(weight(upMatMul))
                 /\ Ranked(input) /\ Rank(input) \in 2..kSwiGluMaxInputRank
                 /\ Last(Dims(input)) \in {-1, Dims(weight(matmul))[1]}
                 /\ SameTypeIn({input, weight(matmul), weight(upMatMul), gate, up,
                                Out(s.sigmoid)[1], Out(gated)[1], Out(mul)[1]},
                               HalfOrSingle),
                 {matmul, upMatMul, s.sigmoid, gated, mul})
  IN  IF /\ Is(mul, "Mul", accepted) /\ Arity(mul, 2, 1)
         /\ Is(gated, "Mul", accepted) /\ Arity(gated, 2, 1)
         /\ HasSingleConsumerAt(Out(gated)[1], mul, i)
      THEN UNION {Half(s) : s \in SiluAt(gated, 1, accepted) \cup SiluAt(gated, 2, accepted)}
      ELSE {}

SwiGlu(mul, accepted) ==
  IF SwiGluAt(mul, 1, accepted) # {} THEN SwiGluAt(mul, 1, accepted)
  ELSE SwiGluAt(mul, 2, accepted)

-----------------------------------------------------------------------------
\* Four gated three-layer perceptrons over one input, concatenated.
BikEinsum == "ij,bjk->bik"
IsBik(n) == IsOp(n, "Einsum") /\ AttrIs(n, "equation", BikEinsum)

\* The nodes of a branch, and the input of the last Mul and of the Add that the
\* chain comes in at.
EinsumNodes(concat, i) ==
  LET mul == Producer(In(concat)[i])
      addAt == IF IsOp(Producer(In(mul)[1]), "Add") THEN 1 ELSE 2
      add == Producer(In(mul)[addAt])
      thirdAt == IF IsBik(Producer(In(add)[1])) THEN 1 ELSE 2
      third == Producer(In(add)[thirdAt])
      tanh2 == Producer(In(third)[2])
      second == Producer(In(tanh2)[1])
      tanh1 == Producer(In(second)[2])
  IN  [mul |-> mul, addAt |-> addAt, add |-> add, thirdAt |-> thirdAt, third |-> third,
       tanh2 |-> tanh2, second |-> second, tanh1 |-> tanh1, first |-> Producer(In(tanh1)[1])]

EinsumBranch(concat, i, accepted) ==
  LET Bik(n) == /\ IsBik(n) /\ Free(n, accepted) /\ Arity(n, 2, 1)
                /\ IsFloat(In(n)[1]) /\ IsFloat(In(n)[2])
      Tanh(n, reader) == /\ Is(n, "Tanh", accepted) /\ Arity(n, 1, 1)
                         /\ HasSingleConsumerAt(Out(n)[1], reader, 2)
      Feeds(n, reader) == HasSingleConsumerAt(Out(n)[1], reader, 1)
      Weight(n) == In(n)[1]
      Match(e) ==
        LET out == In(concat)[i]
            gate == In(e.mul)[3 - e.addAt]
            bias == In(e.add)[3 - e.thirdAt]
            input == In(e.first)[2]
            hidden == Dims(Weight(e.first))[1]
            width == Dims(Weight(e.first))[2]
        IN  Fuse(/\ HasSingleConsumerAt(out, concat, i) /\ IsFloat(out)
                 /\ Is(e.mul, "Mul", accepted) /\ Arity(e.mul, 2, 1)
                 /\ Is(e.add, "Add", accepted) /\ Arity(e.add, 2, 1) /\ IsFloat(gate)
                 /\ HasSingleConsumerAt(In(e.mul)[e.addAt], e.mul, e.addAt)
                 /\ Bik(e.third) /\ IsFloat(bias)
                 /\ HasSingleConsumerAt(In(e.add)[e.thirdAt], e.add, e.thirdAt)
                 /\ Tanh(e.tanh2, e.third) /\ Bik(e.second) /\ Feeds(e.second, e.tanh2)
                 /\ Tanh(e.tanh1, e.second) /\ Bik(e.first) /\ Feeds(e.first, e.tanh1)
                 /\ \A n \in {e.first, e.second, e.third} :
                      StaticShape(Weight(n)) /\ Rank(Weight(n)) = 2
                 /\ HasRank(input, 3) /\ HasRank(gate, 3) /\ HasRank(bias, 2) /\ HasRank(out, 3)
                 /\ Dims(Weight(e.second)) = <<hidden, hidden>>
                 /\ Dims(Weight(e.third)) = <<width, hidden>>
                 /\ Tail(Dims(input)) = <<width, 1>> /\ Tail(Dims(gate)) = <<width, 1>>
                 /\ Dims(bias) = <<width, 1>>
                 /\ ShapesEqualOnKnownDims(Dims(gate), Dims(out)),
                 [nodes |-> {e.first, e.tanh1, e.second, e.tanh2, e.third, e.add, e.mul},
                  shares |-> <<input, gate, bias, Dims(Weight(e.first)),
                               Dims(Weight(e.second)), Dims(Weight(e.third))>>])
  IN  Match(EinsumNodes(concat, i))

ParallelEinsum(concat, accepted) ==
  LET branches == [i \in 1..4 |-> EinsumBranch(concat, i, accepted)]
      found == UNION {branches[i] : i \in 1..4}
  IN  Fuse(/\ Is(concat, "Concat", accepted) /\ Arity(concat, 4, 1)
           /\ IsFloat(Out(concat)[1]) /\ HasRank(Out(concat)[1], 3)
           /\ AxisIs(concat, 3, 2) /\ Dims(Out(concat)[1])[3] = 4
           /\ \A i \in 1..4 : branches[i] # {}
           /\ Cardinality({b.shares : b \in found}) = 1,
           {concat} \cup UNION {b.nodes : b \in found})

-----------------------------------------------------------------------------
\* Concat -> MatMul of equal rank, the Concat at the i-th input.
CanFuseConcatMatMul(concat, matmul, i) ==
  LET other == In(matmul)[3 - i]
      rank == Rank(In(concat)[1])
      inputs == ToSet(In(concat))
      axis == NormalizeAxis(AttrOr(concat, "axis", 0), rank) + 1
      sizes == [k \in DOMAIN In(concat) |-> Dims(In(concat)[k])[axis]]
      joined(d) == IF d # axis THEN UNION {Known(v, d) : v \in inputs}
                   ELSE IF \A k \in DOMAIN sizes : sizes[k] > 0 THEN {Total(sizes)} ELSE {}
      lhs(d) == IF i = 1 THEN joined(d) ELSE Known(other, d)
      rhs(d) == IF i = 1 THEN Known(other, d) ELSE joined(d)
  IN  /\ Len(In(concat)) >= 2 /\ Len(Out(concat)) = 1 /\ Arity(matmul, 2, 1)
      /\ SameTypeIn(inputs \cup {Out(concat)[1], other, Out(matmul)[1]}, HalfOrSingle)
      /\ Attr(concat, "axis") # {}
      /\ \A v \in inputs \cup {other} : Ranked(v) /\ Rank(v) = rank
      /\ rank >= 2 /\ axis > 0
      /\ \A d \in (1..rank) \ {axis} : Cardinality(joined(d)) <= 1
      /\ \A d \in 1..(rank - 2) : Agree(lhs(d), rhs(d))
      /\ Agree(lhs(rank), rhs(rank - 1))

ConcatMatMul(concat, accepted) ==
  LET reader == CHOOSE r \in Readers(Out(concat)[1]) : TRUE
      matmul == reader[1]
  IN  Fuse(/\ Is(concat, "Concat", accepted)
           /\ Len(Out(concat)) = 1 /\ ~Exported(Out(concat)[1])
           /\ Cardinality(Readers(Out(concat)[1])) = 1 /\ reader[2] \in 1..2
           /\ Is(matmul, "MatMul", accepted)
           /\ CanFuseConcatMatMul(concat, matmul, reader[2])
           /\ ParallelEinsum(concat, accepted) = {},
           {concat, matmul})

\* Products of one input with weights of one shape, unsqueezed and concatenated
\* along the new axis.
ParallelMatMulConcat(concat, accepted) ==
  LET unsqueeze(i) == Producer(In(concat)[i])
      product(i) == In(unsqueeze(i))[1]
      matmul(i) == Producer(product(i))
      input == In(matmul(1))[1]
      weight(i) == In(matmul(i))[2]
      rank == Rank(product(1)) + 1
      \* a shape with the parts at the concatenation axis, next to last
      Stacked(shape, d) == SubSeq(shape, 1, rank - 2) \o <<d>> \o <<Last(shape)>>
      Like(v, d) == /\ HasRank(v, rank) /\ Dims(v)[rank - 1] = d
                    /\ \A r \in 1..rank : r # rank - 1 =>
                         KnownDimsEqual(Dims(v)[r], Stacked(Dims(product(1)), d)[r])
      Branch(i) ==
        /\ HasSingleConsumerAt(In(concat)[i], concat, i)
        /\ Is(unsqueeze(i), "Unsqueeze", accepted)
        /\ In(unsqueeze(i)) # <<>> /\ Len(Out(unsqueeze(i))) = 1
        /\ HasSingleConsumerAt(product(i), unsqueeze(i), 1)
        /\ Is(matmul(i), "MatMul", accepted) /\ Arity(matmul(i), 2, 1)
        /\ In(matmul(i))[1] = input
        /\ StaticShape(weight(i)) /\ Rank(weight(i)) = 2 /\ Ranked(product(i))
        /\ Rank(product(i)) >= 2 /\ HasRank(In(concat)[i], Rank(product(i)) + 1)
        /\ KnownDimsEqual(Last(Dims(product(i))), Dims(weight(i))[2])
        /\ Dims(weight(i)) = Dims(weight(1))
        /\ ShapesEqualOnKnownDims(Dims(product(1)), Dims(product(i)))
        /\ AxisIs(concat, rank, rank - 2)
        /\ \E axes \in UnsqueezeAxes(unsqueeze(i)) :
             Len(axes) = 1 /\ NormalizeAxis(axes[1], rank) = rank - 2
        /\ Dims(In(concat)[i])[rank - 1] = 1
        /\ \A r \in 1..(rank - 1) :
             KnownDimsEqual(Dims(In(concat)[i])[IF r = rank - 1 THEN rank ELSE r],
                            Dims(product(i))[r])
  IN  Fuse(/\ Is(concat, "Concat", accepted)
           /\ Len(In(concat)) >= 2 /\ Len(Out(concat)) = 1 /\ ~Exported(Out(concat)[1])
           /\ Attr(concat, "axis") # {}
           /\ \A i \in DOMAIN In(concat) : Branch(i)
           /\ SameTypeIn({Out(concat)[1], input} \cup UNION
                {{In(concat)[i], product(i), weight(i)} : i \in DOMAIN In(concat)},
                HalfOrSingle)
           /\ Like(Out(concat)[1], Len(In(concat))),
           {concat} \cup UNION {{unsqueeze(i), matmul(i)} : i \in DOMAIN In(concat)})

-----------------------------------------------------------------------------
\* One branch of ParallelLinear: MatMul or Gemm with a constant weight, the Add of
\* a constant bias and a Relu behind it when they are there.
LinearBranch(linear, accepted) ==
  LET weight == In(linear)[2]
      product == Out(linear)[1]
      type == DType(product)
      reader == CHOOSE r \in Readers(product) : TRUE
      Bias(v) == IsConst(v) /\ DType(v) = type /\ BiasOf(v, Dims(weight)[2])
      adds == /\ IsOp(linear, "MatMul") /\ Cardinality(Readers(product)) = 1
              /\ reader[2] \in 1..2 /\ Is(reader[1], "Add", accepted)
              /\ Arity(reader[1], 2, 1) /\ Bias(In(reader[1])[3 - reader[2]])
      biased == \/ adds
                \/ IsOp(linear, "Gemm") /\ Len(In(linear)) = 3 /\ In(linear)[3] # Missing
      sum == IF adds THEN Out(reader[1])[1] ELSE product
      relu == SingleReader(sum)
      activated == IsOp(relu, "Relu") /\ HasOnlyConsumer(sum, relu, 1)
  IN  Fuse(/\ \/ Is(linear, "MatMul", accepted) /\ Len(In(linear)) = 2
              \/ Is(linear, "Gemm", accepted) /\ Len(In(linear)) \in 2..3
           /\ Len(Out(linear)) = 1 /\ IsConst(weight)
           /\ SameTypeIn({In(linear)[1], weight, product}, HalfOrSingle)
           /\ IsOp(linear, "Gemm") => /\ AttrOr(linear, "transA", 0) = 0
                                      /\ AttrOr(linear, "transB", 0) = 0
                                      /\ AttrOr(linear, "alpha", "1") = "1"
                                      /\ AttrOr(linear, "beta", "1") = "1"
           /\ StaticShape(weight) /\ Rank(weight) = 2
           /\ biased /\ ~adds => Bias(In(linear)[3])
           /\ IF activated THEN Free(relu, accepted)
              ELSE Exported(sum) \/ Readers(sum) # {}
           /\ biased \/ activated => type = "float",
           [linear |-> linear,
            nodes |-> {linear} \cup (IF adds THEN {reader[1]} ELSE {})
                               \cup (IF activated THEN {relu} ELSE {}),
            out |-> IF activated THEN Out(relu)[1] ELSE sum,
            type |-> type,
            key |-> <<In(linear)[1], Dims(weight), activated>>])

\* The gate and the product of a gated perceptron behind two branches.
GatedMlp(gate, up, accepted) ==
  UNION {LET g == SingleReader(Out(s)[1])
             m == SingleReader(Out(g)[1])
         IN  Fuse(/\ Is(g, "Mul", accepted) /\ Is(m, "Mul", accepted)
                  /\ \A n \in {s, g, m} : Len(Out(n)) = 1
                  /\ {gate, up, Out(s)[1], Out(g)[1]} \cap graph.outputs = {}
                  /\ In(s) = <<gate>>
                  /\ Len(In(g)) = 2 /\ ToSet(In(g)) = {gate, Out(s)[1]}
                  /\ Cardinality(Readers(gate)) = 2 /\ ReaderNodes(gate) = {s, g}
                  /\ SingleReader(up) = m
                  /\ Len(In(m)) = 2 /\ ToSet(In(m)) = {Out(g)[1], up}, {s, g, m})
         : s \in {n \in Node : Is(n, "Sigmoid", accepted)}}

\* Branches that read one input, with weights of one shape and the same epilogue;
\* the candidate is rooted at the first of them.
ParallelLinear(linear, accepted) ==
  LET Group(own, group) ==
        LET gated == {pair \in group \X group :
                        /\ Cardinality(group) = 2 /\ pair[1] # pair[2]
                        /\ \A b \in group : b.key[3] = FALSE /\ b.type = "float"}
        IN  Fuse(/\ own # {} /\ Cardinality(group) >= 2
                 /\ \A b \in group : linear <= b.linear
                 /\ \E b \in own : b.type # "float" => Cardinality(group) <= 3,
                 (UNION {b.nodes : b \in group})
                   \cup UNION UNION {GatedMlp(p[1].out, p[2].out, accepted) : p \in gated})
      Alike(branches, own) == Group(own, {b \in branches : \E o \in own : b.key = o.key})
      Among(branches) == Alike(branches, {b \in branches : b.linear = linear})
  IN  Among(UNION {LinearBranch(n, accepted) : n \in Node})

-----------------------------------------------------------------------------
\* The mixtures of experts: MoE, where a router weighs the outputs of all
\* experts, and SplitSequenceMoE, where every expert works on its own range of
\* the rows.

IsBias(v, width) == StaticShape(v) /\ Dims(v) \in {<<width>>, <<1, width>>}

\* ShapeIsPrefixAndWidth.
PrefixAndWidth(shape, prefix, width) ==
  /\ Len(shape) = Len(prefix) /\ shape # <<>> /\ KnownDimsEqual(Last(shape), width)
  /\ \A i \in 1..(Len(shape) - 1) : KnownDimsEqual(shape[i], prefix[i])

\* Gemm with a transposed weight and no scaling.
IsSupportedGemm(n) ==
  /\ IsOp(n, "Gemm") /\ AttrOr(n, "transA", 0) = 0 /\ AttrOr(n, "transB", 0) = 1
  /\ AttrOr(n, "alpha", "1") = "1" /\ AttrOr(n, "beta", "1") = "1"

\* A value computed by Gemm, or by MatMul and Add, for one consumer.
MoELinear(v, consumer, accepted) ==
  LET last == Producer(v)
      gemm == IsSupportedGemm(last)
      matmuls == {i \in DOMAIN In(last) : IsOp(Producer(In(last)[i]), "MatMul")}
      at == CHOOSE i \in matmuls : TRUE
      linear == IF gemm THEN last ELSE Producer(In(last)[at])
      weight == In(linear)[2]
      bias == IF gemm THEN In(last)[3] ELSE In(last)[3 - at]
      widths == IF gemm THEN Reverse(Dims(weight)) ELSE Dims(weight)
  IN  Fuse(/\ IsFloat(v) /\ last # 0 /\ Free(last, accepted)
           /\ HasSingleConsumerAt(v, consumer, 1)
           /\ IF gemm THEN Arity(last, 3, 1)
              ELSE /\ IsOp(last, "Add") /\ Arity(last, 2, 1) /\ Cardinality(matmuls) = 1
                   /\ Free(linear, accepted) /\ Arity(linear, 2, 1)
                   /\ HasSingleConsumerAt(In(last)[at], last, at)
           /\ \A u \in {In(linear)[1], weight, bias} : IsFloat(u)
           /\ IsConst(weight) /\ IsConst(bias)
           /\ StaticShape(weight) /\ Rank(weight) = 2 /\ IsBias(bias, widths[2]),
           [nodes |-> {last, linear}, linear |-> linear,
            input |-> In(linear)[1], widths |-> widths])

\* One expert: linear -> Relu -> linear -> Relu -> Unsqueeze at the concat axis.
MoEBranch(concat, i, axis, accepted) ==
  LET out == In(concat)[i]
      unsqueeze == Producer(out)
      result == In(unsqueeze)[1]
      relu2 == Producer(result)
      relu1(second) == Producer(second.input)
      Relu(n, reader) == /\ Is(n, "Relu", accepted) /\ Arity(n, 1, 1)
                         /\ HasSingleConsumerAt(Out(n)[1], reader, 1)
      Expert(second, first) ==
        LET x == first.input
        IN  Fuse(/\ Ranked(x) /\ Rank(x) >= 2 /\ Ranked(second.input)
                 /\ KnownDimsEqual(Last(Dims(x)), first.widths[1])
                 /\ first.widths[2] = second.widths[1]
                 /\ PrefixAndWidth(Dims(second.input), Dims(x), first.widths[2])
                 /\ PrefixAndWidth(Dims(result), Dims(x), second.widths[2]),
                 [nodes |-> first.nodes \cup second.nodes
                              \cup {relu1(second), relu2, unsqueeze},
                  shares |-> <<x, first.widths, second.widths>>])
  IN  IF /\ IsFloat(out) /\ HasSingleConsumerAt(out, concat, i)
         /\ Is(unsqueeze, "Unsqueeze", accepted)
         /\ Len(In(unsqueeze)) \in 1..2 /\ Len(Out(unsqueeze)) = 1
         /\ Ranked(result) /\ Rank(result) >= 2 /\ HasRank(out, Rank(result) + 1)
         /\ \E a \in ConstantAxes(unsqueeze) :
              Len(a) = 1 /\ NormalizeAxis(a[1], Rank(out)) = axis
         /\ Dims(out)[axis + 1] = 1
         /\ ShapesEqualOnKnownDims(Dims(out), InsertAt(Dims(result), axis + 1, 1))
         /\ Relu(relu2, unsqueeze)
      THEN UNION UNION
             {{Expert(second, first) :
                 first \in MoELinear(In(relu1(second))[1], relu1(second), accepted)}
              : second \in {s \in MoELinear(In(relu2)[1], relu2, accepted) :
                              Relu(relu1(s), s.linear)}}
      ELSE {}

\* Mul by the router's weights and ReduceSum over the experts.
RouterTail(concat, reader, axis, experts, weights, out, accepted) ==
  LET mul == reader[1]
      sum == SingleReader(Out(mul)[1])
      Shaped(v, shape) == IsFloat(v) /\ Ranked(v) /\ ShapesEqualOnKnownDims(Dims(v), shape)
  IN  Fuse(/\ Is(mul, "Mul", accepted) /\ Arity(mul, 2, 1) /\ reader[2] \in 1..2
           /\ Shaped(Out(mul)[1], experts) /\ Shaped(In(mul)[3 - reader[2]], weights)
           /\ HasSingleConsumerAt(Out(mul)[1], sum, 1)
           /\ Is(sum, "ReduceSum", accepted) /\ AttrIs(sum, "keepdims", 0)
           /\ Len(In(sum)) \in 1..2 /\ Len(Out(sum)) = 1
           /\ \E a \in ConstantAxes(sum) :
                Len(a) = 1 /\ NormalizeAxis(a[1], Len(experts)) = axis
           /\ Shaped(Out(sum)[1], out),
           [mul |-> mul, sum |-> sum])

\* What the Concat of the experts makes, with all its routers.
MoEOf(reduce, concat, stacked, axis, accepted) ==
  LET Match(branch) ==
        LET first == CHOOSE b \in branch[1] : TRUE
            x == Dims(first.shares[1])
            out == [x EXCEPT ![Len(x)] = first.shares[3][2]]
            experts == InsertAt(out, axis + 1, Len(In(concat)))
            weights == [experts EXCEPT ![IF axis = Len(x) THEN Len(x) ELSE Len(x) + 1] = 1]
            Routed(tail, routers) ==
              {S \in {{concat} \cup (UNION {b.nodes : b \in UNION Range(branch)})
                        \cup {r.mul : r \in routers} \cup {r.sum : r \in routers}} :
                 /\ \A r \in DOMAIN tail : tail[r] # {}
                 /\ Cardinality({r.mul : r \in routers}) = Cardinality(DOMAIN tail)
                 /\ reduce \in {r.sum : r \in routers} /\ \A r \in routers : reduce <= r.sum
                 /\ FusionHasNoExternalPathBetweenSelectedNodes(S)}
            Weighed(tail) == Routed(tail, UNION Range(tail))
        IN  IF /\ \A i \in DOMAIN branch : branch[i] # {}
               /\ Cardinality({b.shares : b \in UNION Range(branch)}) = 1
               /\ ShapesEqualOnKnownDims(Dims(stacked), experts)
            THEN Weighed([r \in Readers(stacked) |->
                         RouterTail(concat, r, axis, experts, weights, out, accepted)])
            ELSE {}
  IN  IF /\ Len(In(concat)) >= 2 /\ Len(Out(concat)) = 1 /\ Attr(concat, "axis") # {}
         /\ Ranked(stacked) /\ Rank(stacked) >= 3 /\ ~Exported(stacked)
         /\ axis \in {Rank(stacked) - 2, Rank(stacked) - 1}
      THEN Match([i \in DOMAIN In(concat) |-> MoEBranch(concat, i, axis, accepted)])
      ELSE {}

\* All experts and all routers of the Concat that feeds the ReduceSum; several
\* ReduceSums give the same candidate, which is emitted at the first of them.
MoE(reduce, accepted) ==
  LET weigh == Producer(In(reduce)[1])
      concats == {i \in DOMAIN In(weigh) : IsOp(Producer(In(weigh)[i]), "Concat")}
      Stacked(concat) == MoEOf(reduce, concat, Out(concat)[1],
                               NormalizeAxis(AttrOr(concat, "axis", 0), Rank(Out(concat)[1])),
                               accepted)
  IN  IF /\ Is(reduce, "ReduceSum", accepted) /\ In(reduce) # <<>>
         /\ IsOp(weigh, "Mul") /\ Cardinality(concats) = 1
      THEN UNION {Stacked(n) : n \in {Producer(In(weigh)[i]) : i \in concats} \ accepted}
      ELSE {}

-----------------------------------------------------------------------------
\* A Slice of rows whose bounds are scalars that may be computed at run time.
RowSlice(slice, reader, accepted) ==
  LET scalar(v) == IsInt(v) /\ StaticShape(v) /\ Dims(v) \in {<<>>, <<1>>}
  IN  /\ Is(slice, "Slice", accepted) /\ Arity(slice, 5, 1)
      /\ IsFloat(In(slice)[1]) /\ IsFloat(Out(slice)[1])
      /\ scalar(In(slice)[2]) /\ scalar(In(slice)[3])
      /\ HasSingleConsumerAt(Out(slice)[1], reader, 1)
      /\ IntConstant(In(slice)[4]) = {<<0>>} /\ IntConstant(In(slice)[5]) = {<<1>>}
      /\ HasRank(In(slice)[1], 2) /\ HasRank(Out(slice)[1], 2)
      /\ KnownDimsEqual(Dims(In(slice)[1])[2], Dims(Out(slice)[1])[2])

ExpertGemm(gemm, reader, i, accepted) ==
  LET weight == In(gemm)[2]
  IN  /\ Free(gemm, accepted) /\ IsSupportedGemm(gemm) /\ Arity(gemm, 3, 1)
      /\ \A v \in ToSet(In(gemm)) \cup ToSet(Out(gemm)) : IsFloat(v)
      /\ IsConst(weight) /\ IsConst(In(gemm)[3])
      /\ HasSingleConsumerAt(Out(gemm)[1], reader, i)
      /\ HasRank(In(gemm)[1], 2) /\ HasRank(Out(gemm)[1], 2)
      /\ StaticShape(weight) /\ Rank(weight) = 2 /\ IsBias(In(gemm)[3], Dims(weight)[1])
      /\ KnownDimsEqual(Dims(In(gemm)[1])[2], Dims(weight)[2])
      /\ KnownDimsEqual(Dims(Out(gemm)[1])[2], Dims(weight)[1])

\* LayerNormalization of a range of the rows of the residual sum.
LayerNormBranch(concat, i, accepted) ==
  LET norm == Producer(In(concat)[i])
      scale == In(norm)[2]
      slice == Producer(In(norm)[1])
      residual == Producer(In(slice)[1])
      epsilon == AttrOr(norm, "epsilon", "1e-5")
  IN  Fuse(/\ HasSingleConsumerAt(In(concat)[i], concat, i)
           /\ Is(norm, "LayerNormalization", accepted) /\ Arity(norm, 3, 1)
           /\ \A v \in ToSet(In(norm)) : IsFloat(v)
           /\ IsConst(scale) /\ IsConst(In(norm)[3]) /\ AttrOr(norm, "axis", -1) = -1
           /\ StaticShape(scale) /\ Rank(scale) = 1
           /\ StaticShape(In(norm)[3]) /\ Dims(In(norm)[3]) = Dims(scale)
           /\ HasRank(Out(norm)[1], 2)
           /\ KnownDimsEqual(Dims(Out(norm)[1])[2], Dims(scale)[1]) /\ epsilon # "0"
           /\ slice # 0 /\ In(slice) # <<>> /\ Is(residual, "Add", accepted)
           /\ RowSlice(slice, norm, accepted),
           [slice |-> slice, norm |-> norm, residual |-> residual, epsilon |-> epsilon])

\* Slice -> Gemm -> Relu -> Gemm on the rows of the i-th LayerNormalization.
FfnBranch(concat, i, x, post, accepted) ==
  LET down == Producer(In(concat)[i])
      relu == Producer(In(down)[1])
      up == Producer(In(relu)[1])
      slice == Producer(In(up)[1])
      shape(n) == Dims(In(n)[2])
  IN  Fuse(/\ HasSingleConsumerAt(In(concat)[i], concat, i)
           /\ ExpertGemm(down, concat, i, accepted)
           /\ Is(relu, "Relu", accepted) /\ Arity(relu, 1, 1)
           /\ HasSingleConsumerAt(Out(relu)[1], down, 1)
           /\ ExpertGemm(up, relu, 1, accepted)
           /\ RowSlice(slice, up, accepted) /\ In(slice)[1] = x
           /\ In(slice)[2] = In(post)[2] /\ In(slice)[3] = In(post)[3]
           /\ shape(up) = Reverse(shape(down)) /\ Dims(x)[2] = shape(up)[2],
           [nodes |-> {slice, up, relu, down}, slice |-> slice, shape |-> shape(up)])

SplitSequenceMoE(final, accepted) ==
  LET parts == DOMAIN In(final)
      \* Behind the residual sum: x, and the Concat of the experts at input `at'.
      Experts(post, residual, concat, at, x) ==
        LET sum == Out(residual)[1]
            slices == {post[i].slice : i \in parts}
            Match(ffn) ==
              LET expert == [i \in parts |-> CHOOSE b \in ffn[i] : TRUE]
                  Fused(found) ==
                    {S \in {{final, concat, residual} \cup slices \cup {post[i].norm : i \in parts}
                            \cup UNION {found[i].nodes : i \in parts}} :
                       /\ \A i \in parts : found[i].shape = found[1].shape
                       /\ \A i \in parts : i > 1 => In(found[i].slice)[2] = In(found[i - 1].slice)[3]
                       /\ \A r \in Readers(sum) : r[1] \in slices /\ r[2] = 1
                       /\ FusionHasNoExternalPathBetweenSelectedNodes(S)}
              IN  IF \A i \in parts : ffn[i] # {} THEN Fused(expert) ELSE {}
        IN  IF /\ Free(concat, accepted)
               /\ IsFloat(x) /\ HasRank(x, 2) /\ Dims(x)[2] > 0 /\ Len(Out(concat)) = 1
               /\ HasSingleConsumerAt(Out(concat)[1], residual, at)
               /\ AxisOrZeroIs(concat, 2, 0)
            THEN Match([i \in parts |-> FfnBranch(concat, i, x, post[i].slice, accepted)])
            ELSE {}
      \* From the LayerNormalizations up to the residual sum.
      Norms(norms) ==
        LET post == [i \in parts |-> CHOOSE b \in norms[i] : TRUE]
            residual == (CHOOSE b \in norms[1] : TRUE).residual
            joins == {i \in 1..2 : IsOp(At(residual, i), "Concat")
                                   /\ Len(In(At(residual, i))) = Len(In(final))}
            Same(b) == b.residual = residual /\ b.epsilon = (CHOOSE c \in norms[1] : TRUE).epsilon
        IN  IF /\ \A i \in parts : norms[i] # {} /\ \A b \in norms[i] : Same(b)
               /\ Arity(residual, 2, 1) /\ IsFloat(Out(residual)[1]) /\ ~Exported(Out(residual)[1])
               /\ Cardinality(Readers(Out(residual)[1])) = Len(In(final))
               /\ Cardinality(joins) = 1
            THEN UNION {Experts(post, residual, At(residual, at), at, In(residual)[3 - at]) : at \in joins}
            ELSE {}
  IN  IF /\ Is(final, "Concat", accepted)
         /\ Len(In(final)) >= 2 /\ Len(Out(final)) = 1 /\ IsFloat(Out(final)[1])
         /\ HasRank(Out(final)[1], 2) /\ AxisOrZeroIs(final, 2, 0)
      THEN Norms([i \in parts |-> LayerNormBranch(final, i, accepted)])
      ELSE {}
=============================================================================
