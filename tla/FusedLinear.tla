----------------------------- MODULE FusedLinear -----------------------------
(***************************************************************************)
(* What the fusions of matrix products compute: FusedGemm, GemmActivation, *)
(* Silu, SwiGlu, ConcatMatMul, ParallelMatMulConcat, ParallelLinear and    *)
(* ParallelEinsum, and the two mixtures of experts.  See FusedParts for    *)
(* what a Compute is given and yields.  The scratch memory and the packed  *)
(* constants these fusions keep are the subject of FusedConstants; here a  *)
(* call computes with its own.                                             *)
(***************************************************************************)
EXTENDS FusedParts

Halves == {"float", "float16", "bfloat16"}
PositiveDims(t) == \A i \in DOMAIN t.dims : t.dims[i] > 0
\* A product of the rows of a tensor by a matrix, in the shape of the tensor.
RowProducts(t, w) ==
  IF RankOf(t) < 2 \/ Size(t) = 0
  THEN When(RankOf(t) >= 2 /\ Last(t.dims) = w.dims[1],
            Build(t.dtype, WithLast(t, w.dims[2]), LAMBDA c : 0))
  ELSE {WithDims(y, WithLast(t, w.dims[2])) : y \in MatMulOf(Rows(t), w, FALSE, FALSE)}

-----------------------------------------------------------------------------
\* LinearFusionComputeBase: act(alpha op(A) op(B) + beta C).  The flattened path
\* takes A as it is, whatever a Reshape made of it, and looks for the width of A
\* in the first dimension of B even when B is transposed.
SlopeOf(n) == IF IsOp(n, "LeakyRelu") THEN FloatAttribute(graph.node[n], "alpha", "0.01") ELSE Number("0.01")
LinearFusionCompute(val, product, a, bias, add, flat, activation, shapes) ==
  LET n == graph.node[product]
      given == {a, In(product)[2]} \cup (IF bias = {} THEN {} ELSE bias)
      w == val[In(product)[2]]
      c == IF bias = {} THEN Absent ELSE val[CHOOSE v \in bias : TRUE]
      transA == Attribute(n, "transA", 0) # 0
      transB == Attribute(n, "transB", 0) # 0
      factor(name) == IF add THEN 1 ELSE FloatAttribute(n, name, "1")
      fits(x) == ~transA /\ RankOf(x) >= 2 /\ Last(x.dims) = w.dims[1] /\ PositiveDims(x)
      gemm(x) == GemmOf(x, w, c, transA, transB, factor("alpha"), factor("beta"),
                        IF activation = 0 THEN "" ELSE Op(activation),
                        IF activation = 0 THEN 0 ELSE SlopeOf(activation))
      shaped(x, y) == IF shapes # {} THEN CHOOSE s \in shapes : TRUE
                      ELSE IF flat THEN WithLast(x, Last(y.dims)) ELSE y.dims
      result(x) == {WithDims(y, shaped(x, y)) :
                      y \in UNION {gemm(IF flat THEN Rows(z) ELSE z) : z \in {z \in {x} : flat => fits(z)}}}
  IN  IF given \subseteq DOMAIN val
      THEN When(RankOf(w) = 2 /\ result(val[a]) # {}, CHOOSE y \in result(val[a]) : TRUE)
      ELSE {}

\* The output takes the static shape of the last view.
GemmActivationCompute(val) ==
  LET gemm == The("Gemm")
      activation == CHOOSE n \in Node : Op(n) \in Activations
      reads(n, op, v) == IsOp(n, op) /\ In(n) # <<>> /\ In(n)[1] = v
      before == {n \in Node : IsOp(n, "Reshape") /\ Out(n)[1] = In(gemm)[1]}
      after == {n \in Node : reads(n, "Reshape", Out(gemm)[1])}
      tail == {n \in Node : \E op \in {"Reshape", "Unsqueeze"} : reads(n, op, Out(activation)[1])}
      bias == IF Len(In(gemm)) = 3 THEN {In(gemm)[3]} ELSE {}
      final == Out(IF tail = {} THEN activation ELSE Max(tail))[1]
      viewed == /\ \A n \in before : Len(In(n)) = 2
                /\ StaticShape(final)
      source == IF before = {} THEN In(gemm)[1] ELSE In(Max(before))[1]
  IN  IF Len(In(gemm)) \in 2..3
      THEN IF after # {}
           THEN IF viewed THEN Yields(FirstOutput,
                    LinearFusionCompute(val, gemm, source, bias, FALSE, before # {}, activation, {Dims(final)}))
                ELSE {}
           ELSE IF In(activation) = <<Out(gemm)[1]>>
           THEN Yields(FirstOutput,
                  LinearFusionCompute(val, gemm, In(gemm)[1], bias, FALSE, FALSE, activation, {}))
           ELSE {}
      ELSE {}

FusedGemmCompute(val) ==
  LET matmul == The("MatMul")
      add == The("Add")
      activation == IF Count(Activations) = 0 THEN 0 ELSE CHOOSE n \in Node : Op(n) \in Activations
      side == CHOOSE i \in 1..2 : In(add)[i] = Out(matmul)[1] /\ (i = 2 => In(add)[1] # Out(matmul)[1])
  IN  IF /\ Arity(matmul, 2, 1) /\ Arity(add, 2, 1) /\ Out(matmul)[1] \in ToSet(In(add))
         /\ activation # 0 => In(activation) = Out(add)
      THEN Yields(FirstOutput,
             LinearFusionCompute(val, matmul, In(matmul)[1], {In(add)[3 - side]}, TRUE, TRUE, activation, {}))
      ELSE {}

-----------------------------------------------------------------------------
\* x * sigmoid(x).
SiluOf(v) == Times(v, SigmoidOf(v))
SiluCompute(val) ==
  LET x == In(The("Sigmoid"))[1]
  IN  Yields(FirstOutput, {Mapped(val[v], val[v].dtype, SiluOf) : v \in {x} \cap DOMAIN val})

\* One product by the gate's and the other weight side by side; the first half of
\* every row gates the second.
GatedHalves(t, Gating(_, _), Passing(_, _)) ==
  LET hidden == Last(t.dims) \div 2
      there(c, d) == [c EXCEPT ![Len(c)] = @ + d]
  IN  Build(t.dtype, WithLast(t, hidden), LAMBDA c :
        Times(SiluOf(Gating(Elem(t, c), Last(c))), Passing(Elem(t, there(c, hidden)), Last(c))))
SwiGluCompute(val) ==
  LET gate == At(The("Sigmoid"), 1)
      up == CHOOSE n \in Node : IsOp(n, "MatMul") /\ n # gate
      x == val[In(gate)[1]]
      packed == Joined(<<val[In(gate)[2]], val[In(up)[2]]>>, 1)
  IN  IF IsSwiGluGraph /\ GivenAll({In(gate)[1], In(gate)[2], In(up)[2]}, val)
      THEN Yields(FirstOutput,
             {GatedHalves(p, LAMBDA v, i : v, LAMBDA v, i : v) : p \in
                UNION {RowProducts(t, packed) : t \in {t \in {x} :
                  t.dtype = DType(In(gate)[1]) /\ t.dtype \in Halves}}})
      ELSE {}

-----------------------------------------------------------------------------
\* Concat and MatMul of one rank; no dimension is broadcast.
ConcatMatMulCompute(val) ==
  LET concat == The("Concat")
      matmul == The("MatMul")
      first == In(matmul)[1] = Out(concat)[1]
      other == In(matmul)[IF first THEN 2 ELSE 1]
      x == Inputs(concat, val)
      o == val[other]
      alike(t) == t.dtype = o.dtype /\ RankOf(t) = RankOf(o)
      batch(t) == SubSeq(t.dims, 1, RankOf(t) - 2)
      product(c) == IF batch(c) # batch(o) THEN {}
                    ELSE IF first THEN MatMulOf(c, o, FALSE, FALSE) ELSE MatMulOf(o, c, FALSE, FALSE)
  IN  IF /\ Len(In(concat)) >= 2 /\ Attr(concat, "axis") # {}
         /\ GivenAll(ToSet(In(concat)) \cup {other}, val)
      THEN IF o.dtype \in Halves /\ RankOf(o) >= 2 /\ \A i \in DOMAIN x : alike(x[i])
           THEN Yields(FirstOutput, UNION {product(c) : c \in Concatenated(x, AttrOr(concat, "axis", 0))})
           ELSE {}
      ELSE {}

\* One product by the weights side by side is the stack of the products: a view.
\* The axis is compared as it is written.
ParallelMatMulConcatCompute(val) ==
  LET concat == The("Concat")
      matmul(i) == At(At(concat, i), 1)
      branches == DOMAIN In(concat)
      input == In(matmul(1))[1]
      x == val[input]
      w == [i \in branches |-> val[In(matmul(i))[2]]]
      stacked(y) == WithDims(y, SubSeq(y.dims, 1, RankOf(y) - 1) \o <<Len(w), w[1].dims[2]>>)
  IN  IF /\ Len(In(concat)) >= 2 /\ Attr(concat, "axis") # {}
         /\ \A i \in branches : /\ IsOp(At(concat, i), "Unsqueeze") /\ IsOp(matmul(i), "MatMul")
                                /\ Len(In(matmul(i))) = 2 /\ In(matmul(i))[1] = input
                                /\ GivenAll({input, In(matmul(i))[2]}, val)
      THEN IF /\ RankOf(x) >= 2 /\ AttrIs(concat, "axis", RankOf(x) - 1) /\ x.dtype \in Halves
              /\ RankOf(w[1]) = 2 /\ PositiveDims(w[1])
              /\ \A i \in branches : w[i].dtype = x.dtype /\ w[i].dims = w[1].dims
           THEN Yields(FirstOutput, {stacked(y) : y \in MatMulOf(x, Joined(w, 1), FALSE, FALSE)})
           ELSE {}
      ELSE {}

-----------------------------------------------------------------------------
\* ParallelLinear (parallel_linear_fusion.cc).  A branch is followed by the first
\* node that reads it; biases and weights are read once, when it is created.
FirstReader(v) == IF ReaderNodes(v) = {} THEN 0 ELSE Min(ReaderNodes(v))
LinearBranchOf(linear) ==
  LET product == Out(linear)[1]
      add == IF IsOp(linear, "MatMul") /\ IsOp(FirstReader(product), "Add") THEN FirstReader(product) ELSE 0
      sum == IF add = 0 THEN product ELSE Out(add)[1]
      relu == IsOp(FirstReader(sum), "Relu")
      bias == IF add # 0 THEN {In(add)[IF In(add)[1] = product THEN 2 ELSE 1]}
              ELSE IF IsOp(linear, "Gemm") /\ Len(In(linear)) = 3 THEN {In(linear)[3]} ELSE {}
  IN  [weight |-> In(linear)[2], bias |-> bias, relu |-> relu,
       output |-> IF relu THEN Out(FirstReader(sum))[1] ELSE sum]
\* FindGatedMlpInfo: the numbers of the gate's and the other branch, and the output.
GatedBranches(branches) ==
  LET sigmoid == The("Sigmoid")
      s == Out(sigmoid)[1]
      multiplies(m, u, v) == IsOp(m, "Mul") /\ In(m) \in {<<u, v>>, <<v, u>>}
      muls(u, v) == {m \in Node : multiplies(m, u, v)}
  IN  IF Len(branches) = 2 /\ Count({"Sigmoid"}) = 1 /\ Count({"Mul"}) = 2
      THEN {<<g, Out(m)[1]>> : <<g, m>> \in {<<g, m>> \in (1..2) \X Node :
             /\ In(sigmoid) = <<branches[g].output>>
             /\ \E k \in muls(branches[g].output, s) :
                  m # k /\ multiplies(m, Out(k)[1], branches[3 - g].output)}}
      ELSE {}
\* The factory: the branches share their input and the form of their weights,
\* which are constants, and every result leaves.
ParallelLinearPlans ==
  LET linears == SelectSeq([n \in Node |-> n], LAMBDA n : Op(n) \in {"MatMul", "Gemm"})
      input == In(linears[1])[1]
      branches == [i \in DOMAIN linears |-> LinearBranchOf(linears[i])]
      gated == GatedBranches(branches)
      weight == branches[1].weight
      constant(b) ==
        /\ IsConst(b.weight) /\ DType(b.weight) = DType(weight) /\ Dims(b.weight) = Dims(weight)
        /\ \A v \in b.bias : /\ IsConst(v) /\ StaticShape(v)
                             /\ DType(v) = DType(weight) /\ Product(Dims(v)) = Dims(weight)[2]
  IN  IF /\ \A n \in ToSet(linears) : In(n)[1] = input
         /\ StaticShape(weight) /\ Rank(weight) = 2
         /\ \A i \in DOMAIN branches : constant(branches[i])
         /\ IF gated # {} THEN \A g \in gated : Exported(g[2])
            ELSE \A i \in DOMAIN branches : Exported(branches[i].output)
      THEN {[input |-> input, branches |-> branches, gated |-> gated]} ELSE {}
\* One product of all weights, whose columns are handed out to the branches.
ParallelLinearCompute(val) ==
  LET Of(plan, x) ==
        LET branches == plan.branches
            width == Dims(branches[1].weight)[2]
            activation == \E i \in DOMAIN branches : branches[i].relu
            plus(b, v, i) == IF branches[b].bias = {} THEN v
                             ELSE Plus(v, val[CHOOSE u \in branches[b].bias : TRUE].data[i + 1])
            epilogue(b, v, i) == IF activation THEN ReluOf(plus(b, v, i)) ELSE plus(b, v, i)
            ordinary == x.dtype = "float" \/ Len(branches) <= 3
            \* the elements of the b-th branch in the merged product
            branch(p, b) == Build(p.dtype, WithLast(p, width), LAMBDA c :
              LET v == Elem(p, [c EXCEPT ![Len(c)] = @ + (b - 1) * width])
              IN  IF x.dtype = "float" THEN epilogue(b, v, Last(c)) ELSE v)
            merged == Joined([i \in DOMAIN branches |-> val[branches[i].weight]], 1)
            turned(g) == Joined(<<val[branches[g].weight], val[branches[3 - g].weight]>>, 1)
            runs == /\ x.dtype = DType(branches[1].weight) /\ x.dtype \in Halves
                    /\ x.dtype # "float" => ~activation /\ plan.gated = {}
            products(w) == IF runs THEN RowProducts(x, w) ELSE {}
            place(y) == CHOOSE i \in DOMAIN branches : branches[i].output = y
        IN  IF plan.gated # {}
            THEN UNION {Yields(g[2], {GatedHalves(p, LAMBDA v, i : plus(g[1], v, i),
                                                     LAMBDA v, i : plus(3 - g[1], v, i)) :
                                      p \in products(turned(g[1]))}) : g \in plan.gated}
            ELSE {[y \in {branches[i].output : i \in DOMAIN branches} |-> branch(p, place(y))] :
                    p \in {q \in products(merged) : ordinary}}
  IN  UNION {IF GivenAll({plan.input} \cup UNION {b.bias : b \in ToSet(plan.branches)}, val)
             THEN Of(plan, val[plan.input]) ELSE {} : plan \in ParallelLinearPlans}

-----------------------------------------------------------------------------
\* ParallelEinsum (parallel_einsum_activation_fusion.cc): the first products of
\* the four perceptrons are one, the rest is computed element by element.
kParallelEinsumActivationHeads == 4
\* The factory: the operands of every head, which share input, gate and bias.
ParallelEinsumPlans ==
  LET concat == The("Concat")
      heads == 1..kParallelEinsumActivationHeads
      mul(i) == At(concat, i)
      add(i) == Via(mul(i), "Add")
      third(i) == Via(add(i), "Einsum")
      second(i) == At(At(third(i), 2), 1)
      first(i) == At(At(second(i), 2), 1)
      gate(i) == In(mul(i))[3 - Side(mul(i), "Add")]
      bias(i) == In(add(i))[3 - Side(add(i), "Einsum")]
      parsed(i) == /\ add(i) # 0 /\ third(i) # 0 /\ second(i) # 0 /\ first(i) # 0
                   /\ <<gate(i), bias(i), In(first(i))[2]>> = <<gate(1), bias(1), In(first(1))[2]>>
      operand(node(_)) == [i \in heads |-> In(node(i))[1]]
  IN  IF Len(In(concat)) = kParallelEinsumActivationHeads /\ \A i \in heads : parsed(i)
      THEN {[x |-> In(first(1))[2], gate |-> gate(1), bias |-> bias(1),
             w1 |-> operand(first), w2 |-> operand(second), w3 |-> operand(third)]}
      ELSE {}
ParallelEinsumCompute(val) ==
  LET heads == 1..kParallelEinsumActivationHeads
      dot(n, F(_, _)) == SumOf(Tabulate(n, LAMBDA j : F(j - 1, j)))
      Of(plan, x, g, b) ==
        LET w1 == [i \in heads |-> val[plan.w1[i]]]
            w2 == [i \in heads |-> val[plan.w2[i]]]
            w3 == [i \in heads |-> val[plan.w3[i]]]
            dim == x.dims[2]
            hidden == w1[1].dims[1]
            fits == /\ RankOf(x) = 3 /\ g.dims = x.dims /\ x.dims[3] = 1 /\ b.dims = <<x.dims[2], 1>>
                    /\ \A i \in heads : RankOf(w1[i]) = 2
                    /\ \A i \in heads : w1[i].dims = <<hidden, dim>> /\ w2[i].dims = <<hidden, hidden>>
                                        /\ w3[i].dims = <<dim, hidden>>
            stage1(n, h) == Tabulate(hidden, LAMBDA j :
              TanhOf(dot(dim, LAMBDA d, q : Times(Elem(w1[h], <<j - 1, d>>), Elem(x, <<n, d, 0>>)))))
            stage2(s, h) == Tabulate(hidden, LAMBDA j :
              TanhOf(dot(hidden, LAMBDA i, q : Times(Elem(w2[h], <<j - 1, i>>), s[q]))))
            stage3(s, d, h) == dot(hidden, LAMBDA j, q : Times(Elem(w3[h], <<d, j>>), s[q]))
            inner(n) == Tabulate(kParallelEinsumActivationHeads, LAMBDA h : stage2(stage1(n, h), h))
            states == Tabulate(x.dims[1], LAMBDA n : inner(n - 1))
            cell(c, s) == Times(Elem(g, <<c[1], c[2], 0>>),
                                Plus(stage3(s[c[1] + 1][c[3] + 1], c[2], c[3] + 1), Elem(b, <<c[2], 0>>)))
        IN  IF fits THEN {Build("float", <<x.dims[1], dim, kParallelEinsumActivationHeads>>, LAMBDA c : cell(c, s)) :
                            s \in {states}}
            ELSE {}
      operands(plan) == {plan.x, plan.gate, plan.bias} \cup ToSet(plan.w1 \o plan.w2 \o plan.w3)
  IN  UNION {IF GivenAll(operands(plan), val) /\ \A v \in operands(plan) : val[v].dtype = "float"
             THEN Yields(FirstOutput, Of(plan, val[plan.x], val[plan.gate], val[plan.bias])) ELSE {} :
               plan \in ParallelEinsumPlans}

-----------------------------------------------------------------------------
\* The two mixtures of experts.  Weights, biases and scales are initializers,
\* packed once when the fused node is created.

\* A float initializer of so many elements (ReadFloatInitializer).
Initializer(v, count, val) ==
  /\ v \in DOMAIN val /\ IsConst(v) /\ DType(v) = "float"
  /\ Size(val[v]) = count

\* ParseLinear and Dimensions: Gemm with a transposed weight, or MatMul and Add.
ExpertLinear(v) ==
  LET n == Producer(v)
      gemm == IsOp(n, "Gemm")
      linear == IF gemm THEN n ELSE Via(n, "MatMul")
      dims == Dims(In(linear)[2])
  IN  Fuse(/\ linear # 0 /\ Len(In(n)) = IF gemm THEN 3 ELSE 2
           /\ StaticShape(In(linear)[2]) /\ Len(dims) = 2,
           [input |-> In(linear)[1], weight |-> In(linear)[2], turned |-> gemm,
            bias |-> In(n)[IF gemm THEN 3 ELSE 3 - Side(n, "MatMul")],
            widths |-> IF gemm THEN Reverse(dims) ELSE dims])
Packable(linear, val) ==
  /\ Initializer(linear.weight, Product(linear.widths), val)
  /\ Initializer(linear.bias, linear.widths[2], val)
\* relu(t w + b)
ReluLinear(linear, t, val) ==
  GemmOf(t, val[linear.weight], WithDims(val[linear.bias], <<linear.widths[2]>>),
         FALSE, linear.turned, 1, 1, "Relu", 0)

\* ParseMoEGraph: the experts in the order of the Concat, and for each router its
\* weights and its output.
MoEExperts ==
  LET concat == The("Concat")
      relu(i) == At(At(concat, i), 1)
      second(i) == IF relu(i) = 0 THEN {} ELSE ExpertLinear(In(relu(i))[1])
      expert(i) == UNION {{[first |-> f, second |-> s] :
                             f \in ExpertLinear(In(Producer(s.input))[1])} :
                          s \in {s \in second(i) : Producer(s.input) # 0}}
  IN  IF Len(In(concat)) >= 2 /\ \A i \in DOMAIN In(concat) : expert(i) # {}
      THEN {[i \in DOMAIN In(concat) |-> CHOOSE e \in expert(i) : TRUE]} ELSE {}
MoERouters ==
  {[weights |-> In(r[1])[3 - r[2]], output |-> Out(SingleReader(Out(r[1])[1]))[1]] :
     r \in {r \in Readers(Out(The("Concat"))[1]) :
              Len(In(r[1])) = 2 /\ SingleReader(Out(r[1])[1]) # 0}}

(* Mutant: the experts come before the rows in the router's weights.       *)
ExpertMajorMixture(results, router, dims) ==
  Build("float", dims, LAMBDA c :
    LET row == Offset(SubSeq(c, 1, Len(c) - 1), SubSeq(dims, 1, Len(dims) - 1))
        rows == NumElements(SubSeq(dims, 1, Len(dims) - 1))
    IN  SumOf([e \in DOMAIN results |->
          Times(Elem(results[e], <<row, Last(c)>>), router.data[(e - 1) * rows + row + 1])]))
\* Every router weighs the experts row by row.
RouterMixture(results, router, dims) ==
  Build("float", dims, LAMBDA c :
    LET row == Offset(SubSeq(c, 1, Len(c) - 1), SubSeq(dims, 1, Len(dims) - 1))
    IN  SumOf([e \in DOMAIN results |->
          Times(Elem(results[e], <<row, Last(c)>>), router.data[row * Len(results) + e])]))
MoECompute(val) ==
  LET fits(experts) ==
        LET first == experts[1].first
            second == experts[1].second
        IN  /\ first.widths[2] = second.widths[1]
            /\ \A i \in DOMAIN experts :
                 /\ experts[i].first.widths = first.widths /\ experts[i].first.input = first.input
                 /\ experts[i].second.widths = second.widths
                 /\ Packable(experts[i].first, val) /\ Packable(experts[i].second, val)
            /\ GivenAll({first.input} \cup {r.weights : r \in MoERouters}, val)
            /\ \A r \in MoERouters : Exported(r.output)
      routed(x, w, count) ==
        LET prefix == SubSeq(x.dims, 1, RankOf(x) - 1)
        IN  w.dtype = "float" /\ w.dims \in {prefix \o <<count, 1>>, prefix \o <<1, count>>}
      result(e, x) ==
        LET hidden == CHOOSE t \in ReluLinear(e.first, Rows(x), val) : TRUE
        IN  CHOOSE t \in ReluLinear(e.second, hidden, val) : TRUE
      output(experts, x, results) ==
        [v \in {r.output : r \in MoERouters} |->
           LET router == CHOOSE r \in MoERouters : r.output = v
           IN  RouterMixture(results, val[router.weights],
                             WithLast(x, experts[1].second.widths[2]))]
  IN  UNION {
        LET x == val[experts[1].first.input]
        IN  IF /\ x.dtype = "float" /\ RankOf(x) >= 2 /\ Last(x.dims) = experts[1].first.widths[1]
               /\ \A r \in MoERouters : routed(x, val[r.weights], Len(experts))
            THEN {output(experts, x, Tabulate(Len(experts), LAMBDA i : result(experts[i], x)))} ELSE {} :
        experts \in {e \in MoEExperts : MoERouters # {} /\ fits(e)}}

-----------------------------------------------------------------------------
\* SplitSequenceMoE: every group of rows has its own perceptron and norm, and the
\* groups are told by boundaries in ascending order from the first row to the last.
SplitSequenceGroups ==
  LET final == CHOOSE n \in Node : IsOp(n, "Concat") /\ IsOp(At(n, 1), "LayerNormalization")
      residual == At(At(At(final, 1), 1), 1)
      joined == Via(residual, "Concat")
      norm(i) == At(final, i)
      slice(i) == At(norm(i), 1)
      down(i) == At(joined, i)
      up(i) == At(At(down(i), 1), 1)
      group(i) ==
        UNION {{[from |-> In(slice(i))[2], to |-> In(slice(i))[3], up |-> u, down |-> d,
                 scale |-> In(norm(i))[2], shift |-> In(norm(i))[3],
                 epsilon |-> FloatAttribute(graph.node[norm(i)], "epsilon", "1e-5")] :
                  u \in ExpertLinear(Out(up(i))[1]), d \in ExpertLinear(Out(down(i))[1])}}
      parsed(i) == /\ Len(In(norm(i))) = 3 /\ Len(In(slice(i))) = 5
                   /\ At(slice(i), 1) = residual
                   /\ IsOp(down(i), "Gemm") /\ IsOp(up(i), "Gemm")
                   /\ SubSeq(In(At(up(i), 1)), 2, 3) = SubSeq(In(slice(i)), 2, 3)
                   /\ In(At(up(i), 1))[1] = In(residual)[3 - Side(residual, "Concat")]
  IN  IF /\ Len(In(joined)) = Len(In(final)) /\ Len(In(final)) >= 2
         /\ \A i \in DOMAIN In(final) : parsed(i) /\ group(i) # {}
      THEN {[i \in DOMAIN In(final) |-> CHOOSE g \in group(i) : TRUE]} ELSE {}
SplitSequenceInput ==
  LET residual == The("Add") IN In(residual)[3 - Side(residual, "Concat")]

\* LaunchSplitSequenceMoESkipLayerNorm, one row: the norm of x + f.
SkipNorm(x, f, scale, shift, epsilon) ==
  LET width == Len(x)
      sum == [i \in DOMAIN x |-> Plus(x[i], f[i])]
      mean == Over(SumOf(sum), width)
      centered == [i \in DOMAIN x |-> Minus(sum[i], mean)]
      variance == Over(SumOf([i \in DOMAIN x |-> Times(centered[i], centered[i])]), width)
      inverse == Over(1, SqrtOf(Plus(variance, epsilon)))
  IN  [i \in DOMAIN x |-> Plus(Times(Times(centered[i], inverse), scale[i]), shift[i])]
SplitSequenceMoECompute(val) ==
  LET width(groups) == groups[1].up.widths[1]
      input == SplitSequenceInput
      told(v) == SmallIntInitializer(v) # {} \/ v \in DOMAIN val
      fits(groups) ==
        /\ input \in DOMAIN val /\ HasRank(input, 2)
        /\ groups[1].down.widths = Reverse(groups[1].up.widths)
        /\ \A i \in DOMAIN groups :
             /\ groups[i].up.widths = groups[1].up.widths
             /\ groups[i].down.widths = groups[1].down.widths
             /\ groups[i].epsilon = groups[1].epsilon
             /\ Packable(groups[i].up, val) /\ Packable(groups[i].down, val)
             /\ Initializer(groups[i].scale, width(groups), val)
             /\ Initializer(groups[i].shift, width(groups), val)
             /\ told(groups[i].to)
        /\ told(groups[1].from)
      boundary(groups, k) == IF k = 0 THEN groups[1].from ELSE groups[k].to
      offset(groups, k) == val[boundary(groups, k)].data[1]
      bounded(groups, rows) ==
        /\ \A k \in 0..Len(groups) : Size(val[boundary(groups, k)]) = 1
        /\ offset(groups, 0) = 0 /\ offset(groups, Len(groups)) = rows
        /\ \A k \in 1..Len(groups) : offset(groups, k - 1) <= offset(groups, k)
      group(groups, row) == Min({k \in DOMAIN groups : row < offset(groups, k)})
      line(t, row) == SubSeq(t.data, row * Last(t.dims) + 1, (row + 1) * Last(t.dims))
      ffn(g, x, row) ==
        LET t == [x EXCEPT !.dims = <<1, x.dims[2]>>, !.data = line(x, row)]
            hidden == CHOOSE h \in ReluLinear(g.up, t, val) : TRUE
        IN  (CHOOSE f \in GemmOf(hidden, val[g.down.weight],
                                 WithDims(val[g.down.bias], <<g.down.widths[2]>>),
                                 FALSE, TRUE, 1, 1, "", 0) : TRUE).data
      normed(g, x, row) ==
        SkipNorm(line(x, row), ffn(g, x, row), val[g.scale].data, val[g.shift].data, g.epsilon)
      result(groups, x) ==
        [x EXCEPT !.data = FlattenSeq(Tabulate(x.dims[1], LAMBDA r :
           normed(groups[group(groups, r - 1)], x, r - 1)))]
  IN  UNION {
        LET x == val[input]
        IN  IF x.dtype = "float" /\ RankOf(x) = 2
            THEN IF x.dims[2] = width(groups) /\ bounded(groups, x.dims[1])
                 THEN Yields(FirstOutput, {result(groups, x)}) ELSE {}
            ELSE {} :
        groups \in {g \in SplitSequenceGroups : fits(g)}}
=============================================================================
