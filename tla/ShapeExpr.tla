------------------------------ MODULE ShapeExpr ------------------------------
(***************************************************************************)
(* Shape expressions (shape_expr.cc): a chain of nodes that computes       *)
(* integers from the shapes of some source values and from constants is    *)
(* taken out of the graph, so that a fused node can run it on the host     *)
(* from the shapes of its own inputs.                                      *)
(*                                                                         *)
(* Building and evaluating are one here: a value has an expression, and    *)
(* the expression a result, when the set is not empty.                     *)
(***************************************************************************)
EXTENDS FusionGraph, KernelsMath, TLC

kMaxConstantElements == 4096

\* What a node of the chain computes from the values of its inputs; fixed says
\* which of them no source is behind (ReadConstantOperand accepts only those).
\* Where the kernels are content, it often is not.
Only1(outputs) == {y[1] : y \in outputs}
Sliced(n, x, fixed) ==
  LET node == graph.node[n]
      attrs == "starts" \in DOMAIN node.attr
      starts == IntsOf(node, x, 2, "starts")
      ends == IntsOf(node, x, 3, "ends")
      axes == IF IntsOf(node, x, 4, "axes") = <<>> THEN [i \in DOMAIN starts |-> i - 1]
              ELSE IntsOf(node, x, 4, "axes")
      steps == IntsOf(node, x, 5, "steps")
      axis(i) == NormalizedAxis(axes[i], RankOf(x[1]))
      clamp(v, dim) == LET w == IF v < 0 THEN v + dim ELSE v
                       IN  IF w < 0 THEN 0 ELSE IF w > dim THEN dim ELSE w
      forward(i) == LET dim == x[1].dims[axis(i) + 1] IN clamp(starts[i], dim) <= clamp(ends[i], dim)
  IN  IF /\ attrs \/ (Len(x) >= 3 /\ \A i \in 2..Len(x) : Present(x[i]) => fixed[i])
         /\ Len(starts) = Len(ends) /\ Len(axes) = Len(starts) /\ Len(steps) \in {0, Len(starts)}
         /\ \A i \in DOMAIN steps : steps[i] = 1
         /\ \A i \in DOMAIN axes : axis(i) \in 0..(RankOf(x[1]) - 1)
      THEN IF \A i \in DOMAIN axes : forward(i) THEN Only1(SliceKernel(node, x)) ELSE {}
      ELSE {}

AxesInRange(axes, rank) == \A i \in DOMAIN axes : NormalizedAxis(axes[i], rank) \in 0..(rank - 1)

\* The data of a Gather, all of whose indices are in range (no sentinel rows).
EvalGather(n, x) ==
  LET node == graph.node[n]
      dim == x[1].dims[NormalizedAxis(Attribute(node, "axis", 0), RankOf(x[1])) + 1]
      inside(y) == Size(y) = 0 \/ \A i \in DOMAIN x[2].data : x[2].data[i] \in -dim..(dim - 1)
  IN  IF Len(x) = 2 /\ RankOf(x[1]) > 0 THEN {y \in Only1(GatherKernel(node, x)) : inside(y)} ELSE {}

EvalConcat(n, x) == Only1(ConcatKernel(graph.node[n], x))

EvalReshape(n, x, fixed) ==
  IF Len(x) = 2 /\ fixed[2] /\ Cardinality({i \in DOMAIN x[2].data : x[2].data[i] = -1}) <= 1
  THEN Only1(ReshapeKernel(graph.node[n], x)) ELSE {}

EvalUnsqueeze(n, x, fixed) ==
  LET axes == IntsOf(graph.node[n], x, 2, "axes")
  IN  IF (Len(x) < 2 \/ fixed[2]) /\ axes # <<>> THEN Unsqueezed(x[1], axes) ELSE {}

\* Given axes must name dimensions of one, where the kernel drops what they name.
EvalSqueeze(n, x, fixed) ==
  LET node == graph.node[n]
      axes == IntsOf(node, x, 2, "axes")
      ones == \A a \in AxesSet(axes, RankOf(x[1])) : x[1].dims[a + 1] = 1
  IN  IF (Len(x) < 2 \/ fixed[2]) /\ AxesInRange(axes, RankOf(x[1])) /\ (axes = <<>> \/ ones)
      THEN Only1(SqueezeKernel([node EXCEPT !.ins = <<>>], IF axes = <<>> THEN <<x[1]>> ELSE x)) ELSE {}

EvalReduceProd(n, x, fixed) ==
  LET node == graph.node[n]
      axes == IntsOf(node, x, 2, "axes")
  IN  IF (Len(x) < 2 \/ fixed[2]) /\ AxesInRange(axes, RankOf(x[1]))
      THEN {Reduced("ReduceProd", x[1], AxesSet(axes, RankOf(x[1])), Attribute(node, "keepdims", 1) # 0)}
      ELSE {}

\* Division and remainder fail on a zero, and there is no other operator.
EvalArithmetic(op, x) ==
  LET nonzero == \A i \in DOMAIN x[2].data : x[2].data[i] # 0
  IN  CASE op = "Add" -> Only1(Arithmetic(x, Added))
        [] op = "Sub" -> Only1(Arithmetic(x, Subtracted))
        [] op = "Mul" -> Only1(Arithmetic(x, Multiplied))
        [] op = "Div" /\ nonzero -> Only1(Arithmetic(x, Divided))
        [] op = "Mod" /\ nonzero -> Only1(Broadcast(x[1], x[2], "int64", Modulo))
        [] OTHER -> {}

EvalNode(n, x, fixed) ==
  LET op == Op(n)
      node == graph.node[n]
  IN  CASE op = "Gather" -> EvalGather(n, x)
        [] op = "Cast" -> When(Attribute(node, "to", "none") \in Integral, x[1])
        [] op \in {"Floor", "Ceil", "Identity"} -> {x[1]}
        [] op = "Concat" -> EvalConcat(n, x)
        [] op = "Unsqueeze" -> EvalUnsqueeze(n, x, fixed)
        [] op = "Squeeze" -> EvalSqueeze(n, x, fixed)
        [] op = "Reshape" -> EvalReshape(n, x, fixed)
        [] op = "Slice" -> Sliced(n, x, fixed)
        [] op = "ReduceProd" -> EvalReduceProd(n, x, fixed)
        [] op = "ConstantOfShape" -> Only1(ConstantOfShapeKernel(node, x))
        [] OTHER -> EvalArithmetic(op, x)

-----------------------------------------------------------------------------
\* BuildShapeExpr and EvaluateShapeExpr: the values computed from the shapes of
\* the sources, each with whether it is computed from constants alone.
ShapeValues(shapes) ==
  LET entry(t, fixed) == [t |-> [t EXCEPT !.dtype = "int64"], fixed |-> fixed]
      constants == {v \in DOMAIN graph.info :
        IsConst(v) /\ IsInt(v) /\ Len(graph.info[v].data) <= kMaxConstantElements}
      x(n, env) == [i \in DOMAIN In(n) |-> IF In(n)[i] = Missing THEN Absent ELSE env[In(n)[i]].t]
      fixed(n, env) == [i \in DOMAIN In(n) |-> In(n)[i] = Missing \/ env[In(n)[i]].fixed]
      with(env, v, ts, f) == IF ts = {} THEN env
                             ELSE env @@ (v :> entry(CHOOSE t \in ts : TRUE, f))
      step(env, n) ==
        IF IsOp(n, "Constant")
        THEN with(env, Out(n)[1], {Ints(s) : s \in Attr(n, "value")}, TRUE)
        ELSE IF IsOp(n, "Shape")
        THEN with(env, Out(n)[1],
                  {Ints(shapes[v]) : v \in {u \in DOMAIN shapes : In(n) = <<u>>}}, FALSE)
        ELSE IF ToSet(In(n)) \ {Missing} \subseteq DOMAIN env /\ In(n) # <<>>
        THEN with(env, Out(n)[1], EvalNode(n, x(n, env), fixed(n, env)),
                  \A i \in DOMAIN In(n) : fixed(n, env)[i])
        ELSE env
      first == [v \in constants |-> entry([dtype |-> "int64", dims |-> Dims(v),
                                           data |-> graph.info[v].data], TRUE)]
  IN  FoldLeftDomain(step, first, graph.node)

\* The repeats of a Tile, found that way: the set of the one sequence.
EvaluateShapeExpr(v, values) == IF v \in DOMAIN values THEN {values[v].t.data} ELSE {}
=============================================================================
