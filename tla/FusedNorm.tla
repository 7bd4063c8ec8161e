------------------------------ MODULE FusedNorm ------------------------------
(***************************************************************************)
(* What the fusions of normalisations, reductions and chains of            *)
(* elementwise operators compute.  Each takes its input by a path through  *)
(* the part, as its factory does, and what the path does not tell is       *)
(* assumed: a compute never looks at the nodes again.                      *)
(***************************************************************************)
EXTENDS FusedParts

\* The Mul that writes an output of the fused node, the last one there is.
OutputMul ==
  LET muls == {n \in Node : IsOp(n, "Mul") /\ Len(Out(n)) = 1 /\ Exported(Out(n)[1])}
  IN  IF muls = {} THEN 0 ELSE Max(muls)

(* Mutant: epsilon is added to the root.                                   *)
RmsScaledLate(x, gamma, epsilon) ==
  LET line(c) == Tabulate(Last(x.dims), LAMBDA i : Elem(x, [c EXCEPT ![RankOf(x)] = i - 1]))
      mean(c) == Over(SumOf([i \in DOMAIN line(c) |-> Times(line(c)[i], line(c)[i])]), Last(x.dims))
      inverse(c) == Over(1, Plus(SqrtOf(mean(c)), epsilon))
  IN  Build(x.dtype, x.dims, LAMBDA c :
        Times(Times(Elem(x, c), inverse(c)), gamma.data[Last(c) + 1]))
\* x / sqrt(mean(x^2) + epsilon) * gamma, row by row.
RmsScaled(x, gamma, epsilon) ==
  LET line(c) == Tabulate(Last(x.dims), LAMBDA i : Elem(x, [c EXCEPT ![RankOf(x)] = i - 1]))
      mean(c) == Over(SumOf([i \in DOMAIN line(c) |-> Times(line(c)[i], line(c)[i])]), Last(x.dims))
      inverse(c) == Over(1, SqrtOf(Plus(mean(c), epsilon)))
  IN  Build(x.dtype, x.dims, LAMBDA c :
        Times(Times(Elem(x, c), inverse(c)), gamma.data[Last(c) + 1]))

\* The mean under the root, and the epsilon it is told by.
MeanOf(div) ==
  LET add == At(At(div, 2), 1)
      reduce == Via(add, "ReduceMean")
  IN  [epsilon |-> In(add)[3 - Side(add, "ReduceMean")], square |-> At(reduce, 1),
       found |-> IsOp(At(div, 2), "Sqrt") /\ IsOp(add, "Add") /\ reduce # 0]
RmsNormed(x, gamma, epsilon, types) ==
  IF /\ x.dtype \in types /\ gamma.dtype = x.dtype
     /\ RankOf(x) >= 2 /\ Last(x.dims) > 0 /\ gamma.dims = <<Last(x.dims)>>
  THEN {RmsScaled(x, gamma, epsilon)} ELSE {}

RmsNormCompute(val) ==
  LET side == Side(OutputMul, "Div")
      div == At(OutputMul, side)
      x == In(div)[1]
      gamma == In(OutputMul)[3 - side]
      m == MeanOf(div)
      squared == /\ Len(In(m.square)) = 2 /\ In(m.square)[1] = x
                 /\ \/ IsOp(m.square, "Mul") /\ In(m.square)[2] = x
                    \/ IsOp(m.square, "Pow") /\ ScalarFloat(In(m.square)[2]) = {"2"}
  IN  UNION {Yields(Out(OutputMul)[1],
               RmsNormed(val[x], val[gamma], Number(e), FloatTypes)) :
        e \in {f \in ScalarFloat(m.epsilon) :
                 /\ m.found /\ squared /\ GivenAll({x, gamma}, val)
                 /\ DType(m.epsilon) = DType(x)}}
CastRmsNormCompute(val) ==
  LET side == Side(OutputMul, "Cast")
      div == At(At(OutputMul, side), 1)
      inputCast == At(div, 1)
      x == In(inputCast)[1]
      gamma == In(OutputMul)[3 - side]
      m == MeanOf(div)
  IN  UNION {Yields(Out(OutputMul)[1], RmsNormed(val[x], val[gamma], Number(e), {"bfloat16"})) :
        e \in {f \in ScalarFloat(m.epsilon) :
                 /\ m.found /\ IsOp(inputCast, "Cast") /\ Op(m.square) \in {"Mul", "Pow"}
                 /\ DType(m.epsilon) = "float" /\ GivenAll({x, gamma}, val)
                 /\ \A v \in {x, gamma, Out(OutputMul)[1]} : DType(v) = "bfloat16"}}

-----------------------------------------------------------------------------
\* Both reductions of a row, always over the last dimension.
ReduceOpForNode(n) == IF Op(n) \in {"ReduceSum", "ReduceProd"} THEN {Op(n)} ELSE {}
CenteredRows(first, second, x) ==
  LET line(row) == SubSeq(x.data, row * Last(x.dims) + 1, (row + 1) * Last(x.dims))
      center(row) == ReduceOf(first, x.dtype, line(row))
      squares(row) == Tabulate(Last(x.dims), LAMBDA i :
                        LET d == Minus(line(row)[i], center(row)) IN Times(d, d))
      dims == WithLast(x, 1)
      rows(F(_)) == [x EXCEPT !.dims = dims,
                              !.data = Tabulate(NumElements(dims), LAMBDA r : F(r - 1))]
  IN  <<rows(center), rows(LAMBDA r : ReduceOf(second, x.dtype, squares(r)))>>
CenteredReduceCompute(val) ==
  LET seconds == {n \in Node : ReduceOpForNode(n) # {} /\ IsOp(At(n, 1), "Mul")}
      second == Min(seconds)
      mul == At(second, 1)
      sub == At(mul, 1)
      first == At(sub, 2)
      x == In(sub)[1]
      parsed == /\ seconds # {} /\ In(mul)[1] = In(mul)[2] /\ IsOp(sub, "Sub")
                /\ ReduceOpForNode(first) # {} /\ In(first)[1] = x
                /\ Exported(Out(first)[1]) /\ Exported(Out(second)[1]) /\ x \in DOMAIN val
  IN  IF ~parsed THEN {}
      ELSE {(Out(first)[1] :> y[1]) @@ (Out(second)[1] :> y[2]) :
              y \in {CenteredRows(Op(first), Op(second), t) :
                       t \in {u \in {val[x]} : /\ u.dtype = "float" /\ RankOf(u) >= 2
                                               /\ Last(u.dims) > 0}}}

-----------------------------------------------------------------------------
\* The greatest value among the elements of the same segment.  The values have
\* one element more, which is never read.
SegmentMaxBroadcastCompute(val) ==
  LET final == CHOOSE n \in Node : IsOp(n, "Gather") /\ IsOp(At(n, 1), "ReduceMax")
      unique == At(At(final, 2), 1)
      gather == At(At(final, 1), 1)
      ids == In(unique)[1]
      values == In(gather)[1]
      resolved == /\ IsOp(At(final, 2), "Cast") /\ IsOp(gather, "Gather")
                  /\ IsOp(At(gather, 2), "ScatterND") /\ IsOp(unique, "Unique")
                  /\ Len(In(unique)) = 1 /\ In(At(final, 2))[1] = Out(unique)[3]
      greatest(s, x, i) ==
        FoldLeft(LAMBDA m, j : IF s.data[j] = s.data[i] /\ Before(m, x.data[j]) THEN x.data[j] ELSE m,
                 x.data[i], [j \in DOMAIN s.data |-> j])
      result(s, x) ==
        IF s.dtype = "int64" /\ x.dtype = "float" /\ Size(x) = Size(s) + 1
        THEN {[s EXCEPT !.dtype = "float", !.data = Tabulate(Size(s), LAMBDA i : greatest(s, x, i))]}
        ELSE {}
  IN  IF resolved /\ GivenAll({ids, values}, val)
      THEN Yields(Out(final)[1], result(val[ids], val[values])) ELSE {}

\* log(max(x, c) + c') c'', the constants scalars; the shape is that of x.
MathConcatLogCompute(val) ==
  LET mul == OutputMul
      log == Via(mul, "Log")
      add == At(log, 1)
      max == Via(add, "Max")
      scalar(v) == IF DType(v) = "float" THEN ScalarFloat(v) ELSE {}
      other(n, op) == scalar(In(n)[3 - Side(n, op)])
      open == {i \in DOMAIN In(max) : ~IsConst(In(max)[i])}
      side == Max(open)
      value(x, least, plus, scale) ==
        Mapped(x, "float", LAMBDA v : Times(LogOf(Plus(Greatest(v, least), plus)), scale))
  IN  IF mul = 0 \/ log = 0 \/ ~IsOp(add, "Add") \/ max = 0 \/ Cardinality(open) # 1 THEN {}
      ELSE UNION {Yields(Out(mul)[1], {value(x, Number(m), Number(a), Number(s)) :
                                         x \in {t \in {val[In(max)[side]]} : t.dtype = "float"}}) :
             m \in scalar(In(max)[3 - side]), a \in other(add, "Max"), s \in other(mul, "Log")}

-----------------------------------------------------------------------------
\* The calibration keeps of the graph the bucket count, the lower bound and the
\* place the complement is taken from; the upper bound is one, the weight of a
\* bucket its position and the reciprocal exact.
CalibrationGraph ==
  LET clip(op) == {n \in Node : IsOp(n, "Clip") /\ IsOp(At(n, 1), op)}
      scaled == At(The("Floor"), 1)
      mask == Out(The("Add"))[1]
      weighted == {n \in Node : IsOp(n, "Mul") /\ mask \in ToSet(In(n))}
  IN  IF clip("Cast") = {} \/ clip("Sub") = {} \/ weighted = {} \/ ~IsOp(scaled, "Mul") THEN {}
      ELSE {[relu |-> In(w)[IF In(w)[1] = mask THEN 2 ELSE 1],
             scores |-> In(scaled)[i], bucket |-> In(scaled)[3 - i],
             probability |-> Max(clip("Cast")), complement |-> At(Max(clip("Sub")), 1)] :
              w \in {Min(weighted)}, i \in {j \in 1..2 : ~IsConst(In(scaled)[j])}}
WholeNumbers == {"1", "2", "4"}
Fractions == {"0.5", "0.25", "0.01", "1e-5", "1e-6", "1e-16"}
\* The logit of a row: bucket b counts fully below the score, by the fraction at it.
Calibrated(relu, score, bucket, epsilon, clipped) ==
  LET scaled == Times(score, Residue(bucket))
      left == FloorOf(scaled)
      fraction == Minus(scaled, left)
      weight(b) == IF Before(b, left) THEN 1 ELSE IF b = left THEN fraction ELSE 0
      raw == SumOf(Tabulate(bucket, LAMBDA b : Over(Times(relu[b], weight(b - 1)), bucket)))
      Bounded(v) == LET w == IF Before(v, epsilon) THEN epsilon ELSE v
                    IN  IF Before(1, w) THEN 1 ELSE w
      probability == Bounded(raw)
      complement == Bounded(Minus(1, IF clipped THEN probability ELSE raw))
  IN  LogOf(Over(probability, complement))
RecRankCalibrationCompute(val) ==
  LET clipped(g) == In(g.complement)[2] = Out(g.probability)[1]
      told(g) == clipped(g) \/ In(g.complement)[2] = In(g.probability)[1]
      result(g, relu, scores, bucket, epsilon) ==
        [scores EXCEPT !.dtype = "float", !.data = Tabulate(Size(scores), LAMBDA row :
           Calibrated(SubSeq(relu.data, (row - 1) * bucket + 1, row * bucket),
                      scores.data[row], bucket, epsilon, clipped(g)))]
      fits(relu, scores, bucket) ==
        /\ relu.dtype = "double" /\ scores.dtype = "double"
        /\ RankOf(relu) >= 2 /\ RankOf(scores) = RankOf(relu)
        /\ Last(relu.dims) = bucket /\ Last(scores.dims) = 1
        /\ OthersAgree(relu.dims, scores.dims, RankOf(relu) - 1)
  IN  UNION {UNION {
        IF fits(val[g.relu], val[g.scores], Number(b))
        THEN Yields(Out(The("Log"))[1],
                    {result(g, val[g.relu], val[g.scores], Number(b), Number(e))}) ELSE {} :
          b \in ScalarFloat(g.bucket) \cap WholeNumbers,
          e \in ScalarFloat(In(g.probability)[2]) \cap Fractions} :
        g \in {h \in CalibrationGraph : told(h) /\ GivenAll({h.relu, h.scores}, val)}}
=============================================================================
