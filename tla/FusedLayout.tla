---------------------------- MODULE FusedLayout ----------------------------
(***************************************************************************)
(* What the fusions that move data compute, see FusedParts.  They do not   *)
(* run their nodes: each works out, from constants, static shapes and the  *)
(* shapes of its inputs, where every element of the output comes from.     *)
(***************************************************************************)
EXTENDS FusedParts, ShapeExpr, FusionsLayout

\* ConcatReshape (concat_reshape_fusion.cc).
ConcatReshapeCompute(val) ==
  LET reshape == The("Reshape")
      unsqueeze == From(reshape, 1, "Unsqueeze", 1)
      concat == IF unsqueeze = 0 THEN At(reshape, 1) ELSE At(unsqueeze, 1)
      axes == IF unsqueeze = 0 THEN {<<>>} ELSE SmallIntInitializer(In(unsqueeze)[2])
      joined == IF SameDType(Inputs(concat, val))
                THEN Concatenated(Inputs(concat, val), AttrOr(concat, "axis", 0)) ELSE {}
      wide == UNION {Unsqueezed(t, a) : a \in axes, t \in joined}
  IN  IF GivenAll(ToSet(In(concat)), val)
      THEN Yields(Out(reshape)[1],
             UNION {Reshaped(t, target, AttrOr(reshape, "allowzero", 0) # 0) :
                      target \in SmallIntInitializer(In(reshape)[2]), t \in wide})
      ELSE {}

\* StridedView (strided_view_fusion.cc): the rows of a tensor, in as many
\* segments as there are slices, side by side in the last dimension.
StridedViewCompute(val) ==
  LET source == In(Last(NodesOf("Slice")))[1]
      segments == Count({"Slice"})
      view(x, rows) ==
        Build(x.dtype, <<rows, x.dims[2], x.dims[3] * segments>>, LAMBDA c :
          Elem(x, <<(c[3] \div x.dims[3]) * rows + c[1], c[2], c[3] % x.dims[3]>>))
  IN  IF ~GivenAll({source}, val) THEN {}
      ELSE IF RankOf(val[source]) # 3 THEN {}
      ELSE When(val[source].dims[1] % segments = 0,
                Out(The("Concat"))[1] :> view(val[source], val[source].dims[1] \div segments))

\* ShapeReshape (shape_reshape_fusion.cc): reshapes whose targets are made of
\* constants and of dimensions that a Gather picks, perhaps twice.
GatherShape(v, val) ==
  IF IsOp(Producer(v), "Shape")
  THEN {val[u].dims : u \in {u \in {In(Producer(v))[1]} : GivenAll({u}, val)}}
  ELSE IF Producer(v) = 0 /\ GivenAll({v}, val)
       THEN {s \in {val[v].data} : val[v].dtype \in Integral /\ Len(s) <= kSmallInitializerThreshold}
       ELSE {}
GatherValues(dims, indices) ==
  When(AxesInRange(indices, Len(dims)),
       [i \in DOMAIN indices |-> dims[NormalizedAxis(indices[i], Len(dims)) + 1]])
GatherNodes == {n \in Node : IsOp(n, "Gather") /\ \E m \in ReaderNodes(Out(n)[1]) : IsOp(m, "Concat")}
ShapeReshapeCompute(val) ==
  LET gather == CHOOSE n \in GatherNodes : TRUE
      cast == At(gather, 1)
      pre == From(cast, 1, "Gather", 1)
      shapes == IF pre = 0 THEN GatherShape(In(cast)[1], val)
                ELSE UNION {IF indices = <<>> THEN {dims} ELSE GatherValues(dims, indices) :
                              dims \in GatherShape(In(pre)[1], val),
                              indices \in SmallIntInitializer(In(pre)[2])}
      gathered == UNION {GatherValues(dims, indices) :
                           dims \in shapes, indices \in SmallIntInitializer(In(gather)[2])}
      concats == ReaderNodes(Out(gather)[1])
      final(c) == SingleReader(Out(c)[1])
      reshapes(c) == ReaderNodes(Out(final(c))[1])
      item(c, i, dims) == IF In(c)[i] = Out(gather)[1] THEN {dims} ELSE SmallIntInitializer(In(c)[i])
      target(c, dims) == FoldLeftDomain(LAMBDA done, i : {s \o t : s \in done, t \in item(c, i, dims)},
                                        {<<>>}, In(c))
      reshaped(r, dims) ==
        LET c == CHOOSE d \in concats : r \in reshapes(d)
        IN  IF GivenAll({In(r)[1]}, val)
            THEN UNION {Reshaped(val[In(r)[1]], s, AttrOr(r, "allowzero", 0) # 0) : s \in target(c, dims)}
            ELSE {}
      all == UNION {reshapes(c) : c \in concats}
  IN  IF /\ Cardinality(GatherNodes) = 1 /\ AttrOr(gather, "axis", 0) = 0
         /\ CastTo(cast, "int32") \/ CastTo(cast, "int64")
         /\ pre # 0 => AttrOr(pre, "axis", 0) = 0
      THEN IF /\ \A c \in concats : /\ IsOp(c, "Concat") /\ AttrOr(c, "axis", 0) = 0
                                    /\ CastTo(final(c), "int64")
              /\ all # {}
              /\ \A r \in all : IsOp(r, "Reshape") /\ At(r, 2) \in {final(c) : c \in concats}
                                /\ ~\E c \in concats : In(r)[1] = Out(final(c))[1]
           THEN UNION {Results([y \in {Out(r)[1] : r \in all} |-> reshaped(Producer(y), dims)]) :
                         dims \in gathered}
           ELSE {}
      ELSE {}

-----------------------------------------------------------------------------
\* TileConcat (tile_concat_fusion.cc).  hints are the repeats the matcher found
\* expressions for in the whole graph; in the part nothing but constants is
\* left to build one from.  The tensor is read when neither gives a result.
TileConcatCompute(val, hints) ==
  LET tilesOf(n) == {i \in DOMAIN In(n) : IsOp(At(n, i), "Tile")}
      concats == {n \in Node : IsOp(n, "Concat") /\ tilesOf(n) # {}}
      data(n, i) == IF i \in tilesOf(n) THEN In(At(n, i))[1] ELSE In(n)[i]
      given(n) == {data(n, i) : i \in DOMAIN In(n)} \cup {In(At(n, i))[2] : i \in tilesOf(n)}
      evaluated(v, known) == IF known = {} THEN {val[v].data} ELSE known
      repeats(v, built) == IF v \in DOMAIN hints THEN hints[v] ELSE evaluated(v, EvaluateShapeExpr(v, built))
      piece(n, i, built) ==
        IF i \notin tilesOf(n) THEN {val[data(n, i)]}
        ELSE UNION {Tiled(val[data(n, i)], r) : r \in repeats(In(At(n, i))[2], built)}
      joined(n, built) ==
        UNION {IF SameDType(x) THEN Concatenated(x, AttrOr(n, "axis", 0)) ELSE {} :
                 x \in Results([i \in DOMAIN In(n) |-> piece(n, i, built)])}
  IN  IF Cardinality(concats) # 1 THEN {}
      ELSE UNION {IF GivenAll(given(n), val) THEN Yields(Out(n)[1], joined(n, ShapeValues(<<>>))) ELSE {} :
                    n \in concats}

-----------------------------------------------------------------------------
\* SliceConcat (slice_concat_fusion.cc): columns of matrices, and zeros.
\* A segment takes width columns of source from column start on; cols is what the
\* factory knows of the columns of the source, -1 when it knows no shape, and a
\* segment of zeros has no source.
MakeInput(slice) ==
  LET source == In(slice)[1]
      given(i) == i \in DOMAIN In(slice) /\ In(slice)[i] # Missing
      operand(i, default) == IF given(i) THEN SmallIntInitializer(In(slice)[i]) ELSE {default}
      cols == IF Ranked(source) THEN Dims(source)[2] ELSE -1
      wrapped(x) == IF x < 0 THEN x + cols ELSE x
      clamped(x) == IF cols > 0 THEN Max({0, Min({wrapped(x), cols})}) ELSE x
      column(axes) == Max({i \in DOMAIN axes : NormalizeAxis(axes[i], 2) = 1})
      segment(starts, ends, i) ==
        [source |-> source, cols |-> cols, start |-> clamped(starts[i]),
         width |-> clamped(ends[i]) - clamped(starts[i])]
      accepted(starts, ends, axes, steps) ==
        IF /\ Len(starts) = Len(ends) /\ Len(starts) = Len(axes) /\ Len(starts) = Len(steps)
           /\ \A i \in DOMAIN axes : NormalizeAxis(axes[i], 2) # -1 /\ steps[i] = 1
        THEN /\ \A i \in DOMAIN axes :
                  IF NormalizeAxis(axes[i], 2) = 0 THEN starts[i] = 0 /\ ends[i] >= Far
                  ELSE cols > 0 \/ (starts[i] >= 0 /\ ends[i] >= 0)
             /\ \E i \in DOMAIN axes : NormalizeAxis(axes[i], 2) = 1
        ELSE FALSE
  IN  IF /\ Len(In(slice)) \in 3..5 /\ IsFloat(source) /\ (Ranked(source) => Rank(source) = 2)
      THEN {s \in {segment(starts, ends, column(axes)) :
              <<starts, ends, axes, steps>> \in
                {q \in operand(2, <<>>) \X operand(3, <<>>) \X operand(4, <<0, 1>>)
                       \X operand(5, IF operand(2, <<>>) = {} THEN <<>>
                                     ELSE [i \in DOMAIN (CHOOSE o \in operand(2, <<>>) : TRUE) |-> 1]) :
                   accepted(q[1], q[2], q[3], q[4])}} : s.width > 0}
      ELSE {}
MakeZeroInput(fill) ==
  LET input == In(fill)[1]
      wide(s) == Len(s) = 2 /\ s[2] > 0
      shapeOf(v) == {s \in {Dims(u) : u \in {u \in {v} : Ranked(u)}} : wide(s)}
      constant == {s \in SmallIntInitializer(input) : wide(s)}
      shapes == IF shapeOf(Out(fill)[1]) # {} THEN shapeOf(Out(fill)[1])
                ELSE IF Len(In(fill)) # 1 THEN {}
                ELSE IF constant # {} THEN constant
                ELSE IF IsOp(Producer(input), "Shape") THEN shapeOf(In(Producer(input))[1]) ELSE {}
  IN  {[source |-> Missing, cols |-> 0, start |-> 0, width |-> s[2]] : s \in shapes}
MakeDirectInput(v) ==
  {[source |-> v, cols |-> Dims(v)[2], start |-> 0, width |-> Dims(v)[2]] :
     u \in {u \in {v} : FloatMatrix(u)}}
Segment(v) ==
  IF IsOp(Producer(v), "ConstantOfShape") /\ Attr(Producer(v), "value") \subseteq {"zero"}
  THEN MakeZeroInput(Producer(v))
  ELSE IF IsOp(Producer(v), "Slice") THEN MakeInput(Producer(v)) ELSE MakeDirectInput(v)

\* The rows are those of the first source.  The columns of a source are looked
\* at only when the factory did not know them; a shape that is not the one it
\* relies on is read as if it were.
SliceConcatCompute(val) ==
  LET concat == The("Concat")
      columns(x, s) == Part(x, 1, s.start, s.width)
      piece(s, rows) ==
        IF s.source = Missing
        THEN {Build("float", <<rows, s.width>>, LAMBDA c : 0)}
        ELSE {columns(x, s) : x \in {x \in {val[s.source]} :
                /\ x.dtype = "float" /\ RankOf(x) = 2 /\ Head(x.dims) = rows
                /\ s.cols > 0 => x.dims[2] = s.cols
                /\ s.start + s.width <= x.dims[2]}}
      sources(segments) == SelectSeq(segments, LAMBDA s : s.source # Missing)
      joined(segments) ==
        LET first == val[sources(segments)[1].source]
        IN  IF RankOf(first) # 2 THEN {}
            ELSE {Joined(x, 1) : x \in Results([i \in DOMAIN segments |-> piece(segments[i], first.dims[1])])}
      fits(segments) == /\ GivenAll({s.source : s \in ToSet(segments)}, val)
                        /\ sources(segments) # <<>>
  IN  IF AxisOrZeroIs(concat, 2, 1) /\ In(concat) # <<>> /\ Len(Out(concat)) = 1
      THEN Yields(Out(concat)[1],
             UNION {joined(segments) : segments \in
                      {q \in Results([i \in DOMAIN In(concat) |-> Segment(In(concat)[i])]) : fits(q)}})
      ELSE {}

-----------------------------------------------------------------------------
\* A packed tensor [batch, sequence, parts * width, trailing] with its parts one
\* after the other: [parts, batch, sequence, width, trailing], or with the
\* sequence last (LaunchMusaSplitConcatReorderFloat, -SplitUnsqueezeConcatFloat).
Unpacked(x, parts, batch, sequence, width, trailing, transposed) ==
  LET packed == WithDims(x, <<batch, sequence, parts * width, trailing>>)
  IN  IF transposed
      THEN Build(x.dtype, <<parts, batch, width, sequence>>, LAMBDA c :
             Elem(packed, <<c[2], c[4], c[1] * width + c[3], 0>>))
      ELSE Build(x.dtype, <<parts, batch, sequence, width, trailing>>, LAMBDA c :
             Elem(packed, <<c[2], c[3], c[1] * width + c[4], c[5]>>))

\* SplitConcat (split_concat_fusion.cc).  Of a Reshape only the output shape is
\* used; an input of rank three or more is taken as it comes.
SplitConcatShape(x, parts, sequence, width) ==
  LET d == x.dims
      row == sequence * parts * width
  IN  IF RankOf(x) >= 3
      THEN {<<d[1], d[2], d[3] \div parts, NumElementsFrom(d, 4)>> :
              n \in {n \in {d[3]} : n > 0 /\ n % parts = 0}}
      ELSE IF RankOf(x) = 2 /\ row > 0
           THEN {<<d[1] * (n \div row), sequence, width, 1>> : n \in {n \in {d[2]} : n > 0 /\ n % row = 0}}
           ELSE {}
SplitConcatCompute(val) ==
  LET split == The("Split")
      parts == Len(Out(split))
      reshape == IF Has({"Reshape"}) THEN The("Reshape") ELSE 0
      packed == In(split)[1]
      source == IF reshape = 0 THEN packed ELSE In(reshape)[1]
      transposed == Has({"Transpose"})
      sequence == IF reshape = 0 THEN 0 ELSE Dims(packed)[2]
      given == IF Len(In(split)) = 2
               THEN {s[1] : s \in {s \in IntInitializer(In(split)[2]) : Len(s) = parts /\ s[1] > 0}}
               ELSE {0}
      reshaped == IF reshape = 0 THEN {} ELSE {Dims(packed)[3] \div parts}
      widths == IF reshape = 0 THEN given
                ELSE {w \in reshaped : given # {} /\ \A g \in given : g \in {0, w}}
      dims(x, s) == IF RankOf(x) = 2 THEN <<s[1] * parts, s[2], s[3]>>
                    ELSE [x.dims EXCEPT ![1] = s[1] * parts, ![3] = s[3]]
      result(x, s) == WithDims(Unpacked(x, parts, s[1], s[2], s[3], s[4], transposed),
                               IF transposed THEN <<s[1] * parts, s[3], s[2]>> ELSE dims(x, s))
      shapes(x, w) == {s \in SplitConcatShape(x, parts, sequence, w) :
                         /\ transposed => s[4] = 1
                         /\ sequence > 0 => s[2] = sequence
                         /\ w > 0 => s[3] = w}
  IN  IF /\ In(The("Concat")) = Out(split) /\ GivenAll({source}, val)
         /\ reshape # 0 => /\ Out(reshape)[1] = packed /\ HasRank(packed, 3)
                           /\ Dims(packed)[2] > 0 /\ Dims(packed)[3] > 0 /\ Dims(packed)[3] % parts = 0
         /\ transposed => AttrIs(The("Transpose"), "perm", <<0, 2, 1>>)
      THEN Yields(FirstOutput,
             UNION {{result(val[source], s) : s \in shapes(val[source], w)} :
                      w \in {w \in widths : val[source].dtype = "float"}})
      ELSE {}

-----------------------------------------------------------------------------
\* ConcatSplit (concat_split_fusion.cc): every piece is cut from the input of
\* the Concat that holds it; the part's outputs are pieces, joined or added.
ElementSize(dtype) ==
  CASE dtype = "bool" -> 1 [] dtype \in {"float16", "bfloat16"} -> 2
    [] dtype \in {"float", "int32"} -> 4 [] dtype \in {"double", "int64"} -> 8
\* What the factory takes from the part: for every output of the Split the input
\* of the first Concat that holds it, and where.
ConcatSplitPlans ==
  LET split == The("Split")
      up == At(split, 1)
      sums == {n \in Node : IsOp(n, "Sum")}
      joins == {n \in Node \ {up} : IsOp(n, "Concat")}
      widths == [i \in DOMAIN In(up) |-> Dims(In(up)[i])[2]]
      before(s, i) == Total(SubSeq(s, 1, i - 1))
      place(v) == CHOOSE k \in DOMAIN Out(split) : Out(split)[k] = v
      holders(s, k) == {i \in DOMAIN widths :
        /\ before(widths, i) <= before(s, k)
        /\ before(s, k) + s[k] <= before(widths, i) + widths[i]}
      legal(s) ==
        /\ Len(s) = Len(Out(split)) /\ \A k \in DOMAIN s : s[k] > 0 /\ holders(s, k) # {}
        /\ \A n \in sums : \A v \in ToSet(In(n)) : s[place(v)] = s[place(In(n)[1])]
      located(s, k, i) == [input |-> In(up)[i], offset |-> before(s, k) - before(widths, i), size |-> s[k]]
      plan(s) == [v \in ToSet(Out(split)) |->
                    located(s, place(v), CHOOSE i \in holders(s, place(v)) : TRUE)]
  IN  IF /\ Len(In(split)) = 2 /\ AttrOr(split, "axis", 0) = 1
         /\ \A n \in joins \cup {up} : AttrOr(n, "axis", 0) = 1
         /\ \A v \in ToSet(In(up)) : HasRank(v, 2) /\ Dims(v)[2] > 0
         /\ \A n \in sums \cup joins : ToSet(In(n)) \subseteq ToSet(Out(split))
         /\ \A n \in sums : Len(In(n)) >= 2
      THEN {plan(s) : s \in {s \in SmallIntInitializer(In(split)[2]) : legal(s)}}
      ELSE {}
ConcatSplitCompute(val) ==
  LET split == The("Split")
      taken(y) == IF Producer(y) = split THEN <<y>> ELSE In(Producer(y))
      pieces == UNION {ToSet(taken(y)) : y \in graph.outputs}
      Of(plan) ==
        LET used == {val[plan[v].input] : v \in pieces}
            fits == /\ \A x, z \in used : /\ RankOf(x) = 2 /\ x.dims[2] > 0 /\ RankOf(z) = 2
                                           /\ x.dims[1] = z.dims[1] /\ ElementSize(x.dtype) = ElementSize(z.dtype)
                    /\ \A v \in pieces : plan[v].offset + plan[v].size <= val[plan[v].input].dims[2]
                    /\ Has({"Sum"}) => \A x \in used : ElementSize(x.dtype) = 4
            piece(v) == Part(val[plan[v].input], 1, plan[v].offset, plan[v].size)
            of(vs) == [i \in DOMAIN vs |-> piece(vs[i])]
            result(y) == IF Producer(y) = split THEN {piece(y)}
                         ELSE IF IsOp(Producer(y), "Concat") THEN {Joined(of(In(Producer(y))), 1)}
                         ELSE {s[1] : s \in SumKernel(of(In(Producer(y))))}
        IN  IF fits THEN Results([y \in graph.outputs |-> result(y)]) ELSE {}
  IN  IF GivenAll(ToSet(In(At(split, 1))), val) THEN UNION {Of(plan) : plan \in ConcatSplitPlans} ELSE {}

-----------------------------------------------------------------------------
\* SplitUnsqueezeConcat (split_unsqueeze_concat_fusion.cc).  The factory gathers
\* what constants and static shapes say of batch, sequence and widths.
PositiveAt(shapes, i) == {s[i] : s \in {s \in shapes : s[i] > 0}}
\* The target of a Reshape read at run time: -1 is inferred, 0 copied.
RuntimeTarget(target, x) ==
  LET dims == [i \in DOMAIN target |-> IF target[i] = 0 /\ i <= RankOf(x) THEN x.dims[i] ELSE target[i]]
      known == NumElements(SelectSeq(dims, LAMBDA d : d # -1))
      unknown == {i \in DOMAIN target : target[i] = -1}
  IN  IF /\ Len(target) = 3 /\ Cardinality(unknown) <= 1
         /\ \A i \in DOMAIN dims : dims[i] > 0 \/ i \in unknown
      THEN When(unknown # {} => Size(x) % known = 0,
                [i \in DOMAIN dims |-> IF i \in unknown THEN Size(x) \div known ELSE dims[i]])
      ELSE {}
\* What the factory takes from the part, if it accepts it.
SplitUnsqueezePlans ==
  LET split == The("Split")
      concat == The("Concat")
      reshape == IF Has({"Reshape"}) THEN The("Reshape") ELSE 0
      transpose == IF Has({"Transpose"}) THEN The("Transpose") ELSE 0
      parts == Len(Out(split))
      packed == In(split)[1]
      piece == Out(split)[1]
      shapeInput == reshape # 0 /\ Len(In(reshape)) >= 2
      target == IF shapeInput THEN IntInitializer(In(reshape)[2]) ELSE {}
      batch == PositiveAt(target, 1) \cup Known(packed, 1) \cup Known(piece, 1)
      sequence == PositiveAt(target, 2) \cup Known(packed, 2) \cup Known(piece, 2)
      width == PositiveAt(target, 3) \cup Known(packed, 3)
      sizes == IntInitializer(In(split)[2])
      part == IF Len(In(split)) = 2 THEN {s[1] : s \in sizes}
              ELSE IF width # {} THEN {w \div parts : w \in width} ELSE Known(piece, 3)
      stacked(i) == \E n \in {n \in ReaderNodes(Out(split)[i]) : IsOp(n, "Unsqueeze")} :
        /\ In(concat)[i] = Out(n)[1] /\ Fits(Out(split)[i], <<batch, sequence, part>>)
        /\ \E axes \in UnsqueezeAxes(n) : Len(axes) = 1 /\ NormalizeAxis(axes[1], 4) = 0
        /\ Fits(Out(n)[1], <<{1}, batch, sequence, part>>)
      static ==
        /\ \A s \in target : Len(s) = 3
        /\ \A v \in {packed, piece} : Ranked(v) => Rank(v) = 3
        /\ \A known \in {batch, sequence, width} : Cardinality(known) <= 1
        /\ Len(In(split)) = 2 => \E s \in sizes : Len(s) = parts /\ s[1] > 0 /\ ToSet(s) = {s[1]}
        /\ Agree(part, Known(piece, 3))
        /\ \A w \in width : {p * parts : p \in part} = {w}
      fitting ==
        /\ \A i \in 1..parts : stacked(i)
        /\ Fits(Out(concat)[1], <<{parts}, batch, sequence, part>>)
        /\ transpose # 0 => /\ In(transpose) = <<Out(concat)[1]>>
                            /\ AttrIs(transpose, "perm", <<0, 1, 3, 2>>)
                            /\ Fits(Out(transpose)[1], <<{parts}, batch, part, sequence>>)
  IN  IF /\ AxisOrZeroIs(split, 3, 2) /\ AxisIs(concat, 4, 0) /\ Len(In(concat)) = parts
         /\ Count({"Unsqueeze"}) = parts
         /\ reshape # 0 => Out(reshape)[1] = packed
         /\ static /\ fitting
      THEN {[parts |-> parts, transposed |-> transpose # 0, sequence |-> sequence, part |-> part,
             source |-> IF reshape = 0 THEN packed ELSE In(reshape)[1],
             target |-> IF shapeInput THEN {In(reshape)[2]} ELSE {}]}
      ELSE {}
\* Compute looks for batch (0: still to be found), sequence and packed width.
SplitUnsqueezeConcatCompute(val) ==
  LET Of(plan, x) ==
        LET halved(dims) == {<<dims[1], dims[2], dims[3] \div plan.parts>> :
                               n \in {n \in {dims[3]} : n % plan.parts = 0}}
            resolved == IF plan.target # {} /\ (plan.sequence = {} \/ plan.part = {})
                        THEN UNION {UNION {halved(t) : t \in RuntimeTarget(val[v].data, x)} : v \in plan.target}
                        ELSE IF RankOf(x) = 3 THEN halved(x.dims)
                        ELSE {<<0, s, p>> : s \in plan.sequence, p \in plan.part}
            row(r) == r[2] * plan.parts * r[3]
            batchOf(r) == IF r[1] > 0 THEN r[1] ELSE Size(x) \div row(r)
            complete(r) == r[2] > 0 /\ r[3] > 0 /\ Size(x) = batchOf(r) * row(r)
            result(r) == Unpacked(x, plan.parts, batchOf(r), r[2], r[3], 1, plan.transposed)
        IN  {WithDims(y, SubSeq(y.dims, 1, 4)) : y \in {result(r) : r \in {q \in resolved : complete(q)}}}
  IN  UNION {IF GivenAll({plan.source} \cup plan.target, val) /\ val[plan.source].dtype = "float"
             THEN Yields(FirstOutput, Of(plan, val[plan.source])) ELSE {} : plan \in SplitUnsqueezePlans}

-----------------------------------------------------------------------------
\* SplitReduce (split_reduce_fusion.cc).
SplitReduceCompute(val) ==
  LET split == The("Split")
      x == val[In(split)[1]]
      sizes == CHOOSE s \in SmallIntInitializer(In(split)[2]) : TRUE
      offset(k) == Total(SubSeq(sizes, 1, k - 1))
      reduce(k) == SingleReader(Out(split)[k])
      result(k) == {Reduced(Op(reduce(k)), Part(x, 1, offset(k), sizes[k]), {1}, FALSE)}
      place(y) == CHOOSE k \in DOMAIN sizes : Out(reduce(k))[1] = y
  IN  IF /\ AttrIs(split, "axis", 1) /\ Len(In(split)) = 2 /\ Len(Out(split)) >= 2
         /\ SmallIntInitializer(In(split)[2]) # {} /\ GivenAll({In(split)[1]}, val)
      THEN IF /\ Len(sizes) = Len(Out(split))
              /\ \A k \in DOMAIN sizes :
                   /\ Op(reduce(k)) \in {"ReduceProd", "ReduceMean"}
                   /\ ReduceAxesInputIsAxis1(reduce(k)) /\ AttrIs(reduce(k), "keepdims", 0)
              /\ x.dtype = "float" /\ RankOf(x) = 3 /\ x.dims[2] > 0 /\ x.dims[3] > 0
              /\ \A k \in DOMAIN sizes : sizes[k] > 0 /\ offset(k) + sizes[k] <= x.dims[2]
           THEN Results([y \in {Out(reduce(k))[1] : k \in DOMAIN sizes} |-> result(place(y))])
           ELSE {}
      ELSE {}
=============================================================================
