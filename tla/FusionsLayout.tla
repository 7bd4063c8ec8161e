--------------------------- MODULE FusionsLayout ---------------------------
(***************************************************************************)
(* The matchers of the fusions that move data without computing on it:     *)
(* slices, splits, concatenations, tiles and reshapes.                     *)
(*                                                                         *)
(* Each operator gives the candidates rooted at one node, as a set of node *)
(* sets with at most one member; `accepted` are the nodes that finders of  *)
(* a higher priority have taken.                                           *)
(***************************************************************************)
EXTENDS FusionGraph

CONSTANT RuntimeRepeats      \* ORT_MUSA_TILE_CONCAT_RUNTIME_REPEATS is set
ASSUME RuntimeRepeatsAssumption == RuntimeRepeats \in BOOLEAN

Far == 1000                  \* "to the end": an end above INT64_MAX / 4

-----------------------------------------------------------------------------
\* Concat -> [Unsqueeze ->] Reshape to a constant shape.
ConcatReshape(reshape, accepted) ==
  LET direct == Producer(In(reshape)[1])
      unsqueezed == IsOp(direct, "Unsqueeze")
      concat == IF unsqueezed THEN Producer(In(direct)[1]) ELSE direct
      next == IF unsqueezed THEN direct ELSE reshape
      S == {concat, next, reshape}
  IN  Fuse(/\ IsOp(reshape, "Reshape") /\ Arity(reshape, 2, 1)
           /\ IsSmallIntegerInitializer(In(reshape)[2])
           /\ unsqueezed => /\ Arity(direct, 2, 1)
                            /\ IsSmallIntegerInitializer(In(direct)[2])
                            /\ HasSingleConsumerAt(Out(direct)[1], reshape, 1)
           /\ IsOp(concat, "Concat") /\ In(concat) # <<>> /\ Len(Out(concat)) = 1
           /\ HasSingleConsumerAt(Out(concat)[1], next, 1)
           /\ \A v \in ToSet(In(concat)) :
                ~IsConst(v) /\ ~IsOp(Producer(v), "Constant")
           /\ S \cap accepted = {}
           /\ FusionHasNoExternalPathBetweenSelectedNodes(S), S)

\* Concat (axis 2) of slices of one MatMul's result.
StridedView(concat, accepted) ==
  LET slice(i) == Producer(In(concat)[i])
      S == {slice(i) : i \in DOMAIN In(concat)} \cup {concat}
      IsScalar(v, x) == IntInitializer(v) = {<<x>>}
  IN  Fuse(/\ IsOp(concat, "Concat") /\ AttrIs(concat, "axis", 2)
           /\ Len(In(concat)) >= 2 /\ Len(Out(concat)) = 1
           /\ ~Exported(Out(concat)[1])
           /\ \A i \in DOMAIN In(concat) :
                /\ IsOp(slice(i), "Slice") /\ Arity(slice(i), 4, 1)
                /\ HasOnlyConsumer(Out(slice(i))[1], concat, i)
                /\ IsScalar(In(slice(i))[4], 0)
                /\ IsOp(Producer(In(slice(i))[1]), "MatMul")
                /\ Producer(In(slice(i))[1]) = Producer(In(slice(1))[1])
           /\ IsScalar(In(slice(1))[2], 0)
           /\ S \cap accepted = {}, S)

-----------------------------------------------------------------------------
\* Shape -> [Gather ->] Cast -> Gather: the part of ShapeReshape that reads one
\* dimension.  The Shape node belongs to the fusion only when nobody else reads
\* it.
ShapeSource(cast, accepted) ==
  LET from == Producer(In(cast)[1])
      gathered == IsOp(from, "Gather")
      shape == IF gathered THEN Producer(In(from)[1]) ELSE from
      reader == IF gathered THEN from ELSE cast
  IN  Fuse(/\ gathered => /\ Free(from, accepted) /\ AttrOr(from, "axis", 0) = 0
                          /\ Arity(from, 2, 1)
                          /\ IsSmallIntegerInitializer(In(from)[2])
                          /\ HasSingleConsumerAt(Out(from)[1], cast, 1)
           /\ IsOp(shape, "Shape") /\ Free(shape, accepted) /\ Arity(shape, 1, 1)
           /\ ~Exported(Out(shape)[1]),
           (IF gathered THEN {from} ELSE {}) \cup
           (IF HasOnlyConsumer(Out(shape)[1], reader, 1) THEN {shape} ELSE {}))

\* The nodes from a Concat of the gathered dimension to the Reshapes it feeds.
ReshapeTail(concat, gathered, accepted) ==
  LET cast == CHOOSE n \in ReaderNodes(Out(concat)[1]) : TRUE
      reshapes == ReaderNodes(Out(cast)[1])
  IN  Fuse(/\ IsOp(concat, "Concat") /\ Free(concat, accepted)
           /\ AttrOr(concat, "axis", 0) = 0
           /\ Len(In(concat)) >= 2 /\ Len(Out(concat)) = 1
           /\ ~Exported(Out(concat)[1])
           /\ Cardinality({i \in DOMAIN In(concat) : In(concat)[i] = gathered}) = 1
           /\ \A v \in ToSet(In(concat)) \ {gathered} : IsSmallIntegerInitializer(v)
           /\ \E n \in Node : HasOnlyConsumer(Out(concat)[1], n, 1)
           /\ IsOp(cast, "Cast") /\ Free(cast, accepted) /\ AttrIs(cast, "to", "int64")
           /\ Len(Out(cast)) = 1 /\ ~Exported(Out(cast)[1])
           /\ reshapes # {}
           /\ \A r \in Readers(Out(cast)[1]) :
                /\ r[2] = 2 /\ IsOp(r[1], "Reshape") /\ Free(r[1], accepted)
                /\ Arity(r[1], 2, 1) /\ ~IsConst(In(r[1])[1]),
           [concat |-> {concat, cast}, reshapes |-> reshapes])

\* Several Reshapes whose target shape is built from one dimension of a tensor.
ShapeReshape(gather, accepted) ==
  LET cast == Producer(In(gather)[1])
      dim == Out(gather)[1]
      tails == {ReshapeTail(c, dim, accepted) : c \in ReaderNodes(dim)}
      parts == UNION tails
      reshapes == UNION {t.reshapes : t \in parts}
  IN  IF /\ IsOp(gather, "Gather") /\ Free(gather, accepted)
         /\ AttrOr(gather, "axis", 0) = 0 /\ Arity(gather, 2, 1)
         /\ ~Exported(dim) /\ IsSmallIntegerInitializer(In(gather)[2])
         /\ IsOp(cast, "Cast") /\ Free(cast, accepted)
         /\ Attr(cast, "to") \in {{"int32"}, {"int64"}}
         /\ Arity(cast, 1, 1) /\ HasSingleConsumerAt(Out(cast)[1], gather, 1)
         /\ tails # {} /\ {} \notin tails /\ Cardinality(reshapes) > 1
      THEN {source \cup {cast, gather} \cup reshapes
                   \cup UNION {t.concat : t \in parts}
            : source \in ShapeSource(cast, accepted)}
      ELSE {}

-----------------------------------------------------------------------------
\* The operators a repeats value may be computed from.
ShapeOnlyOps == {"Shape", "Gather", "Unsqueeze", "Squeeze", "Concat", "Add",
  "Sub", "Mul", "Div", "Cast", "Slice", "Reshape", "Identity", "Mod", "Floor",
  "Ceil", "ReduceProd", "Constant", "ConstantOfShape"}

\* What BuildShapeExpr accepts of one node of the chain, when the fused node has
\* the given inputs.
ConstantOperand(v) == IntInitializer(v) # {} \/ IsOp(Producer(v), "Constant")
Buildable(n, inputs) ==
  LET given(i) == Len(In(n)) >= i /\ In(n)[i] # Missing
      constant(i) == given(i) => ConstantOperand(In(n)[i]) IN
  \/ IsOp(n, "Constant")
  \/ IsOp(n, "Shape") /\ Len(In(n)) = 1 /\ In(n)[1] \in inputs
  \/ /\ ~IsOp(n, "Shape") /\ In(n) # <<>>
     /\ \A v \in ToSet(In(n)) : Producer(v) # 0 \/ IntInitializer(v) # {}
     /\ Op(n) \in {"Gather", "Add", "Sub", "Mul", "Div", "Mod"} => Len(In(n)) = 2
     /\ Op(n) \in {"Cast", "Floor", "Ceil", "Identity", "ConstantOfShape"} => Len(In(n)) = 1
     /\ IsOp(n, "Cast") => Attr(n, "to") \in {{"int32"}, {"int64"}}
     /\ Op(n) \in {"Unsqueeze", "Squeeze"} =>
          Len(In(n)) <= 2 /\ constant(2)
          /\ (IsOp(n, "Unsqueeze") => given(2) \/ Attr(n, "axes") # {})
     /\ IsOp(n, "Reshape") => given(2) /\ constant(2)
     /\ IsOp(n, "ReduceProd") => constant(2)
     /\ IsOp(n, "Slice") =>
          /\ given(2) /\ given(3) /\ \A i \in 2..5 : constant(i)
          /\ given(5) => \A s \in IntInitializer(In(n)[5]) : ToSet(s) \subseteq {1}

\* A repeats value the fused node can recompute from the shapes of its inputs.
\* The chain is followed through Shape as well: what Shape reads must be a value
\* no node produces, or a chain of these operators itself.
Recomputable(repeats, inputs) ==
  \A n \in Above(repeats) : Op(n) \in ShapeOnlyOps /\ Buildable(n, inputs)

\* ExternalInputs: what a set of nodes reads and does not produce.
ExternalInputs(S) ==
  (UNION {ToSet(In(n)) : n \in S}) \ UNION {ToSet(Out(n)) : n \in S}

\* Tiles whose repeats the fusion can recompute, or that no node computes; a tile
\* that is dropped may take with it the input another one needs.
FusedTiles(tiles, concat) ==
  LET Stays(t, T) == \/ Producer(In(t)[2]) = 0
                     \/ RuntimeRepeats
                     \/ Recomputable(In(t)[2], ExternalInputs(T \cup {concat}))
  IN  UNION {T \in SUBSET tiles : \A t \in T : Stays(t, T)}

TileConcat(concat, accepted) ==
  LET at == {i \in DOMAIN In(concat) : IsOp(Producer(In(concat)[i]), "Tile")}
      tile(i) == Producer(In(concat)[i])
      S == FusedTiles({tile(i) : i \in at}, concat) \cup {concat}
  IN  Fuse(/\ IsOp(concat, "Concat") /\ Free(concat, accepted)
           /\ In(concat) # <<>> /\ Len(Out(concat)) = 1 /\ ~Exported(Out(concat)[1])
           /\ \A i \in at : /\ Free(tile(i), accepted) /\ Arity(tile(i), 2, 1)
                            /\ HasSingleConsumerAt(Out(tile(i))[1], concat, i)
           /\ S # {concat}
           /\ FusionHasNoExternalPathBetweenSelectedNodes(S), S)

-----------------------------------------------------------------------------
Boundaries(s) == {Total(SubSeq(s, 1, i)) : i \in 0..Len(s)}
FloatMatrix(v) == IsFloat(v) /\ HasRank(v, 2) /\ Dims(v)[2] > 0

\* A Slice of the columns of a matrix with constant bounds and step 1.
ColumnSlice(slice) ==
  LET data == In(slice)[1]
      given(i) == Len(In(slice)) >= i /\ In(slice)[i] # Missing
      width == IF Ranked(data) THEN Known(data, 2) ELSE {}
      Wrapped(x) == IF x < 0 THEN {x + w : w \in width} ELSE {x}
      Clamped(x) == IF width = {} THEN Wrapped(x)
                    ELSE {Max({0, Min({y, w})}) : y \in Wrapped(x), w \in width}
      Columns(start, end) == \E a \in Clamped(start), b \in Clamped(end) : a < b
      Rows(start, end) == start = 0 /\ end >= Far
  IN  /\ Len(In(slice)) \in 3..5 /\ (Ranked(data) => Rank(data) = 2)
      /\ \A i \in 4..5 : given(i) => IntInitializer(In(slice)[i]) # {}
      /\ \E starts \in IntInitializer(In(slice)[2]), ends \in IntInitializer(In(slice)[3]) :
           LET given4 == IF given(4) THEN IntInitializer(In(slice)[4])
                         ELSE {[i \in DOMAIN starts |-> i - 1]}
               given5 == IF given(5) THEN IntInitializer(In(slice)[5])
                         ELSE {[i \in DOMAIN starts |-> 1]}
           IN  \E axes \in given4, steps \in given5 :
                 /\ Len(ends) = Len(starts) /\ Len(axes) = Len(starts)
                 /\ Len(steps) = Len(starts)
                 /\ \A i \in DOMAIN axes :
                      /\ axes[i] \in -2..1 /\ steps[i] = 1
                      /\ IF axes[i] % 2 = 0 THEN Rows(starts[i], ends[i])
                                            ELSE Columns(starts[i], ends[i])
                 /\ \E i \in DOMAIN axes : axes[i] % 2 = 1

\* A ConstantOfShape of zeros whose width is known; its Shape is fused with it.
ZeroFill(fill) ==
  LET input == In(fill)[1]
      shape == Producer(input)
      ofShape == Len(In(fill)) = 1 /\ IsOp(shape, "Shape")
      WideMatrix(s) == Len(s) = 2 /\ s[2] > 0
      known == \/ Ranked(Out(fill)[1]) /\ WideMatrix(Dims(Out(fill)[1]))
               \/ Len(In(fill)) = 1 /\ \E s \in IntInitializer(input) : WideMatrix(s)
               \/ ofShape /\ Len(In(shape)) = 1 /\ Ranked(In(shape)[1])
                          /\ WideMatrix(Dims(In(shape)[1]))
  IN  Fuse(/\ Attr(fill, "value") \subseteq {"zero"} /\ known
           /\ ofShape => HasOnlyConsumer(input, fill, 1),
           IF ofShape THEN {shape, fill} ELSE {fill})

\* Concat of column slices, zero fills and matrices computed elsewhere.
SliceConcat(concat, accepted) ==
  LET from(v) == Producer(v)
      moved == {v \in ToSet(In(concat)) : Op(from(v)) \in {"Slice", "ConstantOfShape"}}
      Parts(v) == IF IsOp(from(v), "Slice")
                  THEN Fuse(ColumnSlice(from(v)), {from(v)}) ELSE ZeroFill(from(v))
      S == {concat} \cup UNION UNION {Parts(v) : v \in moved}
  IN  Fuse(/\ IsOp(concat, "Concat") /\ Free(concat, accepted)
           /\ Len(Out(concat)) = 1 /\ ~Exported(Out(concat)[1])
           /\ AxisIs(concat, 2, 1) /\ moved # {}
           /\ \A v \in ToSet(In(concat)) \ moved : FloatMatrix(v)
           /\ \A v \in moved : ValueHasOnlyConsumers(v, concat) /\ Parts(v) # {}
           /\ S \cap accepted = {}, S)

-----------------------------------------------------------------------------
\* Split -> Concat, with a Reshape before and a Transpose after when they are
\* there.
CanFuseSplitConcat(reshape, split, concat, transpose) ==
  LET parts == Len(Out(split))
      packed == In(split)[1]
      sizes == IF Len(In(split)) = 2 THEN IntInitializer(In(split)[2])
               ELSE {[i \in 1..parts |-> 1]}
  IN  /\ Len(In(split)) \in 1..2 /\ In(concat) = Out(split) /\ Len(Out(concat)) = 1
      /\ \A v \in {packed} \cup ToSet(Out(split)) \cup ToSet(Out(concat)) : IsFloat(v)
      /\ reshape # 0 =>
           /\ Out(reshape) = <<packed>> /\ Cardinality(Readers(packed)) = 1
           /\ In(reshape) # <<>> /\ IsFloat(In(reshape)[1])
           /\ HasRank(packed, 3) /\ Dims(packed)[2] > 0 /\ Dims(packed)[3] > 0
           /\ Dims(packed)[3] % parts = 0
      /\ AxisOrZeroIs(split, 3, 2) /\ AxisIs(concat, 3, 0)
      /\ \E s \in sizes :
           /\ Len(s) = parts /\ s[1] > 0 /\ ToSet(s) = {s[1]}
           /\ reshape # 0 /\ Len(In(split)) = 2 => Dims(packed)[3] = Total(s)
      /\ \A i \in 1..parts : HasSingleConsumerAt(Out(split)[i], concat, i)
      /\ transpose # 0 => /\ In(transpose) = Out(concat) /\ Len(Out(transpose)) = 1
                          /\ AttrIs(transpose, "perm", <<0, 2, 1>>)

SplitConcat(split, accepted) ==
  LET reshape == FreeOp(Producer(In(split)[1]), "Reshape", accepted)
      concat == SingleReader(Out(split)[1])
      transpose == IF Len(Out(concat)) = 1
                   THEN FreeOp(SingleReader(Out(concat)[1]), "Transpose", accepted)
                   ELSE 0
  IN  Fuse(/\ IsOp(split, "Split") /\ Free(split, accepted)
           /\ In(split) # <<>> /\ Len(Out(split)) >= 2
           /\ \A v \in ToSet(Out(split)) : SingleReader(v) = concat
           /\ IsOp(concat, "Concat") /\ Free(concat, accepted)
           /\ CanFuseSplitConcat(reshape, split, concat, transpose),
           {reshape, split, concat, transpose} \ {0})

\* Concat -> Split along the columns, with the Concats and Sums that read nothing
\* but the pieces.
ConcatSplit(concat, accepted) ==
  LET split == SingleReader(Out(concat)[1])
      payload == ToSet(In(concat)) \cup ToSet(Out(split))
      type == DType(Out(split)[1])
      widths == [i \in DOMAIN In(concat) |-> Dims(In(concat)[i])[2]]
      sizes == CHOOSE s \in IntInitializer(In(split)[2]) : TRUE
      Width(v) == {sizes[i] : i \in {k \in DOMAIN sizes : Out(split)[k] = v}}
      Joins(n) == /\ IsOp(n, "Concat") /\ AxisIs(n, 2, 1)
                  /\ DType(Out(n)[1]) = type
      Adds(n) == /\ IsOp(n, "Sum") /\ Len(In(n)) >= 2
                 /\ type = "float" /\ IsFloat(Out(n)[1])
                 /\ Cardinality(UNION {Width(v) : v \in ToSet(In(n))}) = 1
      joined == {n \in UNION {ReaderNodes(v) : v \in ToSet(Out(split))} :
                   /\ Free(n, accepted) /\ Len(Out(n)) = 1
                   /\ ToSet(In(n)) \subseteq ToSet(Out(split))
                   /\ Joins(n) \/ Adds(n)}
  IN  Fuse(/\ IsOp(concat, "Concat") /\ Free(concat, accepted)
           /\ In(concat) # <<>> /\ Len(Out(concat)) = 1 /\ ~Exported(Out(concat)[1])
           /\ IsOp(split, "Split") /\ Free(split, accepted)
           /\ Len(In(split)) = 2 /\ Out(split) # <<>> /\ In(split)[1] = Out(concat)[1]
           /\ AxisIs(concat, 2, 1) /\ AxisOrZeroIs(split, 2, 1)
           /\ IntInitializer(In(split)[2]) # {} /\ Len(sizes) = Len(Out(split))
           /\ \A v \in ToSet(In(concat)) : HasRank(v, 2) /\ Dims(v)[2] > 0
           /\ \A i \in DOMAIN sizes : sizes[i] > 0
           /\ Total(sizes) = Total(widths) /\ SameType(payload)
           /\ Boundaries(widths) \subseteq Boundaries(sizes),
           {concat, split} \cup joined)

-----------------------------------------------------------------------------
\* Split -> Unsqueeze of every piece -> Concat: the pieces stacked.  batch,
\* sequence, part and packed are what the matcher knows of the sizes.
CanFuseSplitUnsqueezeConcat(reshape, split, concat, transpose) ==
  LET parts == Len(Out(split))
      packed == In(split)[1]
      unsqueeze(i) == SingleReader(Out(split)[i])
      target == IF reshape # 0 /\ Len(In(reshape)) >= 2
                THEN IntInitializer(In(reshape)[2]) ELSE {}
      Size(i) == {t[i] : t \in {u \in target : u[i] > 0}} \cup Known(packed, i)
      batch == Size(1) \cup Known(Out(split)[1], 1)
      sequence == Size(2) \cup Known(Out(split)[1], 2)
      width == Known(Out(split)[1], 3)
      explicit == Len(In(split)) = 2
      sizes == IntInitializer(In(split)[2])
      part == IF explicit THEN {s[1] : s \in sizes}
              ELSE IF Size(3) # {} THEN {w \div parts : w \in Size(3)} ELSE width
      piece == <<batch, sequence, part>>
  IN  /\ Len(In(split)) \in 1..2 /\ Len(In(concat)) = parts /\ Len(Out(concat)) = 1
      /\ reshape # 0 => /\ In(reshape) # <<>> /\ Out(reshape) = <<packed>>
                        /\ ~Exported(packed) /\ IsFloat(In(reshape)[1])
      /\ IsFloat(packed) /\ IsFloat(Out(concat)[1])
      /\ \A t \in target : Len(t) = 3
      /\ \A v \in {packed, Out(split)[1]} : Ranked(v) => Rank(v) = 3
      /\ Cardinality(batch) <= 1 /\ Cardinality(sequence) <= 1
      /\ Cardinality(Size(3)) <= 1
      /\ AxisOrZeroIs(split, 3, 2) /\ AxisIs(concat, 4, 0)
      /\ explicit => \E s \in sizes : Len(s) = parts /\ s[1] > 0 /\ ToSet(s) = {s[1]}
      /\ \A w \in Size(3) : {p * parts : p \in part} = {w}
      /\ width \subseteq part
      /\ \A i \in 1..parts :
           /\ Fits(Out(split)[i], piece) /\ IsFloat(Out(split)[i])
           /\ HasSingleConsumerAt(Out(split)[i], unsqueeze(i), 1)
           /\ \E axes \in UnsqueezeAxes(unsqueeze(i)) :
                Len(axes) = 1 /\ NormalizeAxis(axes[1], 4) = 0
           /\ Fits(Out(unsqueeze(i))[1], <<{1}>> \o piece)
           /\ IsFloat(Out(unsqueeze(i))[1])
           /\ HasSingleConsumerAt(Out(unsqueeze(i))[1], concat, i)
      /\ Fits(Out(concat)[1], <<{parts}>> \o piece)
      /\ transpose # 0 =>
           /\ HasSingleConsumerAt(Out(concat)[1], transpose, 1)
           /\ Arity(transpose, 1, 1) /\ IsFloat(Out(transpose)[1])
           /\ AttrIs(transpose, "perm", <<0, 1, 3, 2>>)
           /\ Fits(Out(transpose)[1], <<{parts}, batch, part, sequence>>)

\* A Reshape whose target is only known at run time stays outside; a Transpose
\* that does not fit is left out.
SplitUnsqueezeConcat(split, accepted) ==
  LET before == FreeOp(Producer(In(split)[1]), "Reshape", accepted)
      static == \/ Len(In(before)) < 2 \/ In(before)[2] = Missing
                \/ IntInitializer(In(before)[2]) # {}
      reshape == IF before # 0 /\ static /\ Len(Out(before)) = 1
                    /\ Cardinality(Readers(Out(before)[1])) = 1 THEN before ELSE 0
      unsqueeze(v) == SingleReader(v)
      concat == SingleReader(Out(unsqueeze(Out(split)[1]))[1])
      after == IF Len(Out(concat)) = 1
               THEN FreeOp(SingleReader(Out(concat)[1]), "Transpose", accepted) ELSE 0
      pieces == {unsqueeze(v) : v \in ToSet(Out(split))}
      FitsWith(t) == CanFuseSplitUnsqueezeConcat(reshape, split, concat, t)
      transpose == IF after # 0 /\ FitsWith(after) THEN after ELSE 0
  IN  Fuse(/\ IsOp(split, "Split") /\ Free(split, accepted)
           /\ In(split) # <<>> /\ Len(Out(split)) >= 2
           /\ \A n \in pieces : /\ IsOp(n, "Unsqueeze") /\ Free(n, accepted)
                                /\ Len(Out(n)) = 1 /\ SingleReader(Out(n)[1]) = concat
           /\ IsOp(concat, "Concat") /\ Free(concat, accepted)
           /\ transpose # 0 \/ FitsWith(0),
           ({reshape, split, concat, transpose} \ {0}) \cup pieces)

\* Split of the middle axis whose every piece is reduced over it.
SplitReduce(split, accepted) ==
  LET reduce(v) == SingleReader(v)
      input == In(split)[1]
  IN  Fuse(/\ IsOp(split, "Split") /\ Free(split, accepted) /\ AttrIs(split, "axis", 1)
           /\ Len(In(split)) = 2 /\ Len(Out(split)) >= 2
           /\ IsFloat(input) /\ HasRank(input, 3)
           /\ Dims(input)[2] > 0 /\ Dims(input)[3] > 0
           /\ \E s \in SmallIntInitializer(In(split)[2]) :
                /\ Len(s) = Len(Out(split)) /\ \A i \in DOMAIN s : s[i] > 0
                /\ Total(s) = Dims(input)[2]
           /\ \A v \in ToSet(Out(split)) :
                /\ HasSingleConsumerAt(v, reduce(v), 1) /\ Free(reduce(v), accepted)
                /\ Op(reduce(v)) \in {"ReduceProd", "ReduceMean"}
                /\ AttrIs(reduce(v), "keepdims", 0) /\ ReduceAxesInputIsAxis1(reduce(v))
                /\ Len(Out(reduce(v))) = 1 /\ IsFloat(Out(reduce(v))[1]),
           {split} \cup {reduce(v) : v \in ToSet(Out(split))})
=============================================================================
