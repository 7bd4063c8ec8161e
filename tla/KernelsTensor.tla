--------------------------- MODULE KernelsTensor ---------------------------
(***************************************************************************)
(* The kernels that move data, make tensors or find positions in them      *)
(* (kernels/tensor, kernels/generator and kernels/math/topk.cc).           *)
(*                                                                         *)
(* A kernel is given the node [op, ins, outs, attr] and the sequence x of  *)
(* its inputs, and yields the set of the one sequence of its outputs.  The *)
(* set is empty when the kernel returns an error, throws, or goes on with  *)
(* what no one can predict (a read behind the end of an input).  Of the    *)
(* ways a kernel takes for one result - muDNN, a copy, a kernel of its     *)
(* own, the host - only the result is kept.                                *)
(***************************************************************************)
EXTENDS Tensor

Attribute(n, a, default) == IF a \in DOMAIN n.attr THEN n.attr[a] ELSE default
Given(x, i) == i \in DOMAIN x /\ Present(x[i])
\* The integers of an input that is given, else those of an attribute.
IntsOf(n, x, i, a) == IF Given(x, i) THEN x[i].data ELSE Attribute(n, a, <<>>)
When(holds, outputs) == IF holds THEN {outputs} ELSE {}

\* A tensor with the elements at other coordinates of t, and the part of t that
\* has width positions from the first along an axis (counted from 0).
Rearranged(t, dims, F(_)) == Build(t.dtype, dims, LAMBDA c : Elem(t, F(c)))
Part(t, axis, first, width) ==
  Rearranged(t, [t.dims EXCEPT ![axis + 1] = width], LAMBDA c : [c EXCEPT ![axis + 1] = @ + first])
\* Rows of the inputs one after the other: all that Concat does.
Joined(x, axis) ==
  LET dims == x[1].dims
      inner == NumElementsFrom(dims, axis + 2)
      width(i) == x[i].dims[axis + 1] * inner
      row(o) == FlattenSeq(Tabulate(Len(x), LAMBDA i :
                  SubSeq(x[i].data, (o - 1) * width(i) + 1, o * width(i))))
  IN  [dtype |-> x[1].dtype,
       dims |-> [dims EXCEPT ![axis + 1] =
                   FoldLeft(LAMBDA n, t : n + t.dims[axis + 1], 0, x)],
       data |-> FlattenSeq(Tabulate(NumElements(SubSeq(dims, 1, axis)), row))]
OthersAgree(s, t, axis) ==
  Len(s) = Len(t) /\ \A i \in DOMAIN s : i # axis + 1 => s[i] = t[i]

\* Concatenation along an axis, as the set of the one tensor.
Concatenated(x, axis) ==
  LET a == NormalizedAxis(axis, RankOf(x[1]))
  IN  IF a \notin 0..(RankOf(x[1]) - 1) THEN {}
      ELSE When(\A i \in DOMAIN x : OthersAgree(x[i].dims, x[1].dims, a), Joined(x, a))
ConcatKernel(n, x) == {<<y>> : y \in Concatenated(x, Attribute(n, "axis", 0))}

SplitKernel(n, x) ==
  LET t == x[1]
      axis == NormalizedAxis(Attribute(n, "axis", 0), RankOf(t))
      dim == t.dims[axis + 1]
      count == Len(n.outs)
      given == Given(x, 2) \/ Attribute(n, "split", <<>>) # <<>>
      sizes == IF given THEN IntsOf(n, x, 2, "split") ELSE [i \in 1..count |-> dim \div count]
      start[i \in 1..count] == IF i = 1 THEN 0 ELSE start[i - 1] + sizes[i - 1]
  IN  IF axis \notin 0..(RankOf(t) - 1) THEN {}
      ELSE When(/\ Len(sizes) = count /\ \A i \in DOMAIN sizes : sizes[i] >= 0
                /\ FoldLeft(LAMBDA a, b : a + b, 0, sizes) = dim,
                Tabulate(count, LAMBDA i : Part(t, axis, start[i], sizes[i])))

\* One range for every axis; an axis that is named twice keeps the last one.
SliceKernel(n, x) ==
  LET t == x[1]
      starts == IntsOf(n, x, 2, "starts")
      ends == IntsOf(n, x, 3, "ends")
      axes == IF IntsOf(n, x, 4, "axes") = <<>> THEN [i \in DOMAIN starts |-> i - 1]
              ELSE IntsOf(n, x, 4, "axes")
      steps == IF Given(x, 5) /\ x[5].data # <<>> THEN x[5].data ELSE [i \in DOMAIN starts |-> 1]
      axis(i) == NormalizedAxis(axes[i], RankOf(t))
      clamp(v, dim) == LET w == IF v < 0 THEN v + dim ELSE v
                       IN  IF w < 0 THEN 0 ELSE IF w > dim THEN dim ELSE w
      last(d) == {i \in DOMAIN axes : axis(i) = d /\ \A j \in DOMAIN axes : axis(j) = d => j <= i}
      from(d) == IF last(d) = {} THEN 0
                 ELSE LET i == CHOOSE i \in last(d) : TRUE IN clamp(starts[i], t.dims[d + 1])
      step(d) == IF last(d) = {} THEN 1 ELSE LET i == CHOOSE i \in last(d) : TRUE IN steps[i]
      to(d) == IF last(d) = {} THEN t.dims[d + 1]
               ELSE LET i == CHOOSE i \in last(d) : TRUE IN clamp(ends[i], t.dims[d + 1])
      length(d) == IF to(d) <= from(d) THEN 0 ELSE (to(d) - from(d) + step(d) - 1) \div step(d)
      dims == Tabulate(RankOf(t), LAMBDA d : length(d - 1))
      first == Tabulate(RankOf(t), LAMBDA d : from(d - 1))
      every == Tabulate(RankOf(t), LAMBDA d : step(d - 1))
      full == dims = t.dims /\ \A d \in DOMAIN dims : first[d] = 0 /\ every[d] = 1
  IN  IF /\ Len(starts) = Len(ends) /\ Len(axes) <= Len(starts) /\ Len(axes) <= Len(steps)
         /\ \A i \in DOMAIN axes : axis(i) \in 0..(RankOf(t) - 1) /\ steps[i] > 0
      THEN When(full \/ RankOf(t) <= kMusaMaxBroadcastRank,
                <<Rearranged(t, dims, LAMBDA c : [d \in DOMAIN c |-> first[d] + c[d] * every[d]])>>)
      ELSE {}

\* A zero copies the dimension of the input at its place, which may be missing;
\* -1 is what the others leave.  The number of elements is not compared: a
\* target that asks for more or fewer copies the input into a tensor of another
\* size.
ReshapeTarget(dims, target, allowzero) ==
  LET copied == [i \in DOMAIN target |->
                   IF target[i] = 0 /\ ~allowzero /\ i \in DOMAIN dims THEN dims[i] ELSE target[i]]
      known == NumElements(SelectSeq(copied, LAMBDA d : d # -1))
      inferred == {i \in DOMAIN copied : copied[i] = -1}
  IN  IF inferred # {} /\ known = 0 THEN {}
      ELSE {[i \in DOMAIN copied |->
               IF copied[i] = -1 /\ i = (CHOOSE j \in inferred : \A k \in inferred : k <= j)
               THEN Quotient(NumElements(dims), known) ELSE copied[i]]}
Reshaped(t, target, allowzero) ==
  LET beyond == ~allowzero /\ \E i \in DOMAIN target : target[i] = 0 /\ i > RankOf(t)
  IN  {WithDims(t, dims) : dims \in {d \in ReshapeTarget(t.dims, target, allowzero) :
         ~beyond /\ (\A i \in DOMAIN d : d[i] >= 0) /\ NumElements(d) = Size(t)}}
ReshapeKernel(n, x) == {<<y>> : y \in Reshaped(x[1], x[2].data, Attribute(n, "allowzero", 0) # 0)}

Unsqueezed(t, axes) ==
  LET rank == RankOf(t) + Len(axes)
      ones == {(IF axes[i] < 0 THEN axes[i] + rank ELSE axes[i]) + 1 : i \in DOMAIN axes}
      source(i) == Cardinality((1..i) \ ones)
  IN  When(Cardinality(ones \cap (1..rank)) = Len(axes),
           WithDims(t, Tabulate(rank, LAMBDA i : IF i \in ones THEN 1 ELSE t.dims[source(i)])))
UnsqueezeKernel(n, x) == {<<y>> : y \in Unsqueezed(x[1], IntsOf(n, x, 2, "axes"))}

\* Dimensions that are not one are dropped as well when an axis names them.
SqueezeKernel(n, x) ==
  LET t == x[1]
      axes == IntsOf(n, x, 2, "axes")
      drop == IF Given(x, 2) \/ axes # <<>> THEN AxesSet(axes, RankOf(t))
              ELSE {i \in 0..(RankOf(t) - 1) : t.dims[i + 1] = 1}
      kept == SelectSeq([i \in DOMAIN t.dims |-> i], LAMBDA i : i - 1 \notin drop)
      dims == [k \in DOMAIN kept |-> t.dims[kept[k]]]
  IN  When(NumElements(dims) = Size(t), <<WithDims(t, dims)>>)

Permuted(t, perm) ==
  LET back == [d \in DOMAIN perm |-> CHOOSE i \in DOMAIN perm : perm[i] = d - 1]
  IN  Rearranged(t, [i \in DOMAIN perm |-> t.dims[perm[i] + 1]],
                 LAMBDA c : [d \in DOMAIN c |-> c[back[d]]])
TransposeKernel(n, x) ==
  LET t == x[1]
      perm == IF Attribute(n, "perm", <<>>) = <<>>
              THEN [i \in DOMAIN t.dims |-> RankOf(t) - i] ELSE n.attr.perm
  IN  IF {perm[i] : i \in DOMAIN perm} # 0..(RankOf(t) - 1) \/ Len(perm) # RankOf(t) THEN {}
      ELSE When(Size(t) = 0 \/ RankOf(t) <= kMusaMaxBroadcastRank, <<Permuted(t, perm)>>)

\* Copies of a tensor along every axis, as the set of the one tensor.
Tiled(x, counts) ==
  LET repeats == PadLeft(counts, RankOf(x))
      padded == PadLeft(x.dims, Len(repeats))
      t == WithDims(x, padded)
  IN  When(/\ Len(repeats) <= kMusaMaxBroadcastRank
           /\ \A i \in DOMAIN repeats : repeats[i] >= 0,
           Rearranged(t, [i \in DOMAIN repeats |-> padded[i] * repeats[i]],
                      LAMBDA c : [i \in DOMAIN c |-> c[i] % padded[i]]))
TileKernel(n, x) == {<<y>> : y \in Tiled(x[1], x[2].data)}

ExpandKernel(n, x) ==
  LET target == PadLeft(x[2].data, RankOf(x[1]))
      offset == Len(target) - RankOf(x[1])
      filled == [i \in DOMAIN target |->
                   IF target[i] = -1 /\ i > offset THEN x[1].dims[i - offset] ELSE target[i]]
  IN  {<<Build(x[1].dtype, dims, LAMBDA c : BroadcastElem(x[1], c))>> :
         dims \in {d \in BroadcastShape(x[1].dims, filled) : Len(d) <= kMusaMaxBroadcastRank}}

\* An empty output whose inner dimensions hold the zero divides by that zero.
WhereKernel(n, x) ==
  {<<Build(x[2].dtype, dims, LAMBDA c :
       IF BroadcastElem(x[1], c) # 0 THEN BroadcastElem(x[2], c) ELSE BroadcastElem(x[3], c))>> :
     dims \in {d \in BroadcastShapes(<<x[1].dims, x[2].dims, x[3].dims>>) :
                 /\ x[1].dtype = "bool" /\ x[2].dtype = x[3].dtype
                 /\ Len(d) <= kMusaMaxBroadcastRank
                 /\ \A i \in DOMAIN d : i > 1 => d[i] # 0}}

\* On the device an index out of range yields zeros.
GatherKernel(n, x) ==
  LET t == x[1]
      axis == NormalizedAxis(Attribute(n, "axis", 0), RankOf(t))
      rank == RankOf(x[2])
      dim == t.dims[axis + 1]
      index(c) == LET i == Elem(x[2], SubSeq(c, axis + 1, axis + rank))
                  IN  IF i < 0 THEN i + dim ELSE i
      dims == SubSeq(t.dims, 1, axis) \o x[2].dims \o SubSeq(t.dims, axis + 2, RankOf(t))
  IN  IF axis \notin 0..(RankOf(t) - 1) THEN {}
      ELSE When(RankOf(t) <= kMusaMaxBroadcastRank /\ x[2].dtype \in Integral,
                <<Build(t.dtype, dims, LAMBDA c :
                    IF index(c) \in 0..(dim - 1)
                    THEN Elem(t, SubSeq(c, 1, axis) \o <<index(c)>> \o SubSeq(c, axis + rank + 1, Len(c)))
                    ELSE 0)>>)

\* Slices of the input are replaced by updates; an index out of range skips its
\* update, and two updates of one slice race.
ScatterNDKernel(n, x) ==
  LET t == x[1]
      depth == Last(x[2].dims)
      rows == Size(x[2]) \div depth
      tuple(r) == Tabulate(depth, LAMBDA i :
                    LET v == x[2].data[(r - 1) * depth + i] IN IF v < 0 THEN v + t.dims[i] ELSE v)
      inside == {r \in 1..rows : \A i \in 1..depth : tuple(r)[i] \in 0..(t.dims[i] - 1)}
      slice == NumElementsFrom(t.dims, depth + 1)
      writer(c) == {r \in inside : tuple(r) = SubSeq(c, 1, depth)}
      rest(c) == Offset(SubSeq(c, depth + 1, Len(c)), SubSeq(t.dims, depth + 1, RankOf(t)))
      updated(c, r) == x[3].data[(r - 1) * slice + rest(c) + 1]
  IN  IF /\ Attribute(n, "reduction", "none") = "none"
         /\ x[2].dtype = "int64" /\ x[3].dtype = t.dtype /\ RankOf(t) <= kMusaMaxBroadcastRank
         /\ x[2].dims # <<>> /\ depth \in 1..RankOf(t)
         /\ x[3].dims = Front(x[2].dims) \o SubSeq(t.dims, depth + 1, RankOf(t))
         /\ \A q, r \in inside : q # r => tuple(q) # tuple(r)
      THEN {<<Build(t.dtype, t.dims, LAMBDA c :
                IF writer(c) = {} THEN Elem(t, c) ELSE updated(c, CHOOSE r \in writer(c) : TRUE))>>}
      ELSE {}

ShapeKernel(n, x) == {<<Ints(x[1].dims)>>}
IdentityKernel(n, x) == {<<x[1]>>}
CastKernel(n, x) ==
  LET to == Attribute(n, "to", "none")
  IN  {<<Mapped(x[1], to, LAMBDA v : Converted(v, x[1].dtype, to))>>}

\* The integers tensors are filled with; any other filler is the float zero.
IntFills == [v \in {"int64:-1", "int64:0", "int64:127"} |->
               CASE v = "int64:-1" -> -1 [] v = "int64:0" -> 0 [] v = "int64:127" -> 127]
ConstantOfShapeKernel(n, x) ==
  LET value == Attribute(n, "value", "zero")
      type == IF value \in DOMAIN IntFills THEN "int64" ELSE "float"
  IN  When(\A i \in DOMAIN x[1].data : x[1].data[i] >= 0,
           <<Build(type, x[1].data, LAMBDA c : IF type = "int64" THEN IntFills[value] ELSE 0)>>)
RangeKernel(n, x) ==
  LET start == x[1].data[1]
      delta == x[3].data[1]
      span == x[2].data[1] - start
      count == IF (span > 0) # (delta > 0) THEN 0
               ELSE (Magnitude(span) + Magnitude(delta) - 1) \div Magnitude(delta)
  IN  IF \A i \in 1..3 : Size(x[i]) = 1 /\ x[i].dtype = x[1].dtype
      THEN When(delta # 0, <<[Ints(Tabulate(count, LAMBDA k : start + (k - 1) * delta))
                              EXCEPT !.dtype = x[1].dtype]>>)
      ELSE {}

-----------------------------------------------------------------------------
\* Positions.

\* Values once each: ascending, or in the order they come in; with the position
\* of the first of each, the number of its value for every element, and counts.
UniqueKernel(n, x) ==
  LET t == x[1]
      axisFits == "axis" \in DOMAIN n.attr => NormalizedAxis(n.attr.axis, RankOf(t)) = 0 /\ RankOf(t) = 1
      firsts == SelectSeq([i \in 1..Size(t) |-> i],
                  LAMBDA i : \A j \in 1..(i - 1) : t.data[j] # t.data[i])
      order == IF Attribute(n, "sorted", 1) = 0 THEN firsts
               ELSE SortSeq(firsts, LAMBDA i, j : t.data[i] < t.data[j])
      number(v) == CHOOSE k \in DOMAIN order : t.data[order[k]] = v
      counted(v) == Cardinality({i \in 1..Size(t) : t.data[i] = v})
      all == << [Ints([k \in DOMAIN order |-> t.data[order[k]]]) EXCEPT !.dtype = t.dtype],
                Ints([k \in DOMAIN order |-> order[k] - 1]),
                Ints([i \in 1..Size(t) |-> number(t.data[i]) - 1]),
                Ints([k \in DOMAIN order |-> counted(t.data[order[k]])]) >>
  IN  When(axisFits, SubSeq(all, 1, Len(n.outs)))

NonZeroKernel(n, x) ==
  LET t == IF x[1].dims = <<>> THEN WithDims(x[1], <<1>>) ELSE x[1]
      found == SelectSeq([i \in 1..Size(t) |-> i], LAMBDA i : t.data[i] # 0)
      strides == Strides(t.dims)
  IN  When(RankOf(t) <= kMusaMaxBroadcastRank,
           <<Build("int64", <<RankOf(t), Len(found)>>, LAMBDA c :
               Coordinates(found[c[2] + 1] - 1, t.dims, strides)[c[1] + 1])>>)

\* The k greatest or least along an axis, the earlier one first among equals.
TopKKernel(n, x) ==
  LET t == x[1]
      axis == NormalizedAxis(Attribute(n, "axis", -1), RankOf(t))
      largest == Attribute(n, "largest", 1) = 1
      k == x[2].data[1]
      dim == t.dims[axis + 1]
      at(c, i) == Elem(t, [c EXCEPT ![axis + 1] = i])
      before(a, b, i, j) == (IF largest THEN b < a ELSE a < b) \/ (a = b /\ i < j)
      place(c, i) == Cardinality({j \in 0..(dim - 1) : before(at(c, j), at(c, i), j, i)})
      pick(c) == CHOOSE i \in 0..(dim - 1) : place(c, i) = c[axis + 1]
      dims == [t.dims EXCEPT ![axis + 1] = k]
  IN  IF RankOf(t) = 0 \/ axis \notin 0..(RankOf(t) - 1) \/ x[2].dtype # "int64" \/ Size(x[2]) # 1
      THEN {}
      ELSE When(k \in 0..dim, <<Build(t.dtype, dims, LAMBDA c : at(c, pick(c))),
                                Build("int64", dims, pick)>>)
=============================================================================
