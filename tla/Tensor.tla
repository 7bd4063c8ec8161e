------------------------------- MODULE Tensor -------------------------------
(***************************************************************************)
(* What the kernels compute with: tensors, their layout, broadcasting, and *)
(* numbers (kernel_shape_utils.h).                                         *)
(*                                                                         *)
(* A floating-point number is an element of the field of P elements, in    *)
(* its symmetric representation -50..50.  Sums, products and quotients are *)
(* exact there, so two computations agree on the inputs of a run only if   *)
(* they are the same expression up to the laws of real arithmetic, or by   *)
(* a coincidence that the next input ends; nothing is said of rounding.    *)
(* Transcendental functions are fixed functions of no structure.  NaN      *)
(* stands for every result that is no number, MinusInf for the filler of   *)
(* masks.  Integers and booleans (0 and 1) are themselves.                 *)
(***************************************************************************)
EXTENDS Integers, Sequences, FiniteSets, FiniteSetsExt, SequencesExt

P == 101
Residue(x) == ((x + 50) % P) - 50
NaN == 1000
MinusInf == -1000
Finite(x) == x \in -50..50

InverseTable == [x \in 1..(P - 1) |-> CHOOSE y \in 1..(P - 1) : (x * y) % P = 1]
Plus(x, y) == IF NaN \in {x, y} THEN NaN
              ELSE IF MinusInf \in {x, y} THEN MinusInf ELSE Residue(x + y)
Times(x, y) == IF Finite(x) /\ Finite(y) THEN Residue(x * y)
               ELSE IF NaN \in {x, y} \/ (x <= 0 /\ y <= 0) THEN NaN ELSE MinusInf
Minus(x, y) == IF Finite(y) THEN Plus(x, Residue(-y)) ELSE NaN
Over(x, y) == IF Finite(y) /\ y # 0 THEN Times(x, Residue(InverseTable[y % P])) ELSE NaN

\* Functions of one number, and the quotient of integers, which truncates.
Smooth(x, a, b, c) == IF Finite(x) THEN Residue(x * Residue(a * x * x + b) + c) ELSE NaN
Exponential(x) == IF x = MinusInf THEN 0
                  ELSE IF Finite(x) THEN 1 + ((x * x * x + 5 * x) % 23) ELSE NaN
SigmoidOf(x) == Smooth(x, 1, 2, 5)
TanhOf(x) == Smooth(x, 7, 1, 0)
SqrtOf(x) == Smooth(x, 3, 0, 11)
LogOf(x) == Smooth(x, 5, 4, 9)
FloorOf(x) == IF Finite(x) THEN x - ((2 * x * x) % 7) ELSE x
Magnitude(x) == IF x < 0 THEN -x ELSE x
Quotient(x, y) ==
  IF y = 0 THEN 0
  ELSE IF (x < 0) = (y < 0) THEN Magnitude(x) \div Magnitude(y)
                            ELSE -(Magnitude(x) \div Magnitude(y))
\* Of no number and another one, neither is first.
Before(x, y) == NaN \notin {x, y} /\ x < y
Greatest(x, y) == IF x = NaN \/ y = NaN THEN NaN ELSE IF x < y THEN y ELSE x
Least(x, y) == IF x = NaN \/ y = NaN THEN NaN ELSE IF x < y THEN x ELSE y

Floating == {"float", "float16", "bfloat16", "double"}
Integral == {"int32", "int64"}
\* A number of one type as one of another; half precision is not rounded.
Converted(x, from, to) ==
  IF to = "bool" THEN (IF x = 0 THEN 0 ELSE 1)
  ELSE IF to \in Floating /\ from \notin Floating THEN Residue(x)
  ELSE IF from \in Floating /\ to \notin Floating /\ ~Finite(x) THEN 0 ELSE x

-----------------------------------------------------------------------------
\* Tensors: the element type, the dimensions, and the elements in row-major
\* order.  Absent is an optional input that is left out.
Absent == [dtype |-> "none", dims |-> <<>>, data |-> <<>>]
Present(t) == t # Absent
\* Sequences of n elements, evaluated at once.
Tabulate(n, F(_)) == SubSeq([k \in 1..n |-> F(k)], 1, n)

NumElements(dims) ==
  LET product[k \in 0..Len(dims)] == IF k = 0 THEN 1 ELSE dims[k] * product[k - 1]
  IN  product[Len(dims)]
NumElementsFrom(dims, k) == NumElements(SubSeq(dims, k, Len(dims)))
Strides(dims) == Tabulate(Len(dims), LAMBDA i : NumElementsFrom(dims, i + 1))
\* Coordinates are counted from 0, positions in sequences from 1.
Coordinates(linear, dims, strides) ==
  Tabulate(Len(dims), LAMBDA i : (linear \div strides[i]) % dims[i])
Offset(coord, dims) ==
  LET off[k \in 0..Len(dims)] == IF k = 0 THEN 0 ELSE off[k - 1] * dims[k] + coord[k]
  IN  off[Len(dims)]

\* The tensor whose element at a coordinate is F of it.
Build(dtype, dims, F(_)) ==
  LET strides == Strides(dims)
  IN  [dtype |-> dtype, dims |-> dims,
       data |-> Tabulate(NumElements(dims), LAMBDA k : F(Coordinates(k - 1, dims, strides)))]
Elem(t, coord) == t.data[Offset(coord, t.dims) + 1]
WithDims(t, dims) == [t EXCEPT !.dims = dims]
Ints(s) == [dtype |-> "int64", dims |-> <<Len(s)>>, data |-> s]
RankOf(t) == Len(t.dims)
Size(t) == Len(t.data)
Mapped(t, dtype, F(_)) ==
  [dtype |-> dtype, dims |-> t.dims, data |-> Tabulate(Size(t), LAMBDA k : F(t.data[k]))]

-----------------------------------------------------------------------------
\* Broadcasting.  A shape is padded with ones on the left, and a dimension of
\* one stands for any.  BroadcastShape throws when two dimensions differ and
\* neither is one: the set is empty then.
PadLeft(dims, rank) == [i \in 1..(rank - Len(dims)) |-> 1] \o dims
Broadcast2(a, b) ==
  IF \A i \in DOMAIN a : a[i] = b[i] \/ a[i] = 1 \/ b[i] = 1
  THEN {[i \in DOMAIN a |-> IF a[i] = 0 \/ b[i] = 0 THEN 0
                            ELSE IF a[i] < b[i] THEN b[i] ELSE a[i]]}
  ELSE {}
BroadcastShape(a, b) ==
  LET rank == IF Len(a) < Len(b) THEN Len(b) ELSE Len(a)
  IN  Broadcast2(PadLeft(a, rank), PadLeft(b, rank))
\* All the shapes broadcast from left to right.
BroadcastShapes(shapes) ==
  FoldLeft(LAMBDA done, s : UNION {BroadcastShape(d, s) : d \in done}, {<<>>}, shapes)
\* The offset of a coordinate of the output in an input that is broadcast.
BroadcastOffset(coord, dims) ==
  LET skip == Len(coord) - Len(dims)
      off[k \in 0..Len(dims)] ==
        IF k = 0 THEN 0
        ELSE off[k - 1] * dims[k] + (IF dims[k] = 1 THEN 0 ELSE coord[skip + k])
  IN  off[Len(dims)]
BroadcastElem(t, coord) == t.data[BroadcastOffset(coord, t.dims) + 1]
kMusaMaxBroadcastRank == 8

\* NormalizeAxis does not look at the range; AxesSet: no axes stand for all.
NormalizedAxis(axis, rank) == IF axis < 0 THEN axis + rank ELSE axis
AxesSet(axes, rank) ==
  IF axes = <<>> THEN 0..(rank - 1) ELSE {NormalizedAxis(axes[i], rank) : i \in DOMAIN axes}

\* Sums and products of sequences of floating-point numbers.
SumOf(s) ==
  LET sum[k \in 0..Len(s)] == IF k = 0 THEN 0 ELSE Plus(sum[k - 1], s[k]) IN sum[Len(s)]
=============================================================================
