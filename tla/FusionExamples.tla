--------------------------- MODULE FusionExamples ---------------------------
(***************************************************************************)
(* For every fusion a small graph that its matcher accepts, written down   *)
(* as the exporters that the fusion was made for write it.  The capability *)
(* runs start from these graphs and from graphs one edit away from them.   *)
(***************************************************************************)
EXTENDS Integers, Sequences, SequencesExt, TLC

\* Nodes without and with attributes.
N(op, ins, outs) == [op |-> op, ins |-> ins, outs |-> outs, attr |-> <<>>]
A(op, ins, outs, attr) == [op |-> op, ins |-> ins, outs |-> outs, attr |-> attr]

\* Values: a tensor, an integer or float constant, one without a shape.
D(dtype, dims) ==
  [dtype |-> dtype, ranked |-> TRUE, dims |-> dims, const |-> FALSE, data |-> <<>>]
T(dims) == D("float", dims)
I(data) == [dtype |-> "int64", ranked |-> TRUE, dims |-> <<Len(data)>>,
            const |-> TRUE, data |-> data]
S(x) == [I(<<x>>) EXCEPT !.dims = <<>>]
F(x) == [dtype |-> "float", ranked |-> TRUE, dims |-> <<>>, const |-> TRUE, data |-> <<x>>]
\* An input with these elements.
R(data) == [I(data) EXCEPT !.const = FALSE]
W(dims) == [T(dims) EXCEPT !.const = TRUE]
Unranked(dtype) ==
  [dtype |-> dtype, ranked |-> FALSE, dims |-> <<>>, const |-> FALSE, data |-> <<>>]

\* A graph; values that are not described are 2 by 4 tensors of floats.
Example(fusion, nodes, info, outputs) ==
  [fusion |-> fusion, node |-> nodes, outputs |-> outputs,
   info |-> [v \in UNION {ToSet(n.ins) \cup ToSet(n.outs) : n \in ToSet(nodes)} \cup {""} |->
               IF v \in DOMAIN info THEN info[v] ELSE T(<<2, 4>>)]]

-----------------------------------------------------------------------------
\* Moving data.
ConcatReshapeExample == Example("ConcatReshape", <<
    A("Concat", <<"a", "b">>, <<"c">>, [axis |-> 1]),
    N("Unsqueeze", <<"c", "axes">>, <<"u">>),
    N("Reshape", <<"u", "shape">>, <<"y">>)>>,
  [axes |-> I(<<0>>), shape |-> I(<<4, 4>>), c |-> T(<<2, 8>>), u |-> T(<<1, 2, 8>>),
   y |-> T(<<4, 4>>)], {"y"})

StridedViewExample == Example("StridedView", <<
    N("MatMul", <<"x", "w">>, <<"m">>),
    N("Slice", <<"m", "zero", "two", "zero">>, <<"s">>),
    N("Slice", <<"m", "two", "four", "zero">>, <<"t">>),
    A("Concat", <<"s", "t">>, <<"c">>, [axis |-> 2]),
    N("Identity", <<"c">>, <<"y">>)>>,
  [zero |-> I(<<0>>), two |-> I(<<2>>), four |-> I(<<4>>),
   x |-> T(<<4, 3, 2>>), w |-> T(<<4, 2, 2>>), m |-> T(<<4, 3, 2>>),
   s |-> T(<<2, 3, 2>>), t |-> T(<<2, 3, 2>>), c |-> T(<<2, 3, 4>>),
   y |-> T(<<2, 3, 4>>)], {"y"})

ShapeReshapeExample == Example("ShapeReshape", <<
    N("Shape", <<"x">>, <<"s">>),
    A("Cast", <<"s">>, <<"i">>, [to |-> "int32"]),
    N("Gather", <<"i", "first">>, <<"d">>),
    N("Concat", <<"d", "k">>, <<"p">>), N("Concat", <<"l", "d">>, <<"q">>),
    A("Cast", <<"p">>, <<"p64">>, [to |-> "int64"]),
    A("Cast", <<"q">>, <<"q64">>, [to |-> "int64"]),
    N("Reshape", <<"x", "p64">>, <<"y">>), N("Reshape", <<"z", "q64">>, <<"t">>)>>,
  [s |-> D("int64", <<2>>), i |-> D("int32", <<2>>), d |-> D("int32", <<1>>),
   p |-> D("int32", <<2>>), q |-> D("int32", <<2>>), p64 |-> D("int64", <<2>>),
   q64 |-> D("int64", <<2>>), first |-> I(<<0>>), k |-> I(<<4>>), l |-> I(<<-1>>)],
  {"y", "t"})

TileConcatExample == Example("TileConcat", <<
    N("Shape", <<"x">>, <<"s">>), N("Gather", <<"s", "first">>, <<"d">>),
    A("Concat", <<"d", "one">>, <<"rep">>, [axis |-> 0]),
    N("Tile", <<"x", "rep">>, <<"t">>),
    A("Concat", <<"t", "z">>, <<"c">>, [axis |-> 1]),
    N("Identity", <<"c">>, <<"y">>)>>,
  [s |-> D("int64", <<2>>), d |-> D("int64", <<1>>), rep |-> D("int64", <<2>>),
   first |-> I(<<0>>), one |-> I(<<1>>), z |-> T(<<4, 4>>), t |-> T(<<4, 4>>),
   c |-> T(<<4, 8>>), y |-> T(<<4, 8>>)], {"y"})

SliceConcatExample == Example("SliceConcat", <<
    N("Slice", <<"x", "from", "to", "axis">>, <<"s">>),
    N("Shape", <<"m">>, <<"h">>),
    A("ConstantOfShape", <<"h">>, <<"f">>, [value |-> "zero"]),
    A("Concat", <<"s", "m", "f">>, <<"c">>, [axis |-> 1]),
    N("Identity", <<"c">>, <<"y">>)>>,
  [from |-> I(<<1>>), to |-> I(<<3>>), axis |-> I(<<1>>), h |-> D("int64", <<2>>)], {"y"})

SplitConcatExample == Example("SplitConcat", <<
    N("Reshape", <<"x", "shape">>, <<"r">>),
    A("Split", <<"r", "sizes">>, <<"p", "q">>, [axis |-> 2]),
    A("Concat", <<"p", "q">>, <<"c">>, [axis |-> 0]),
    A("Transpose", <<"c">>, <<"y">>, [perm |-> <<0, 2, 1>>])>>,
  [x |-> T(<<1, 8>>), shape |-> I(<<1, 2, 4>>), sizes |-> I(<<2, 2>>), r |-> T(<<1, 2, 4>>),
   p |-> T(<<1, 2, 2>>), q |-> T(<<1, 2, 2>>), c |-> T(<<2, 2, 2>>), y |-> T(<<2, 2, 2>>)],
  {"y"})

ConcatSplitExample == Example("ConcatSplit", <<
    A("Concat", <<"a", "b">>, <<"c">>, [axis |-> 1]),
    A("Split", <<"c", "sizes">>, <<"p", "q", "r">>, [axis |-> 1]),
    A("Concat", <<"q", "p">>, <<"y">>, [axis |-> 1]),
    N("Sum", <<"q", "r">>, <<"z">>)>>,
  [sizes |-> I(<<4, 2, 2>>)], {"y", "z"})

SplitUnsqueezeConcatExample == Example("SplitUnsqueezeConcat", <<
    N("Reshape", <<"x", "shape">>, <<"r">>),
    A("Split", <<"r", "sizes">>, <<"p", "q">>, [axis |-> 2]),
    N("Unsqueeze", <<"p", "first">>, <<"p4">>), N("Unsqueeze", <<"q", "first">>, <<"q4">>),
    A("Concat", <<"p4", "q4">>, <<"c">>, [axis |-> 0]),
    A("Transpose", <<"c">>, <<"y">>, [perm |-> <<0, 1, 3, 2>>])>>,
  [shape |-> I(<<1, 2, 4>>), sizes |-> I(<<2, 2>>), first |-> I(<<0>>),
   r |-> T(<<1, 2, 4>>), p |-> T(<<1, 2, 2>>), q |-> T(<<1, 2, 2>>),
   p4 |-> T(<<1, 1, 2, 2>>), q4 |-> T(<<1, 1, 2, 2>>), c |-> T(<<2, 1, 2, 2>>),
   y |-> T(<<2, 1, 2, 2>>)], {"y"})

SplitReduceExample == Example("SplitReduce", <<
    A("Split", <<"x", "sizes">>, <<"p", "q">>, [axis |-> 1]),
    A("ReduceMean", <<"p", "axes">>, <<"y">>, [keepdims |-> 0]),
    A("ReduceProd", <<"q", "axes">>, <<"z">>, [keepdims |-> 0])>>,
  [x |-> T(<<2, 4, 8>>), sizes |-> I(<<2, 2>>), axes |-> I(<<1>>)], {"y", "z"})

LayoutExamples == <<ConcatReshapeExample, StridedViewExample, ShapeReshapeExample,
  TileConcatExample, SliceConcatExample, SplitConcatExample, ConcatSplitExample,
  SplitUnsqueezeConcatExample, SplitReduceExample>>

-----------------------------------------------------------------------------
\* Matrix products.
FusedGemmExample == Example("FusedGemm", <<
    N("MatMul", <<"x", "w">>, <<"m">>), N("Add", <<"b", "m">>, <<"s">>),
    N("Relu", <<"s">>, <<"y">>), N("Identity", <<"y">>, <<"z">>)>>,
  [w |-> W(<<4, 4>>), b |-> W(<<4>>)], {"z"})

GemmActivationExample == Example("GemmActivation", <<
    N("Reshape", <<"x", "flat">>, <<"r">>), N("Gemm", <<"r", "w", "b">>, <<"g">>),
    N("Reshape", <<"g", "full">>, <<"h">>), N("Tanh", <<"h">>, <<"a">>),
    N("Unsqueeze", <<"a", "first">>, <<"y">>)>>,
  [x |-> T(<<1, 2, 4>>), flat |-> I(<<2, 4>>), w |-> W(<<4, 4>>), b |-> W(<<4>>),
   full |-> I(<<1, 2, 4>>), h |-> T(<<1, 2, 4>>), a |-> T(<<1, 2, 4>>),
   first |-> I(<<0>>), y |-> T(<<1, 1, 2, 4>>)], {"y"})

GemmActivationDirectExample == Example("GemmActivation", <<
    N("Gemm", <<"x", "w", "b">>, <<"g">>), N("LeakyRelu", <<"g">>, <<"y">>)>>,
  [w |-> W(<<4, 4>>), b |-> W(<<4>>)], {"y"})

SiluExample == Example("Silu", <<
    N("Sigmoid", <<"x">>, <<"s">>), N("Mul", <<"x", "s">>, <<"y">>)>>, <<>>, {"y"})

SwiGluExample == Example("SwiGlu", <<
    N("MatMul", <<"x", "wg">>, <<"g">>), N("MatMul", <<"x", "wu">>, <<"u">>),
    N("Sigmoid", <<"g">>, <<"s">>), N("Mul", <<"g", "s">>, <<"a">>),
    N("Mul", <<"a", "u">>, <<"y">>)>>,
  [wg |-> W(<<4, 4>>), wu |-> W(<<4, 4>>)], {"y"})

ConcatMatMulExample == Example("ConcatMatMul", <<
    A("Concat", <<"a", "b">>, <<"c">>, [axis |-> 1]),
    N("MatMul", <<"c", "w">>, <<"y">>)>>,
  [c |-> T(<<2, 8>>), w |-> T(<<8, 4>>)], {"y"})

ParallelMatMulConcatExample == Example("ParallelMatMulConcat", <<
    N("MatMul", <<"x", "v">>, <<"p">>), N("MatMul", <<"x", "w">>, <<"q">>),
    N("Unsqueeze", <<"p", "axes">>, <<"p3">>), N("Unsqueeze", <<"q", "axes">>, <<"q3">>),
    A("Concat", <<"p3", "q3">>, <<"c">>, [axis |-> 1]),
    N("Identity", <<"c">>, <<"y">>)>>,
  [v |-> W(<<4, 4>>), w |-> W(<<4, 4>>), axes |-> I(<<1>>), p3 |-> T(<<2, 1, 4>>),
   q3 |-> T(<<2, 1, 4>>), c |-> T(<<2, 2, 4>>)], {"y"})

ParallelLinearExample == Example("ParallelLinear", <<
    N("MatMul", <<"x", "v">>, <<"p">>), N("Add", <<"p", "bv">>, <<"ps">>),
    N("Relu", <<"ps">>, <<"y">>),
    N("Gemm", <<"x", "w", "bw">>, <<"q">>), N("Relu", <<"q">>, <<"z">>)>>,
  [v |-> W(<<4, 4>>), w |-> W(<<4, 4>>), bv |-> W(<<4>>), bw |-> W(<<4>>)], {"y", "z"})

GatedMlpExample == Example("ParallelLinear", <<
    N("Gemm", <<"x", "wg", "bg">>, <<"g">>), N("Gemm", <<"x", "wu", "bu">>, <<"u">>),
    N("Sigmoid", <<"g">>, <<"s">>), N("Mul", <<"g", "s">>, <<"a">>),
    N("Mul", <<"u", "a">>, <<"y">>)>>,
  [wg |-> W(<<4, 4>>), wu |-> W(<<4, 4>>), bg |-> W(<<4>>), bu |-> W(<<4>>)], {"y"})

\* The seven nodes of the k-th perceptron.
EinsumNodes(k) ==
  LET V(v) == v \o ToString(k)
      Bik(w, v, y) == A("Einsum", <<V(w), v>>, <<V(y)>>, [equation |-> "ij,bjk->bik"])
  IN  <<Bik("w1", "x", "e1"), N("Tanh", <<V("e1")>>, <<V("t1")>>),
        Bik("w2", V("t1"), "e2"), N("Tanh", <<V("e2")>>, <<V("t2")>>),
        Bik("w3", V("t2"), "e3"), N("Add", <<V("e3"), "bias">>, <<V("s")>>),
        N("Mul", <<"gate", V("s")>>, <<V("y")>>)>>
ParallelEinsumExample == Example("ParallelEinsum",
  EinsumNodes(1) \o EinsumNodes(2) \o EinsumNodes(3) \o EinsumNodes(4) \o
    <<A("Concat", <<"y1", "y2", "y3", "y4">>, <<"y">>, [axis |-> 2])>>,
  [v \in UNION {{"w1" \o k, "w3" \o k} : k \in {"1", "2", "3", "4"}} |->
     W(<<2, 2>>)] @@
  [v \in {"w2" \o k : k \in {"1", "2", "3", "4"}} |-> W(<<2, 2>>)] @@
  [v \in {"y1", "y2", "y3", "y4"} |-> T(<<2, 2, 1>>)] @@
  [x |-> T(<<2, 2, 1>>), gate |-> T(<<2, 2, 1>>), bias |-> T(<<2, 1>>),
   y |-> T(<<2, 2, 4>>)], {"y"})

LinearExamples == <<FusedGemmExample, GemmActivationExample, GemmActivationDirectExample,
  SiluExample, SwiGluExample, ConcatMatMulExample, ParallelMatMulConcatExample,
  ParallelLinearExample, GatedMlpExample, ParallelEinsumExample>>

-----------------------------------------------------------------------------
\* Mixtures of experts.
GemmT(x, w, b, y) == A("Gemm", <<x, w, b>>, <<y>>, [transB |-> 1])
ExpertNodes(k) ==
  LET V(v) == v \o ToString(k)
  IN  <<GemmT("x", V("w1"), V("b1"), V("l1")), N("Relu", <<V("l1")>>, <<V("h1")>>),
        N("MatMul", <<V("h1"), V("w2")>>, <<V("m")>>),
        N("Add", <<V("m"), V("b2")>>, <<V("l2")>>), N("Relu", <<V("l2")>>, <<V("h2")>>),
        N("Unsqueeze", <<V("h2"), "axes">>, <<V("u")>>)>>
ExpertInfo == [w11 |-> W(<<4, 4>>), w12 |-> W(<<4, 4>>), b11 |-> W(<<4>>), b12 |-> W(<<4>>),
   w21 |-> W(<<4, 4>>), w22 |-> W(<<4, 4>>), b21 |-> W(<<4>>), b22 |-> W(<<4>>)]
MoEExample == Example("MoE",
  ExpertNodes(1) \o ExpertNodes(2) \o <<
    A("Concat", <<"u1", "u2">>, <<"c">>, [axis |-> 1]),
    N("Mul", <<"c", "r">>, <<"m">>),
    A("ReduceSum", <<"m", "axes">>, <<"y">>, [keepdims |-> 0])>>,
  ExpertInfo @@ [axes |-> I(<<1>>), u1 |-> T(<<2, 1, 4>>), u2 |-> T(<<2, 1, 4>>),
   c |-> T(<<2, 2, 4>>), r |-> T(<<2, 2, 1>>), m |-> T(<<2, 2, 4>>)], {"y"})

RowNodes(k, from, to) ==
  LET V(v) == v \o ToString(k)
  IN  <<N("Slice", <<"x", from, to, "zero", "one">>, <<V("s")>>),
        GemmT(V("s"), V("w1"), V("b1"), V("l1")), N("Relu", <<V("l1")>>, <<V("h")>>),
        GemmT(V("h"), V("w2"), V("b2"), V("l2"))>>
NormNodes(k, from, to) ==
  LET V(v) == v \o ToString(k)
  IN  <<N("Slice", <<"sum", from, to, "zero", "one">>, <<V("p")>>),
        N("LayerNormalization", <<V("p"), V("scale"), V("shift")>>, <<V("n")>>)>>
SplitSequenceMoEExample == Example("SplitSequenceMoE",
  RowNodes(1, "r0", "r1") \o RowNodes(2, "r1", "r2") \o
    <<A("Concat", <<"l21", "l22">>, <<"e">>, [axis |-> 0]), N("Add", <<"e", "x">>, <<"sum">>)>>
  \o NormNodes(1, "r0", "r1") \o NormNodes(2, "r1", "r2") \o
    <<A("Concat", <<"n1", "n2">>, <<"y">>, [axis |-> 0])>>,
  ExpertInfo @@
  [v \in {"s1", "l11", "h1", "l21", "p1", "n1", "s2", "l12", "h2", "l22", "p2", "n2"} |->
     T(<<-1, 4>>)] @@
  [v \in {"scale1", "scale2", "shift1", "shift2"} |-> W(<<4>>)] @@
  [r0 |-> R(<<0>>), r1 |-> R(<<1>>), r2 |-> R(<<2>>)] @@ [zero |-> I(<<0>>), one |-> I(<<1>>)],
  {"y"})

MoEExamples == <<MoEExample, SplitSequenceMoEExample>>

\* Two mixtures with two routers each: what the first router of either makes of
\* its experts weighs the experts of the other one.
Router(k, experts, weights) ==
  LET V(v) == v \o ToString(k)
  IN  <<N("Mul", <<experts, weights>>, <<V("p")>>),
        A("ReduceSum", <<V("p"), "axes">>, <<V("y")>>, [keepdims |-> 0])>>
Weigher(k) ==
  LET V(v) == v \o ToString(k)
  IN  <<N("MatMul", <<V("y"), "gate">>, <<V("g")>>), N("Unsqueeze", <<V("g"), "last">>, <<V("v")>>)>>
CrossedMoEExample == Example("MoE",
  ExpertNodes(1) \o ExpertNodes(2) \o <<A("Concat", <<"u1", "u2">>, <<"c1">>, [axis |-> 1])>>
  \o ExpertNodes(3) \o ExpertNodes(4) \o <<A("Concat", <<"u3", "u4">>, <<"c2">>, [axis |-> 1])>>
  \o Router(1, "c1", "r1") \o Router(2, "c2", "r2") \o Weigher(1) \o Weigher(2)
  \o Router(3, "c2", "v1") \o Router(4, "c1", "v2"),
  ExpertInfo @@ [w13 |-> W(<<4, 4>>), w14 |-> W(<<4, 4>>), b13 |-> W(<<4>>), b14 |-> W(<<4>>),
   w23 |-> W(<<4, 4>>), w24 |-> W(<<4, 4>>), b23 |-> W(<<4>>), b24 |-> W(<<4>>)] @@
  [v \in {"u1", "u2", "u3", "u4"} |-> T(<<2, 1, 4>>)] @@
  [v \in {"c1", "c2", "p1", "p2", "p3", "p4"} |-> T(<<2, 2, 4>>)] @@
  [v \in {"r1", "r2", "v1", "v2"} |-> T(<<2, 2, 1>>)] @@
  [axes |-> I(<<1>>), last |-> I(<<-1>>), gate |-> W(<<4, 2>>),
   g1 |-> T(<<2, 2>>), g2 |-> T(<<2, 2>>)], {"y3", "y4"})

-----------------------------------------------------------------------------
\* Normalisations and reductions.
RmsNormExample == Example("RmsNorm", <<
    N("Mul", <<"x", "x">>, <<"q">>), N("ReduceMean", <<"q", "last">>, <<"m">>),
    N("Add", <<"m", "eps">>, <<"v">>), N("Sqrt", <<"v">>, <<"r">>),
    N("Div", <<"x", "r">>, <<"d">>), N("Mul", <<"d", "gamma">>, <<"y">>)>>,
  [last |-> I(<<-1>>), m |-> T(<<2, 1>>), eps |-> F("1e-6"), v |-> T(<<2, 1>>),
   r |-> T(<<2, 1>>), gamma |-> W(<<4>>)], {"y"})

CastRmsNormExample == Example("CastRmsNorm", <<
    A("Cast", <<"x">>, <<"f">>, [to |-> "float"]),
    N("Pow", <<"f", "two">>, <<"q">>), N("ReduceMean", <<"q", "last">>, <<"m">>),
    N("Add", <<"eps", "m">>, <<"v">>), N("Sqrt", <<"v">>, <<"r">>),
    N("Div", <<"f", "r">>, <<"d">>), A("Cast", <<"d">>, <<"e">>, [to |-> "bfloat16"]),
    N("Mul", <<"gamma", "e">>, <<"y">>)>>,
  [x |-> D("bfloat16", <<2, 4>>), two |-> F("2"), last |-> I(<<-1>>), m |-> T(<<2, 1>>),
   eps |-> F("1e-6"), v |-> T(<<2, 1>>), r |-> T(<<2, 1>>), e |-> D("bfloat16", <<2, 4>>),
   gamma |-> D("bfloat16", <<4>>), y |-> D("bfloat16", <<2, 4>>)], {"y"})

CenteredReduceExample == Example("CenteredReduce", <<
    N("ReduceSum", <<"x", "last">>, <<"m">>), N("Sub", <<"x", "m">>, <<"d">>),
    N("Mul", <<"d", "d">>, <<"q">>), N("ReduceSum", <<"q", "last">>, <<"y">>)>>,
  [last |-> I(<<-1>>), m |-> T(<<2, 1>>), y |-> T(<<2, 1>>)], {"m", "y"})

SegmentMaxBroadcastExample == Example("SegmentMaxBroadcast", <<
    A("Unique", <<"ids">>, <<"uv", "ui", "inv">>, [sorted |-> 0]),
    A("Cast", <<"inv">>, <<"i32">>, [to |-> "int32"]),
    A("Cast", <<"i32">>, <<"i64">>, [to |-> "int64"]),
    N("Shape", <<"uv">>, <<"sh">>), A("Cast", <<"sh">>, <<"sh32">>, [to |-> "int32"]),
    N("Slice", <<"sh32", "zero", "one", "zero">>, <<"sl">>),
    N("Squeeze", <<"sl", "zero">>, <<"sq">>), A("Cast", <<"sq">>, <<"n64">>, [to |-> "int64"]),
    N("Unsqueeze", <<"n64", "zero">>, <<"nu">>),
    N("Shape", <<"i64">>, <<"is">>), N("Squeeze", <<"is", "zero">>, <<"iq">>),
    N("Range", <<"zero", "iq", "one">>, <<"rg">>),
    A("TopK", <<"i64", "is">>, <<"sv", "si">>, [axis |-> 0, largest |-> 0]),
    A("Unique", <<"sv">>, <<"w1", "w2", "w3", "w4">>, [axis |-> 0]),
    N("Gather", <<"w4", "w3">>, <<"cg">>), N("Mod", <<"rg", "cg">>, <<"md">>),
    N("Unsqueeze", <<"md", "minus">>, <<"mu">>), N("Unsqueeze", <<"sv", "minus">>, <<"tu">>),
    A("Concat", <<"tu", "mu">>, <<"ix">>, [axis |-> 1]),
    N("ReduceMax", <<"w4", "zero">>, <<"cm">>),
    A("Concat", <<"nu", "cm">>, <<"sc">>, [axis |-> 0]),
    A("ConstantOfShape", <<"sc">>, <<"fl">>, [value |-> "int64:-1"]),
    N("ScatterND", <<"fl", "ix", "si">>, <<"st">>),
    N("Gather", <<"values", "st">>, <<"vg">>),
    A("ReduceMax", <<"vg", "one">>, <<"fr">>, [keepdims |-> 0]),
    N("Gather", <<"fr", "i32">>, <<"y">>)>>,
  [ids |-> R(<<1, 0, 1>>), values |-> [T(<<4>>) EXCEPT !.data = <<"2", "1", "0.5", "-inf">>]] @@
  [v \in {"uv", "ui", "inv", "i64", "sh", "n64", "nu", "is", "iq", "rg", "sv", "si",
          "w1", "w2", "w3", "w4", "cg", "md", "mu", "tu", "ix", "cm", "sc", "fl", "st"} |->
     Unranked("int64")] @@
  [v \in {"i32", "sh32", "sl", "sq"} |-> Unranked("int32")] @@
  [zero |-> I(<<0>>), one |-> I(<<1>>), minus |-> I(<<-1>>)], {"y"})

MathConcatLogExample == Example("MathConcatLog", <<
    N("Max", <<"x", "c0">>, <<"m">>), N("Add", <<"c1", "m">>, <<"a">>),
    N("Log", <<"a">>, <<"l">>), N("Mul", <<"l", "c2">>, <<"y">>)>>,
  [c0 |-> F("0"), c1 |-> F("1"), c2 |-> F("0.5")], {"y"})

RecRankCalibrationExample == Example("RecRankCalibration", <<
    N("Mul", <<"scores", "bucket">>, <<"sc">>), N("Floor", <<"sc">>, <<"fl">>),
    N("Less", <<"tile", "fl">>, <<"ls">>), N("Equal", <<"tile", "fl">>, <<"eq">>),
    A("Cast", <<"ls">>, <<"lc">>, [to |-> "double"]),
    A("Cast", <<"eq">>, <<"ec">>, [to |-> "double"]),
    N("Sub", <<"sc", "fl">>, <<"fs">>), N("Mul", <<"ec", "fs">>, <<"fr">>),
    N("Add", <<"lc", "fr">>, <<"mk">>), N("Mul", <<"relu", "mk">>, <<"wt">>),
    N("Mul", <<"wt", "inverse">>, <<"nm">>), N("ReduceSum", <<"nm", "last">>, <<"rd">>),
    A("Cast", <<"rd">>, <<"cf">>, [to |-> "float"]),
    N("Clip", <<"cf", "lo", "hi">>, <<"pr">>), N("Sub", <<"hi", "pr">>, <<"cs">>),
    N("Clip", <<"cs", "lo", "hi">>, <<"cp">>), N("Div", <<"pr", "cp">>, <<"dv">>),
    N("Log", <<"dv">>, <<"y">>)>>,
  [v \in {"ls", "eq"} |-> D("bool", <<2, 2>>)] @@
  [v \in {"lc", "ec", "fr", "mk", "wt", "nm"} |-> D("double", <<2, 2>>)] @@
  [v \in {"sc", "fl", "fs", "rd"} |-> D("double", <<2, 1>>)] @@
  [v \in {"cf", "pr", "cs", "cp", "dv", "y"} |-> T(<<2, 1>>)] @@
  [scores |-> [D("double", <<2, 1>>) EXCEPT !.data = <<"2", "1">>],
   tile |-> [D("double", <<2, 2>>) EXCEPT !.data = <<"0", "1">>],
   relu |-> [D("double", <<2, 2>>) EXCEPT !.data = <<"0.25", "1", "2", "-10000">>],
   bucket |-> [F("2") EXCEPT !.dtype = "double"],
   inverse |-> [F("0.5") EXCEPT !.dtype = "double"],
   last |-> I(<<-1>>), lo |-> F("1e-16"), hi |-> F("1")], {"y"})

NormExamples == <<RmsNormExample, CastRmsNormExample, CenteredReduceExample,
  SegmentMaxBroadcastExample, MathConcatLogExample, RecRankCalibrationExample>>

-----------------------------------------------------------------------------
\* Identifiers and buckets.
Ids(vs) == [v \in vs |-> D("int64", <<2>>)]
HashOf(mask) == <<
    N("Div", <<"x", "modulus">>, <<"q">>), N("Mul", <<"q", "modulus">>, <<"p">>),
    N("Sub", <<"x", "p">>, <<"s">>), N("Add", <<"s", "offset">>, <<"a">>),
    N("Mul", <<"a", mask>>, <<"i">>)>>
HashInfo == [modulus |-> S(4), offset |-> S(2), table |-> W(<<8, 4>>)] @@
  Ids({"x", "q", "p", "s", "a", "i", "k"})

ModuloGatherExample == Example("ModuloGather", <<
    N("Equal", <<"x", "invalid">>, <<"e">>), N("Not", <<"e">>, <<"n">>),
    A("Cast", <<"n">>, <<"k">>, [to |-> "int64"])>>
  \o HashOf("k") \o <<N("Gather", <<"table", "i">>, <<"y">>)>>,
  HashInfo @@ [invalid |-> S(-1), e |-> D("bool", <<2>>), n |-> D("bool", <<2>>)], {"y"})

BucketizeGatherExample == Example("BucketizeGather", <<
    A("Cast", <<"x">>, <<"f">>, [to |-> "float"]), N("Greater", <<"f", "low">>, <<"g">>),
    A("Cast", <<"g">>, <<"k">>, [to |-> "int64"])>>
  \o HashOf("k") \o <<N("Gather", <<"table", "i">>, <<"r">>),
                      N("Squeeze", <<"r", "axis">>, <<"y">>)>>,
  [v \in {"x", "q", "p", "s", "a", "i", "k"} |-> D("int64", <<2, 1>>)] @@ HashInfo @@
  [f |-> T(<<2, 1>>), low |-> F("0"), g |-> D("bool", <<2, 1>>), r |-> T(<<2, 1, 4>>),
   axis |-> I(<<1>>)], {"y"})

LogBucketizeGatherExample == Example("LogBucketizeGather", <<
    N("Reshape", <<"seen", "shape">>, <<"rr">>), N("Sub", <<"now", "rr">>, <<"df">>),
    N("Clip", <<"df", "i0">>, <<"dc">>), A("Cast", <<"dc">>, <<"dff">>, [to |-> "float"]),
    N("Div", <<"dff", "unit">>, <<"td">>), N("Clip", <<"td", "f1">>, <<"vc">>),
    N("Log", <<"vc">>, <<"lg">>), N("Div", <<"lg", "base">>, <<"bk">>),
    N("LessOrEqual", <<"bk", "min">>, <<"le">>), N("GreaterOrEqual", <<"bk", "max">>, <<"ge">>),
    N("Sub", <<"bk", "min">>, <<"st">>), N("Div", <<"st", "width">>, <<"sp">>),
    N("Mul", <<"sp", "number">>, <<"sc">>), N("Floor", <<"sc">>, <<"fl">>),
    A("Cast", <<"fl">>, <<"fi">>, [to |-> "int64"]), N("Add", <<"fi", "i1">>, <<"ai">>),
    N("Clip", <<"ai", "i0", "top">>, <<"ix">>),
    N("Shape", <<"ix">>, <<"s1">>), A("ConstantOfShape", <<"s1">>, <<"lowest">>, [value |-> "int64:0"]),
    N("Shape", <<"ix">>, <<"s2">>), A("ConstantOfShape", <<"s2">>, <<"highest">>, [value |-> "int64:127"]),
    N("Where", <<"ge", "highest", "ix">>, <<"hi">>), N("Where", <<"le", "lowest", "hi">>, <<"lo">>),
    N("Gather", <<"table", "lo">>, <<"g">>), N("Unsqueeze", <<"g", "axis">>, <<"y">>)>>,
  [v \in {"rr", "df", "dc", "fi", "ai", "ix", "lowest", "highest", "hi", "lo"} |->
     D("int64", <<4>>)] @@
  [v \in {"s1", "s2"} |-> D("int64", <<1>>)] @@ [v \in {"le", "ge"} |-> D("bool", <<4>>)] @@
  [v \in {"dff", "td", "vc", "lg", "bk", "st", "sp", "sc", "fl"} |-> T(<<4>>)] @@
  [v \in {"unit", "f1", "base"} |-> F("1")] @@ [g |-> T(<<4, 4>>), y |-> T(<<4, 1, 4>>)] @@
  [now |-> R(<<2, 3, 4, 5>>), seen |-> R(<<0, 2, 1, 1>>),
   min |-> F("1e-16"), max |-> F("3"), width |-> F("2"), number |-> F("4")] @@
  [shape |-> I(<<-1>>), i0 |-> S(0), i1 |-> S(1), top |-> S(127), axis |-> I(<<1>>),
   table |-> W(<<128, 4>>)], {"y"})

MaskedEmbeddingLookupExample == Example("MaskedEmbeddingLookup", <<
    N("Reshape", <<"x", "minus">>, <<"flat">>), N("GreaterOrEqual", <<"flat", "zero">>, <<"g">>),
    N("NonZero", <<"g">>, <<"nz">>), A("Transpose", <<"nz">>, <<"pos">>, [perm |-> <<1, 0>>]),
    N("Squeeze", <<"pos", "one">>, <<"sq">>), N("Gather", <<"flat", "sq">>, <<"i">>),
    N("Gather", <<"table", "i">>, <<"em">>), N("ScatterND", <<"zeros", "pos", "em">>, <<"sc">>),
    N("Unsqueeze", <<"sc", "first">>, <<"y">>)>>,
  [x |-> D("int64", <<2>>), minus |-> I(<<-1>>), flat |-> D("int64", <<2>>), zero |-> S(0),
   g |-> D("bool", <<2>>), nz |-> D("int64", <<1, -1>>), pos |-> D("int64", <<-1, 1>>),
   one |-> I(<<1>>), sq |-> D("int64", <<-1>>), i |-> D("int64", <<-1>>),
   table |-> W(<<8, 4>>), em |-> T(<<-1, 4>>),
   zeros |-> [W(<<2, 4>>) EXCEPT !.data = <<"0">>], first |-> I(<<0>>),
   y |-> T(<<1, 2, 4>>)], {"y"})

SelectNodes(x, bound, value) == <<
    N("LessOrEqual", <<x, bound>>, <<"le">>), N("Not", <<"le">>, <<"nt">>),
    A("Cast", <<"nt">>, <<"kc">>, [to |-> "int64"]), A("Cast", <<"le">>, <<"rc">>, [to |-> "int64"]),
    N("Mul", <<x, "kc">>, <<"kp">>), N("Mul", <<value, "rc">>, <<"rp">>),
    N("Add", <<"kp", "rp">>, <<"ad">>)>>
SelectInfo == [value |-> S(9), le |-> D("bool", <<2>>), nt |-> D("bool", <<2>>)] @@
  Ids({"x", "kc", "rc", "kp", "rp", "ad"})

SparseIdToMaskExample == Example("SparseIdToMask", SelectNodes("x", "sparse", "value") \o
  <<N("Equal", <<"ad", "dense">>, <<"eq">>), A("Cast", <<"eq">>, <<"y">>, [to |-> "float"])>>,
  [x |-> R(<<1, 5>>), sparse |-> R(<<3, 4>>), dense |-> R(<<9, 5>>)] @@ SelectInfo @@ [eq |-> D("bool", <<2>>), y |-> T(<<2>>)], {"y"})

ReplaceInvalidIdExample == Example("ReplaceInvalidId", SelectNodes("x", "zero", "value"),
  SelectInfo @@ [zero |-> S(0)], {"ad"})

TargetIdCount(targetNodes, target) == Example("TargetIdCountEmbedding",
  <<N("Unsqueeze", <<"x", "axis">>, <<"si">>)>> \o targetNodes \o
  <<N("Sub", <<"si", target>>, <<"sb">>), N("Equal", <<"sb", "zero">>, <<"ht">>),
    N("Equal", <<"x", "padding">>, <<"pd">>), N("Not", <<"pd">>, <<"nt">>),
    N("Unsqueeze", <<"nt", "axis">>, <<"vl">>), N("And", <<"ht", "vl">>, <<"an">>),
    A("Cast", <<"an">>, <<"mk">>, [to |-> "int64"]),
    A("ReduceSum", <<"mk", "last">>, <<"rd">>, [keepdims |-> 0]),
    N("Min", <<"rd", "cap">>, <<"mn">>), N("Unsqueeze", <<"mn", "last">>, <<"bu">>),
    N("Gather", <<"table", "bu">>, <<"y">>), N("Unsqueeze", <<"rd", "last">>, <<"fu">>),
    A("Cast", <<"fu">>, <<"z">>, [to |-> "float"])>>,
  [x |-> D("int64", <<2, 3>>), target |-> D("int64", <<2, 1, 1>>), side |-> D("int64", <<2, 1>>),
   si |-> D("int64", <<2, 3, 1>>), sb |-> D("int64", <<2, 3, 1>>), ht |-> D("bool", <<2, 3, 1>>),
   pd |-> D("bool", <<2, 3>>), nt |-> D("bool", <<2, 3>>), vl |-> D("bool", <<2, 3, 1>>),
   an |-> D("bool", <<2, 3, 1>>), mk |-> D("int64", <<2, 3, 1>>), rd |-> D("int64", <<2, 1>>),
   mn |-> D("int64", <<2, 1>>), bu |-> D("int64", <<2, 1, 1>>), fu |-> D("int64", <<2, 1, 1>>),
   y |-> T(<<2, 1, 1, 4>>), z |-> T(<<2, 1, 1>>),
   axis |-> I(<<2>>), last |-> I(<<1>>), zero |-> S(0), padding |-> S(-1), cap |-> S(7),
   table |-> W(<<8, 4>>)],
  {"y", "z"})
TargetIdCountEmbeddingExample == TargetIdCount(<<>>, "target")

IdExamples == <<ModuloGatherExample, BucketizeGatherExample, LogBucketizeGatherExample,
  MaskedEmbeddingLookupExample, SparseIdToMaskExample, ReplaceInvalidIdExample,
  TargetIdCountEmbeddingExample>>

-----------------------------------------------------------------------------
\* Attention masks.
LengthNodes(x, h, g) == <<N("Shape", <<x>>, <<h>>), N("Gather", <<h, "one">>, <<g>>)>>
MaskGraph ==
  LengthNodes("x1", "h1", "g1") \o LengthNodes("x2", "h2", "g2") \o
  LengthNodes("x3", "h3", "g3") \o LengthNodes("x4", "h4", "g4") \o
  LengthNodes("t", "ht", "gt") \o <<
    N("Add", <<"g1", "prefix">>, <<"a0">>), N("Add", <<"a0", "g2">>, <<"a1">>),
    N("Add", <<"g3", "a1">>, <<"a2">>), N("Add", <<"a2", "g4">>, <<"u">>),
    N("Add", <<"u", "gt">>, <<"total">>),
    N("Reshape", <<"u", "ones">>, <<"ru">>), N("Reshape", <<"gt", "ones">>, <<"rt">>),
    N("Add", <<"ru", "rt">>, <<"l">>),
    N("Less", <<"rows", "ru">>, <<"rlu">>), N("Less", <<"cols", "ru">>, <<"clu">>),
    N("GreaterOrEqual", <<"rows", "ru">>, <<"rgu">>),
    N("GreaterOrEqual", <<"cols", "ru">>, <<"cgu">>),
    N("Less", <<"rows", "l">>, <<"rll">>), N("Less", <<"cols", "l">>, <<"cll">>),
    N("Sub", <<"rows", "ru">>, <<"rs">>), N("Sub", <<"cols", "ru">>, <<"cs">>),
    A("Cast", <<"rs">>, <<"rsc">>, [to |-> "int32"]),
    A("Cast", <<"cs">>, <<"csc">>, [to |-> "int32"]),
    N("Equal", <<"rsc", "csc">>, <<"eq">>), N("And", <<"rlu", "clu">>, <<"up">>),
    N("And", <<"rgu", "clu">>, <<"tg">>), N("Or", <<"up", "tg">>, <<"o0">>),
    N("And", <<"rgu", "rll">>, <<"rr">>), N("And", <<"cgu", "cll">>, <<"cr">>),
    N("And", <<"rr", "cr">>, <<"a4">>), N("And", <<"a4", "eq">>, <<"a5">>),
    N("Or", <<"o0", "a5">>, <<"o1">>), N("And", <<"rll", "cll">>, <<"a6">>),
    N("And", <<"o1", "a6">>, <<"a7">>), N("Unsqueeze", <<"a7", "axis1">>, <<"m">>)>>
Iota(dims) == [I(<<0, 1, 2, 3, 4, 5, 6, 7>>) EXCEPT !.dims = dims]
MaskInfo ==
  [v \in {"x1", "x2", "x3"} |-> T(<<2, 1, 4>>)] @@ [x4 |-> T(<<2, -1, 4>>), t |-> T(<<2, 2>>)] @@
  [v \in {"rlu", "clu", "rgu", "cgu", "rll", "cll", "eq", "up", "tg", "o0", "rr", "cr", "a4",
          "a5", "o1", "a6", "a7"} |-> D("bool", <<1, 8, 8>>)] @@
  [v \in {"h1", "h2", "h3", "h4", "ht"} |-> D("int64", <<3>>)] @@
  [v \in {"g1", "g2", "g3", "g4", "gt", "a0", "a1", "a2", "u", "total"} |-> D("int64", <<>>)] @@
  [v \in {"ru", "rt", "l", "rs", "cs", "rsc", "csc"} |-> D("int64", <<1, -1, -1>>)] @@
  [m |-> D("bool", <<1, 1, 8, 8>>), one |-> S(1), prefix |-> S(1), ones |-> I(<<1, 1, 1>>),
   axis1 |-> I(<<1>>), rows |-> Iota(<<1, 8, 1>>), cols |-> Iota(<<1, 1, 8>>)]
GenerateMTGRCustomMaskExample ==
  Example("GenerateMTGRCustomMask", MaskGraph, MaskInfo, {"m", "total", "gt"})

\* The same with a mask that is cropped to the total length, by two slices or one.
CropInfo == [first |-> I(<<0>>), step |-> I(<<1>>), axis2 |-> I(<<2>>), axis3 |-> I(<<3>>),
  firsts |-> I(<<0, 0>>), steps |-> I(<<1, 1>>), axes |-> I(<<2, 3>>),
  length |-> D("int64", <<1>>), ends |-> D("int64", <<2>>), s1 |-> D("bool", <<1, 1, -1, 8>>),
  s2 |-> D("bool", <<1, 1, -1, -1>>), y |-> D("int32", <<1, 1, -1, -1>>)]
TwiceCroppedMaskExample == Example("GenerateMTGRCustomMask", MaskGraph \o <<
    N("Unsqueeze", <<"total", "first">>, <<"length">>),
    N("Slice", <<"m", "first", "length", "axis2", "step">>, <<"s1">>),
    N("Slice", <<"s1", "first", "length", "axis3", "step">>, <<"s2">>),
    A("Cast", <<"s2">>, <<"y">>, [to |-> "int32"])>>, MaskInfo @@ CropInfo, {"y", "gt"})
CroppedMaskExample == Example("GenerateMTGRCustomMask", MaskGraph \o <<
    N("Unsqueeze", <<"total", "first">>, <<"length">>),
    A("Concat", <<"length", "length">>, <<"ends">>, [axis |-> 0]),
    N("Slice", <<"m", "firsts", "ends", "axes", "steps">>, <<"s2">>),
    A("Cast", <<"s2">>, <<"y">>, [to |-> "int32"])>>, MaskInfo @@ CropInfo, {"y", "gt"})

MaskExamples == <<GenerateMTGRCustomMaskExample, TwiceCroppedMaskExample, CroppedMaskExample>>

-----------------------------------------------------------------------------
\* Attention.
Half(vs, dims) == [v \in vs |-> D("float16", dims)]
PlainMhtaExample == Example("MhtaScaledDotProductAttention", <<
    A("Transpose", <<"q">>, <<"qt">>, [perm |-> <<0, 2, 1, 3>>]),
    A("Transpose", <<"k">>, <<"kt">>, [perm |-> <<0, 2, 3, 1>>]),
    A("Transpose", <<"v">>, <<"vt">>, [perm |-> <<0, 2, 1, 3>>]),
    N("MatMul", <<"qt", "kt">>, <<"sc">>), N("Mul", <<"sc", "scale">>, <<"sm">>),
    N("Add", <<"sm", "bias">>, <<"sa">>), N("Div", <<"sa", "heat">>, <<"sd">>),
    N("Softmax", <<"sd">>, <<"sf">>), N("MatMul", <<"sf", "vt">>, <<"o">>),
    A("Transpose", <<"o">>, <<"y">>, [perm |-> <<0, 2, 1, 3>>])>>,
  Half({"q", "k", "v", "y"}, <<1, 3, 2, 4>>) @@ Half({"qt", "vt", "o"}, <<1, 2, 3, 4>>) @@
  Half({"kt"}, <<1, 2, 4, 3>>) @@ Half({"sc", "sm", "sa", "sd", "sf"}, <<1, 2, 3, 3>>) @@
  Half({"bias"}, <<1, 1, 3, 3>>) @@
  [v \in {"scale", "heat"} |-> [F("0.5") EXCEPT !.dtype = "float16"]], {"y"})

BooleanMhtaInfo ==
  [v \in {"q", "v", "y"} |-> T(<<1, 2, 3, 4>>)] @@ [k |-> T(<<1, 2, 4, 3>>)] @@
  [v \in {"sc", "sm", "w", "sf", "sf32", "sfs", "p"} |-> T(<<1, 2, 3, 3>>)] @@
  [mask |-> D("bool", <<1, 1, 3, 3>>), scale |-> F("0.5"), ninf |-> F("-inf"), zero |-> F("0")]
BooleanMhtaExample == Example("MhtaScaledDotProductAttention", <<
    N("MatMul", <<"q", "k">>, <<"sc">>), N("Mul", <<"sc", "scale">>, <<"sm">>),
    N("Where", <<"mask", "sm", "ninf">>, <<"w">>), N("Softmax", <<"w">>, <<"sf">>),
    A("Cast", <<"sf">>, <<"sf32">>, [to |-> "float"]),
    A("Cast", <<"sf32">>, <<"sfs">>, [to |-> "float"]),
    N("Where", <<"mask", "sfs", "zero">>, <<"p">>), N("MatMul", <<"p", "v">>, <<"y">>)>>,
  BooleanMhtaInfo, {"y"})
\* In half precision with the transposes at the boundary.
BooleanHalfMhtaExample == Example("MhtaScaledDotProductAttention", <<
    A("Transpose", <<"q">>, <<"qt">>, [perm |-> <<0, 2, 1, 3>>]),
    A("Transpose", <<"k">>, <<"kt">>, [perm |-> <<0, 2, 3, 1>>]),
    A("Transpose", <<"v">>, <<"vt">>, [perm |-> <<0, 2, 1, 3>>]),
    N("MatMul", <<"qt", "kt">>, <<"sc">>), N("Mul", <<"sc", "scale">>, <<"sm">>),
    N("Where", <<"mask", "sm", "ninf">>, <<"w">>), N("Softmax", <<"w">>, <<"sf">>),
    N("Where", <<"mask", "sf", "zero">>, <<"p">>), N("MatMul", <<"p", "vt">>, <<"o">>),
    A("Transpose", <<"o">>, <<"y">>, [perm |-> <<0, 2, 1, 3>>])>>,
  Half({"q", "k", "v", "y"}, <<1, 3, 2, 4>>) @@ Half({"qt", "vt", "o"}, <<1, 2, 3, 4>>) @@
  Half({"kt"}, <<1, 2, 4, 3>>) @@ Half({"sc", "sm", "w", "sf", "p"}, <<1, 2, 3, 3>>) @@
  [mask |-> D("bool", <<1, 1, 3, 3>>)] @@
  [v \in {"scale", "ninf", "zero"} |->
     [F(CASE v = "scale" -> "0.5" [] v = "ninf" -> "-inf" [] v = "zero" -> "0")
       EXCEPT !.dtype = "float16"]], {"y"})
RawMaskMhtaExample == Example("MhtaScaledDotProductAttention", <<
    N("Slice", <<"raw", "first", "end", "axis", "step">>, <<"m32">>),
    A("Cast", <<"m32">>, <<"m64">>, [to |-> "int64"]), N("Equal", <<"m64", "one">>, <<"mask">>),
    N("MatMul", <<"q", "k">>, <<"sc">>), N("Mul", <<"sc", "scale">>, <<"sm">>),
    N("Where", <<"mask", "sm", "ninf">>, <<"w">>), N("Softmax", <<"w">>, <<"sf">>),
    N("Where", <<"mask", "sf", "zero">>, <<"p">>), N("MatMul", <<"p", "v">>, <<"y">>)>>,
  BooleanMhtaInfo @@
  [raw |-> [D("int32", <<1, 1, 3, 4>>) EXCEPT !.data = <<1, 0, 1, 1, 0, 1, 1, 0, 1, 0, 0, 1>>], m32 |-> D("int32", <<1, 1, 3, 3>>),
   m64 |-> D("int64", <<1, 1, 3, 3>>), first |-> I(<<0>>), end |-> R(<<3>>),
   axis |-> I(<<3>>), step |-> I(<<1>>), one |-> S(1)], {"y"})

LseqMhtaExample == Example("MhtaScaledDotProductAttention", <<
    A("Cast", <<"q">>, <<"qf">>, [to |-> "float"]), A("Cast", <<"k">>, <<"kf">>, [to |-> "float"]),
    A("Cast", <<"v">>, <<"vf">>, [to |-> "float"]), N("ConstantOfShape", <<"pad">>, <<"z">>),
    A("Concat", <<"kf", "z">>, <<"kp">>, [axis |-> 0]),
    A("Concat", <<"vf", "z">>, <<"vp">>, [axis |-> 0]),
    A("Transpose", <<"qf">>, <<"qt">>, [perm |-> <<1, 0, 2>>]),
    A("Transpose", <<"kp">>, <<"kt">>, [perm |-> <<1, 2, 0>>]),
    A("Transpose", <<"vp">>, <<"vt">>, [perm |-> <<1, 0, 2>>]),
    N("MatMul", <<"qt", "kt">>, <<"sc">>), N("Mul", <<"sc", "scale">>, <<"sm">>),
    N("Shape", <<"sm">>, <<"sh">>), N("Gather", <<"sh", "two">>, <<"len">>),
    N("Sub", <<"len", "one">>, <<"l1">>), N("Clip", <<"l1", "one">>, <<"cl">>),
    N("Range", <<"nil", "len", "one">>, <<"rg">>), N("Less", <<"rg", "cl">>, <<"ls">>),
    N("Unsqueeze", <<"ls", "first">>, <<"c1">>), N("Unsqueeze", <<"c1", "second">>, <<"r1">>),
    N("Where", <<"r1", "sm", "ninf">>, <<"w">>), N("Softmax", <<"w">>, <<"sf">>),
    N("MatMul", <<"sf", "vt">>, <<"o">>),
    A("Transpose", <<"o">>, <<"ot">>, [perm |-> <<1, 0, 2>>]),
    A("Cast", <<"ot">>, <<"y">>, [to |-> "bfloat16"])>>,
  [v \in {"q", "k", "v", "y"} |-> D("bfloat16", <<-1, 2, 4>>)] @@
  [v \in {"qf", "kf", "vf", "kp", "vp", "ot", "z"} |-> T(<<-1, 2, 4>>)] @@
  [v \in {"qt", "vt", "o"} |-> T(<<2, -1, 4>>)] @@ [kt |-> T(<<2, 4, -1>>)] @@
  [v \in {"sc", "sm", "w", "sf"} |-> T(<<2, -1, -1>>)] @@
  [v \in {"len", "l1", "cl"} |-> D("int64", <<>>)] @@
  [v \in {"ls", "c1", "r1"} |-> Unranked("bool")] @@
  [sh |-> D("int64", <<3>>), rg |-> D("int64", <<-1>>), pad |-> I(<<1, 2, 4>>),
   scale |-> F("0.5"), ninf |-> F("-inf"), nil |-> S(0), one |-> S(1), two |-> S(2),
   first |-> I(<<0>>), second |-> I(<<1>>)], {"y"})

SimRank3MhtaExample == Example("MhtaScaledDotProductAttention", <<
    A("Einsum", <<"k", "q">>, <<"sc">>, [equation |-> "blhw,bjhw->bhl"]),
    N("Mul", <<"sc", "scale">>, <<"sm">>), N("Add", <<"sm", "bias">>, <<"sa">>),
    N("Div", <<"sa", "heat">>, <<"sd">>), N("Softmax", <<"sd">>, <<"sf">>),
    N("Unsqueeze", <<"sf", "axis">>, <<"u">>), N("MatMul", <<"u", "v">>, <<"o">>),
    N("Reshape", <<"o", "shape">>, <<"y">>)>>,
  [v \in {"sc", "sm", "sa", "sd", "sf"} |-> T(<<1, 2, 3>>)] @@
  [bias |-> T(<<1, 1, 3>>), k |-> T(<<1, 3, 2, 4>>), q |-> T(<<1, 1, 2, 4>>), v |-> T(<<1, 2, 3, 4>>),
   u |-> T(<<1, 2, 1, 3>>), o |-> T(<<1, 2, 1, 4>>), y |-> T(<<1, 1, 8>>),
   scale |-> F("0.5"), heat |-> F("0.5"), axis |-> I(<<2>>), shape |-> I(<<-1, 1, 8>>)], {"y"})

QkvAttentionOutputProjectionExample == Example("QkvAttentionOutputProjection", <<
    N("Unsqueeze", <<"x", "first">>, <<"u">>),
    A("com.microsoft.Attention", <<"u", "w", "b">>, <<"a">>,
      [num_heads |-> 2, qkv_hidden_sizes |-> <<4, 4, 4>>]),
    N("Reshape", <<"a", "shape">>, <<"r">>), GemmT("r", "wo", "bo", "y")>>,
  [first |-> I(<<0>>), u |-> T(<<1, 2, 4>>), w |-> W(<<4, 12>>), b |-> W(<<12>>),
   a |-> T(<<1, 2, 4>>), shape |-> I(<<2, 4>>), wo |-> W(<<4, 4>>), bo |-> W(<<4>>)], {"y"})

KqvBranch(k, from, to) ==
  LET V(v) == v \o ToString(k)
  IN  <<N("Slice", <<"x", from, to, "zero", "one">>, <<V("s")>>),
        N("MatMul", <<V("s"), V("w")>>, <<V("p")>>),
        A("Split", <<V("p")>>, <<V("q"), V("k"), V("v")>>, [axis |-> 1])>>
MultiKqvMhaOutputProjectionExample == Example("MultiKqvMhaOutputProjection",
  KqvBranch(1, "r0", "r1") \o KqvBranch(2, "r1", "r2") \o <<
    A("Concat", <<"q1", "q2">>, <<"q">>, [axis |-> 0]),
    A("Concat", <<"k1", "k2">>, <<"k">>, [axis |-> 0]),
    A("Concat", <<"v1", "v2">>, <<"v">>, [axis |-> 0]),
    N("Unsqueeze", <<"q", "zero">>, <<"qu">>), N("Unsqueeze", <<"k", "zero">>, <<"ku">>),
    N("Unsqueeze", <<"v", "zero">>, <<"vu">>),
    A("com.microsoft.MultiHeadAttention", <<"qu", "ku", "vu", "bias", "mask">>, <<"a">>,
      [num_heads |-> 2, mask_filter_value |-> "-10000"]),
    N("Gather", <<"a", "nil">>, <<"g">>),
    N("Slice", <<"g", "t0", "t1", "zero", "one">>, <<"g1">>), GemmT("g1", "o1", "b1", "y1"),
    N("Slice", <<"g", "t1", "t2", "zero", "one">>, <<"g2">>), GemmT("g2", "o2", "b2", "y2"),
    A("Concat", <<"y1", "y2">>, <<"y">>, [axis |-> 0])>>,
  [v \in {"w1", "w2"} |-> W(<<4, 12>>)] @@ [v \in {"o1", "o2"} |-> W(<<4, 4>>)] @@
  [v \in {"b1", "b2"} |-> W(<<4>>)] @@ [bias |-> W(<<12>>), mask |-> D("int32", <<1, 3, 3>>)] @@
  [v \in {"r0", "t0"} |-> R(<<0>>)] @@ [v \in {"r1", "t1"} |-> R(<<1>>)] @@
  [v \in {"r2", "t2"} |-> R(<<3>>)] @@ [x |-> T(<<3, 4>>)] @@
  [zero |-> I(<<0>>), one |-> I(<<1>>), nil |-> S(0)], {"y"})

AttentionExamples == <<PlainMhtaExample, BooleanMhtaExample, BooleanHalfMhtaExample,
  RawMaskMhtaExample, LseqMhtaExample, SimRank3MhtaExample, QkvAttentionOutputProjectionExample,
  MultiKqvMhaOutputProjectionExample>>

-----------------------------------------------------------------------------
\* Shape arithmetic that no fusion takes: what Shape leaves in host memory,
\* mixed with integers that are on the device.
MetadataExample == Example("none", <<
    N("Shape", <<"x">>, <<"s">>),
    N("Gather", <<"s", "first">>, <<"d">>), N("Mul", <<"d", "four">>, <<"m">>),
    N("Unsqueeze", <<"m", "zero">>, <<"u">>), N("Add", <<"m", "k">>, <<"mk">>),
    A("Concat", <<"u", "tail">>, <<"p">>, [axis |-> 0]),
    N("Reshape", <<"x", "p">>, <<"y">>), N("Neg", <<"mk">>, <<"z">>)>>,
  [s |-> D("int64", <<2>>), d |-> D("int64", <<>>), m |-> D("int64", <<>>),
   u |-> D("int64", <<1>>), k |-> D("int64", <<>>), mk |-> D("int64", <<>>),
   p |-> D("int64", <<2>>), first |-> S(0), four |-> S(4), zero |-> I(<<0>>),
   tail |-> I(<<-1>>), z |-> D("int64", <<>>)], {"y", "z"})

FillExample == Example("none", <<
    N("Shape", <<"x">>, <<"s">>), N("Slice", <<"s", "zero", "one">>, <<"n">>),
    A("ConstantOfShape", <<"n">>, <<"f">>, [value |-> "zero"]),
    N("Gather", <<"f", "i">>, <<"g">>), N("Equal", <<"n", "k">>, <<"e">>),
    N("Where", <<"e", "k", "n">>, <<"w">>), N("Expand", <<"x", "w">>, <<"y">>),
    N("Squeeze", <<"n", "zero">>, <<"q">>), N("Sub", <<"q", "j">>, <<"z">>)>>,
  [s |-> D("int64", <<2>>), n |-> D("int64", <<1>>), f |-> D("int64", <<-1>>),
   g |-> D("int64", <<1>>), i |-> D("int64", <<1>>), e |-> D("bool", <<1>>),
   w |-> D("int64", <<1>>), q |-> D("int64", <<>>), j |-> D("int64", <<>>),
   k |-> I(<<1>>), z |-> D("int64", <<>>), zero |-> I(<<0>>), one |-> I(<<1>>)],
  {"y", "g", "z"})

PlacementExamples == <<MetadataExample, FillExample>>

\* A shape that is added to what a fused node computes.
FusedMetadataExample == Example("ConcatReshape", <<
    A("Concat", <<"a", "b">>, <<"c">>, [axis |-> 0]), N("Reshape", <<"c", "shape">>, <<"r">>),
    N("Shape", <<"x">>, <<"s">>), N("Add", <<"s", "r">>, <<"t">>),
    N("Reshape", <<"x", "t">>, <<"y">>)>>,
  [shape |-> I(<<2>>), a |-> D("int64", <<1>>), b |-> D("int64", <<1>>),
   c |-> D("int64", <<2>>), r |-> D("int64", <<2>>), s |-> D("int64", <<2>>),
   t |-> D("int64", <<2>>)], {"y"})
=============================================================================
