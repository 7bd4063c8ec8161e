---------------------------- MODULE MCExecution ----------------------------
EXTENDS Execution
LOCAL X == INSTANCE FusionExamples

CONSTANT Families
ExamplesOf(family) ==
  CASE family = "layout" -> X!LayoutExamples
    [] family = "linear" -> X!LinearExamples
    [] family = "moe" -> X!MoEExamples
    [] family = "norm" -> X!NormExamples
    [] family = "id" -> X!IdExamples
    [] family = "mask" -> X!MaskExamples
    [] family = "attention" -> X!AttentionExamples

\* The values no node writes, and a number for each: where it is first read.
Written(ex) == UNION {ToSet(n.outs) : n \in ToSet(ex.node)}
Read(ex) == UNION {ToSet(n.ins) : n \in ToSet(ex.node)} \ (Written(ex) \cup {Missing})
Place(ex, v) ==
  Min(UNION {{7 * n + i : i \in {i \in DOMAIN ex.node[n].ins : ex.node[n].ins[i] = v}} :
               n \in DOMAIN ex.node})
Fed(ex) == {v \in Read(ex) : ~ex.info[v].const}

\* Some data for an input, and the data of constants, repeated where only the first
\* are given; a dimension that is left open is two.
Sample(dtype, k, j) ==
  CASE dtype = "bool" -> (k + j) % 2
    [] dtype \in Integral -> ((5 * k + 3 * j) % 6) - 2
    [] OTHER -> 1 + ((17 * k + 29 * j + j * j * k) % 47) - 24
Feed(ex) ==
  [v \in Read(ex) |->
     LET info == ex.info[v]
         k == Place(ex, v)
         dims == [i \in DOMAIN info.dims |-> IF info.dims[i] = -1 THEN 2 ELSE info.dims[i]]
     IN  [dtype |-> info.dtype, dims |-> dims,
          data |-> Tabulate(NumElements(dims), LAMBDA j :
                     IF info.data = <<>> THEN Sample(info.dtype, k, j)
                     ELSE LET d == info.data[((j - 1) % Len(info.data)) + 1]
                          IN  IF info.dtype \in Floating THEN Number(d) ELSE d)]]

\* One edit of an example.
IntAttrs == {"axis", "keepdims", "allowzero", "transA", "transB", "num_heads"}
FloatAttrs == {"alpha", "beta", "epsilon", "scale", "mask_filter_value"}
WithAttr(ex, n, attr) == [ex EXCEPT !.node[n].attr = attr]
AttrEdits(ex, n) ==
  LET attr == ex.node[n].attr
      without(a) == [b \in DOMAIN attr \ {a} |-> attr[b]]
  IN  {WithAttr(ex, n, without(a)) : a \in DOMAIN attr}
      \cup {WithAttr(ex, n, [attr EXCEPT ![a] = "int64:0"]) : a \in DOMAIN attr \cap {"value"}}
      \cup {WithAttr(ex, n, [attr EXCEPT ![a] = "0.25"]) : a \in DOMAIN attr \cap FloatAttrs}
      \cup UNION {{WithAttr(ex, n, [attr EXCEPT ![a] = @ + d]) : d \in {-1, 1}
                     \cup {-Len(ex.info[ex.node[n].outs[1]].dims)}} : a \in DOMAIN attr \cap IntAttrs}
ConstEdits(ex, v) ==
  {[ex EXCEPT !.info[v].data[i] = @ + d] : i \in DOMAIN ex.info[v].data \cap 1..4, d \in {-1, 1, -2, 2}}
DimEdits(ex, v) ==
  {[ex EXCEPT !.info[v].dims[i] = d] : i \in DOMAIN ex.info[v].dims, d \in {0, 1, 3, 4}}
Redim(ex, S, F(_)) == [ex EXCEPT !.info = [v \in DOMAIN @ |->
  IF v \in S THEN [@[v] EXCEPT !.dims = F(@)] ELSE @[v]]]
Leading(ex, d) == Redim(ex, Fed(ex), LAMBDA dims :
  IF dims = <<>> THEN dims ELSE [dims EXCEPT ![1] = d])
Replaced(ex, from, to) ==
  Redim(ex, {v \in Read(ex) : ~ex.info[v].const \/ ex.info[v].data = <<>>}, LAMBDA dims :
    [i \in DOMAIN dims |-> IF dims[i] = from THEN to ELSE dims[i]])
\* The same elements in dimensions of other ranks.
Regrouped(ex, v) ==
  LET dims == ex.info[v].dims
  IN  {[ex EXCEPT !.info[v].dims = d] :
         d \in {<<1>> \o dims, dims \o <<1>>}
              \cup (IF Len(dims) < 2 THEN {}
                    ELSE {<<dims[1] * dims[2]>> \o SubSeq(dims, 3, Len(dims)),
                          <<dims[2], dims[1]>> \o SubSeq(dims, 3, Len(dims))}
                         \cup {SubSeq(dims, 1, i - 1) \o <<2, dims[i] \div 2>> \o SubSeq(dims, i + 1, Len(dims)) :
                                 i \in {i \in DOMAIN dims : dims[i] % 2 = 0}})}
Ranker(ex, v) == Redim(ex, {v}, LAMBDA dims : <<2>> \o dims)
Retyped(ex, from, to) == [ex EXCEPT !.info = [v \in DOMAIN @ |->
  IF @[v].dtype = from /\ @[v].data = <<>> THEN [@[v] EXCEPT !.dtype = to] ELSE @[v]]]

\* An upper bound where there is none, the same as the lower one.
Clipped(ex, n) ==
  IF ex.node[n].op = "Clip" /\ Len(ex.node[n].ins) = 2
  THEN {[ex EXCEPT !.node[n].ins = @ \o <<@[2]>>]} ELSE {}

\* The first two inputs of a node change places, when they have one type.
Swapped(ex, n) ==
  LET ins == ex.node[n].ins
  IN  IF Len(ins) < 2 \/ ex.info[ins[1]].dtype # ex.info[ins[2]].dtype THEN {}
      ELSE {[ex EXCEPT !.node[n].ins[1] = ins[2], !.node[n].ins[2] = ins[1]]}

\* A constant is only known when the graph runs.
Runtime(ex, v) ==
  {[ex EXCEPT !.info[v].const = FALSE, !.info[v].data[1] = @ + d] : d \in {0, 1}}

\* Another result leaves the graph, or one less does.
Exports(ex) ==
  {[ex EXCEPT !.outputs = @ \cup {v}] : v \in Written(ex) \ ex.outputs}
  \cup {[ex EXCEPT !.outputs = @ \ {v}] :
           v \in {u \in ex.outputs : \E n \in ToSet(ex.node) : u \in ToSet(n.ins)}}

IntConsts(ex) == {v \in Read(ex) : ex.info[v].data # <<>> /\ ex.info[v].dtype \in Integral}
FloatConsts(ex) == {v \in Read(ex) : ex.info[v].data # <<>> /\ ex.info[v].dtype \in Floating}
Edits(ex) ==
  {ex} \cup UNION {AttrEdits(ex, n) \cup Clipped(ex, n) \cup Swapped(ex, n) : n \in DOMAIN ex.node}
  \cup UNION {ConstEdits(ex, v) \cup Runtime(ex, v) : v \in IntConsts(ex)}
  \cup {[ex EXCEPT !.info[v].data[1] = "2"] : v \in FloatConsts(ex)} \cup Exports(ex)
  \cup UNION {DimEdits(ex, v) \cup Regrouped(ex, v) \cup {Ranker(ex, v)} : v \in Fed(ex)}
  \cup {Leading(ex, d) : d \in {0, 1, 2, 3}}
  \cup {Replaced(ex, from, to) : from \in {2, 4}, to \in {1, 3, 6}}
  \cup {Retyped(ex, "float", t) : t \in {"float16", "double"}}

\* The edits are also made of examples of other sizes.
Sized(ex) == {Leading(ex, 2), Leading(ex, 3), Replaced(ex, 2, 1)}
Init ==
  \E family \in Families : \E base \in ToSet(ExamplesOf(family)) :
  \E sized \in {base} \cup Sized(base) : \E ex \in Edits(sized) :
    Start(Indexed(ex.node, ex.info, ex.outputs), base.fusion, Feed(ex))
Spec == Init /\ [][Next]_vars
=============================================================================
