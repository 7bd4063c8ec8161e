---------------------------- MODULE MCCapability ----------------------------
EXTENDS Capability
LOCAL X == INSTANCE FusionExamples
CONSTANTS
  Bases,         \* which of the example graphs a run starts from
  LongestDetour  \* graphs of more nodes get no detours

Base ==
  CASE Bases = "all" -> X!LayoutExamples \o X!LinearExamples \o X!MoEExamples \o <<X!CrossedMoEExample>>
         \o X!NormExamples
         \o X!IdExamples \o X!MaskExamples \o X!AttentionExamples \o X!PlacementExamples
    [] Bases = "layout" -> X!LayoutExamples
    [] Bases = "place" -> X!PlacementExamples
    [] Bases = "host" -> <<X!FusedMetadataExample>>

\* One edit of an example: another reader of a value, a value exported, a node
\* between a value and a later one that leads from the first to the second, and
\* other element types.
Written(ex) == UNION {ToSet(n.outs) : n \in ToSet(ex.node)} \ {""}
WithValue(ex, v, like) == [ex EXCEPT !.info =
  [u \in DOMAIN ex.info \cup {v} |-> IF u = v THEN [like EXCEPT !.const = FALSE] ELSE ex.info[u]]]
Tap(ex, v) ==
  [WithValue(ex, "tap", ex.info[v]) EXCEPT
     !.node = Append(@, X!N("Identity", <<v>>, <<"tap">>)), !.outputs = @ \cup {"tap"}]
Export(ex, v) == [ex EXCEPT !.outputs = @ \cup {v}]
Detour(ex, v, n, i) ==
  [WithValue(ex, "detour", ex.info[ex.node[n].ins[i]]) EXCEPT
     !.node = SubSeq(@, 1, n - 1)
              \o <<X!N("Sum", <<@[n].ins[i], v>>, <<"detour">>),
                   [@[n] EXCEPT !.ins = [@ EXCEPT ![i] = "detour"]]>>
              \o SubSeq(@, n + 1, Len(@))]
Floats(ex) == {v \in DOMAIN ex.info : ex.info[v].dtype = "float"}
Retype(ex, S, type) ==
  [ex EXCEPT !.info = [v \in DOMAIN @ |-> IF v \in S THEN [@[v] EXCEPT !.dtype = type] ELSE @[v]]]

Detours(ex) ==
  IF Len(ex.node) > LongestDetour THEN {}
  ELSE UNION {{Detour(ex, v, n, i) : i \in DOMAIN ex.node[n].ins,
                 v \in UNION {ToSet(ex.node[m].outs) : m \in 1..(n - 1)} \ {""}}
              : n \in DOMAIN ex.node}
Edits(ex) ==
  {ex} \cup {Tap(ex, v) : v \in Written(ex)} \cup {Export(ex, v) : v \in Written(ex)}
  \cup {Retype(ex, Floats(ex), t) : t \in {"float16", "double"}}
  \cup {Retype(ex, {v}, "double") : v \in Floats(ex)} \cup Detours(ex)

ASSUME GraphsAreInOrder ==
  \A k \in DOMAIN Base : \A ex \in Edits(Base[k]) : WellFormed(Indexed(ex.node, ex.info, ex.outputs))

\* Where a graph starts from: no node is assigned and every one has a kernel;
\* for the shape arithmetic also with one node assigned and one without a kernel.
Unassigned(ex) == [n \in DOMAIN ex.node |-> ""]
Assignments(ex) ==
  {[Unassigned(ex) EXCEPT ![n] = ep] : n \in DOMAIN ex.node,
     ep \in {"", "CPUExecutionProvider", "MUSAExecutionProvider", "other"}}
Init ==
  \E k \in DOMAIN Base :
    \/ \E ex \in Edits(Base[k]), disableAll \in {FALSE, Base[k].fusion = "none"} :
         Start(Indexed(ex.node, ex.info, ex.outputs), Unassigned(ex), {}, disableAll)
    \/ /\ Base[k].fusion = "none"
       /\ LET ex == Base[k]
          IN  \E eps \in Assignments(ex), n \in 0..Len(ex.node) :
                Start(Indexed(ex.node, ex.info, ex.outputs), eps, {n} \ {0}, TRUE)

Spec == Init /\ [][Next]_vars
=============================================================================
