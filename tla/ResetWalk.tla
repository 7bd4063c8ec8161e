----------------------------- MODULE ResetWalk -----------------------------
(***************************************************************************)
(* MusaArena says what the loops of ResetChunksUsingStream leave behind    *)
(* (Coalesced); this module runs the loops themselves, region by region    *)
(* and chunk by chunk, on every state of the arena that they can be called *)
(* in.                                                                     *)
(***************************************************************************)
EXTENDS MusaArena

(* Where the loops are: at is the chunk the inner one has come to, None at *)
(* the end of a region, and left are the regions not begun.                *)
Begin(cs, bs) == [chunks |-> cs, bins |-> bs, at |-> None, left |-> DOMAIN regions]

(* The outer loop goes on with the next region.                            *)
EnterRegion(st) ==
  IF st.left = {} THEN st
  ELSE [st EXCEPT !.at = Min(st.left), !.left = @ \ {Min(st.left)}]

(* Mutant: the walk goes on from the chunk it came to, not from the chunk  *)
(* that chunk was merged into.                                             *)
VisitFreeLost(st) ==
  LET cs   == st.chunks
      done == Coalesce([cs EXCEPT ![st.at].bin = None],
                       RemoveFromBin(st.bins, st.at, cs[st.at].bin), st.at)
      bin  == BinNumForSize(done.chunks[done.at].size)
      next == cs[st.at].next
  IN  [chunks |-> [done.chunks EXCEPT ![done.at].bin = bin],
       bins   |-> InsertInBin(done.bins, done.at, bin),
       at     |-> IF next \in DOMAIN done.chunks THEN next ELSE None,
       left   |-> st.left]

(* The inner loop at a free chunk: it leaves its bin, merges with its      *)
(* neighbours, and the loop goes on behind the chunk that results.         *)
VisitFree(st) ==
  LET cs   == st.chunks
      done == Coalesce([cs EXCEPT ![st.at].bin = None],
                       RemoveFromBin(st.bins, st.at, cs[st.at].bin), st.at)
      bin  == BinNumForSize(done.chunks[done.at].size)
  IN  [chunks |-> [done.chunks EXCEPT ![done.at].bin = bin],
       bins   |-> InsertInBin(done.bins, done.at, bin),
       at     |-> done.chunks[done.at].next,
       left   |-> st.left]

(* One turn of the loops.                                                  *)
Turn(st) ==
  IF st.at = None THEN EnterRegion(st)
  ELSE IF st.chunks[st.at].inUse THEN [st EXCEPT !.at = st.chunks[st.at].next]
  ELSE VisitFree(st)

(* n turns, from a state.                                                  *)
Turns(st, n) ==
  LET walk[k \in 0 .. n] == IF k = 0 THEN st ELSE Turn(walk[k - 1])
  IN  walk[n]

(* The loops over all regions: there are no more turns than regions that   *)
(* are begun and chunks that are visited.                                  *)
WalkRegions(cs, bs) ==
  Turns(Begin(cs, bs), Cardinality(DOMAIN regions) + Cardinality(DOMAIN cs))

(* Whatever the stream to be released owns, the walk, which changes the    *)
(* links it follows, comes to its end, merges every run of neighbours that *)
(* has become nobody's, and leaves each free chunk in the bin of its new   *)
(* size.                                                                   *)
WalkIsCoalesced ==
  \A i \in DOMAIN streamOf :
    LET cleared == Cleared(streamOf[i])
    IN  WalkRegions(cleared, bins) =
          [chunks |-> Coalesced(cleared),
           bins   |-> [b \in Bin |-> {p \in Heads(cleared) : Coalesced(cleared)[p].bin = b}],
           at     |-> None,
           left   |-> {}]

=============================================================================
