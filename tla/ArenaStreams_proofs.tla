------------------------- MODULE ArenaStreams_proofs -------------------------
(***************************************************************************)
(* The arena under the streams that use it.  The calls of streams that are *)
(* created, synchronized, released and destroyed concurrently are calls    *)
(* that the arena allows, so what is proved of the arena alone holds; and  *)
(* the arena implements the stream-ordered memory, so no stream is given   *)
(* memory on which another one's work is unfinished.                       *)
(*                                                                         *)
(* The argument goes by bytes.  Two chunk maps are compared through the    *)
(* owner that each gives to a byte, which splitting, merging and walking   *)
(* leave alone, and through the blocks of bytes that callers hold.         *)
(***************************************************************************)
EXTENDS ArenaStreams, MusaArena_proofs

-----------------------------------------------------------------------------
(* Whose a byte is                                                         *)

(* Chunk p of cs holds byte x.                                             *)
Covers(cs, p, x) == p \in DOMAIN cs /\ p <= x /\ x < p + cs[p].size

(* The stream of the chunk that holds byte x.                              *)
ByteOwner(cs, x) ==
  LET covering == {p \in DOMAIN cs : Covers(cs, p, x)}
  IN  IF covering = {} THEN None ELSE cs[CHOOSE p \in covering : TRUE].stream

(* No byte is in two chunks.                                               *)
LEMMA OneCover ==
  ASSUME NEW cs, NEW rs, ChunkMap(cs), Tiled(cs, rs), NEW x \in Nat,
         NEW p, NEW q, Covers(cs, p, x), Covers(cs, q, x)
  PROVE  p = q
<1>1. p \in Nat /\ q \in Nat /\ cs[p].size \in Nat /\ cs[q].size \in Nat
  BY DEF ChunkMap, PartialFunction, Chunk, Covers
<1>2. p < q => p + cs[p].size <= q
  BY DEF Tiled, Covers
<1>3. q < p => q + cs[q].size <= p
  BY DEF Tiled, Covers
<1> QED
  BY <1>1, <1>2, <1>3 DEF Covers

(* The owner of a byte is that of the chunk that holds it.                 *)
LEMMA OwnerIs ==
  ASSUME NEW cs, NEW rs, ChunkMap(cs), Tiled(cs, rs), NEW x \in Nat
  PROVE  /\ \A p : Covers(cs, p, x) => ByteOwner(cs, x) = cs[p].stream
         /\ (\A p : ~Covers(cs, p, x)) => ByteOwner(cs, x) = None
<1> DEFINE covering == {p \in DOMAIN cs : Covers(cs, p, x)}
           q == CHOOSE p \in covering : TRUE
<1>1. ByteOwner(cs, x) = IF covering = {} THEN None ELSE cs[q].stream
  BY DEF ByteOwner
<1>2. \A p : p \in covering <=> Covers(cs, p, x)
  BY DEF Covers
<1>3. covering # {} => q \in covering
  OBVIOUS
<1> HIDE DEF covering, q
<1>4. ASSUME NEW p, Covers(cs, p, x) PROVE ByteOwner(cs, x) = cs[p].stream
  <2>1. covering # {} /\ q \in covering
    BY <1>2, <1>3, <1>4
  <2>2. p = q
    BY <2>1, <1>2, <1>4, OneCover
  <2> QED
    BY <1>1, <2>1, <2>2
<1>5. ASSUME \A p : ~Covers(cs, p, x) PROVE ByteOwner(cs, x) = None
  BY <1>1, <1>2, <1>3, <1>5
<1> QED
  BY <1>4, <1>5

(* The chunks hold the bytes of the regions and no others.                 *)
LEMMA CoveredIs ==
  ASSUME NEW cs, NEW rs, ChunkMap(cs), RegionMap(rs), Tiled(cs, rs), NEW x \in Nat
  PROVE  (\E p : Covers(cs, p, x)) <=> (\E r \in DOMAIN rs : Within(x, r, rs))
<1>1. ASSUME NEW p, Covers(cs, p, x) PROVE \E r \in DOMAIN rs : Within(x, r, rs)
  <2>1. p \in DOMAIN cs /\ p \in Nat /\ cs[p].size \in Nat
    BY <1>1 DEF ChunkMap, PartialFunction, Chunk, Covers
  <2>2. PICK r \in DOMAIN rs : Within(p, r, rs)
    BY <2>1 DEF Tiled
  <2>3. r \in Nat /\ rs[r] \in Nat
    BY DEF RegionMap, PartialFunction
  <2>4. p + cs[p].size <= r + rs[r]
    BY <2>1, <2>2 DEF Tiled
  <2>5. Within(x, r, rs)
    BY <2>1, <2>2, <2>3, <2>4, <1>1 DEF Within, Covers
  <2> QED
    BY <2>5
<1>2. ASSUME NEW r \in DOMAIN rs, Within(x, r, rs) PROVE \E p : Covers(cs, p, x)
  <2> DEFINE T == {p \in DOMAIN cs : p <= x /\ Within(p, r, rs)}
  <2>1. r \in Nat /\ rs[r] \in Nat \ {0} /\ r \in DOMAIN cs
    BY DEF RegionMap, PartialFunction, Tiled
  <2>2. T \in SUBSET Nat /\ r \in T /\ \A p \in T : p <= x
    BY <2>1, <1>2 DEF ChunkMap, PartialFunction, Within
  <2> DEFINE m == Max(T)
  <2>3. m \in T /\ \A p \in T : p <= m
    BY <2>2, MaxNat
  <2> HIDE DEF m
  <2>4. m \in DOMAIN cs /\ m <= x /\ Within(m, r, rs)
    BY <2>3
  <2> HIDE DEF T
  <2>5. /\ m \in Nat /\ cs[m].size \in Nat \ {0} /\ None \notin Nat
        /\ cs[m].next # None => cs[m].next \in DOMAIN cs /\ cs[m].next = m + cs[m].size
    BY <2>4, Links
  <2>6. cs[m].next = IF m + cs[m].size = r + rs[r] THEN None ELSE m + cs[m].size
    BY <2>4 DEF Tiled
  <2>7. CASE x < m + cs[m].size
    BY <2>7, <2>4 DEF Covers
  <2>8. CASE ~(x < m + cs[m].size)
    <3>1. m + cs[m].size # r + rs[r]
      BY <2>8, <2>1, <2>5, <1>2 DEF Within
    <3>2. cs[m].next = m + cs[m].size /\ cs[m].next \in DOMAIN cs
      BY <3>1, <2>5, <2>6
    <3>3. m + cs[m].size <= x /\ Within(m + cs[m].size, r, rs)
      BY <2>8, <2>1, <2>4, <2>5, <1>2 DEF Within
    <3>4. m + cs[m].size \in T
      BY <3>2, <3>3 DEF T
    <3> QED
      BY <3>4, <2>3, <2>5
  <2> QED
    BY <2>7, <2>8
<1> QED
  BY <1>1, <1>2

(* Every chunk of cs is inside one of ds that has the same stream.         *)
Swallows(cs, ds) ==
  \A p \in DOMAIN cs : \E q \in DOMAIN ds :
    q <= p /\ p + cs[p].size <= q + ds[q].size /\ ds[q].stream = cs[p].stream

(* Whoever a byte belongs to, it belongs to after chunks were swallowed.   *)
LEMMA SwallowedOwner ==
  ASSUME NEW cs, NEW ds, NEW rs, ChunkMap(cs), ChunkMap(ds), RegionMap(rs),
         Tiled(cs, rs), Tiled(ds, rs), Swallows(cs, ds), NEW x \in Nat
  PROVE  ByteOwner(ds, x) = ByteOwner(cs, x)
<1>1. CASE \E p : Covers(cs, p, x)
  <2>1. PICK p : Covers(cs, p, x)
    BY <1>1
  <2>2. PICK q \in DOMAIN ds :
          q <= p /\ p + cs[p].size <= q + ds[q].size /\ ds[q].stream = cs[p].stream
    BY <2>1 DEF Swallows, Covers
  <2>3. p \in Nat /\ q \in Nat /\ cs[p].size \in Nat /\ ds[q].size \in Nat
    BY <2>1 DEF ChunkMap, PartialFunction, Chunk, Covers
  <2>4. Covers(ds, q, x)
    BY <2>1, <2>2, <2>3 DEF Covers
  <2> QED
    BY <2>1, <2>2, <2>4, OwnerIs
<1>2. CASE \A p : ~Covers(cs, p, x)
  <2>1. \A p : ~Covers(ds, p, x)
    BY <1>2, CoveredIs
  <2> QED
    BY <1>2, <2>1, OwnerIs
<1> QED
  BY <1>1, <1>2

(* Splitting a chunk, undone, and merging two keep bytes with their owner. *)
LEMMA SplitSwallows ==
  ASSUME NEW cs, NEW rs, ChunkMap(cs), RegionMap(rs), Apart(rs), Tiled(cs, rs),
         NEW p \in DOMAIN cs, NEW n \in Nat \ {0}, n < cs[p].size,
         NEW ds, ds = SplitChunk(cs, p, n)
  PROVE  Swallows(ds, cs)
<1>1. /\ \A x \in DOMAIN cs : /\ ds[x].stream = cs[x].stream
                              /\ x # p => ds[x].size = cs[x].size
      /\ ds[p].size = n
      /\ ds[p + n].size = cs[p].size - n /\ ds[p + n].stream = cs[p].stream
  BY CutSound
<1>2. DOMAIN ds = DOMAIN cs \cup {p + n}
  BY SplitTiled
<1>3. \A x \in DOMAIN cs : x \in Nat /\ cs[x].size \in Nat
  BY DEF ChunkMap, PartialFunction, Chunk
<1>4. ASSUME NEW x \in DOMAIN ds
      PROVE  \E q \in DOMAIN cs :
               q <= x /\ x + ds[x].size <= q + cs[q].size /\ cs[q].stream = ds[x].stream
  <2>1. CASE x = p + n
    <3>1. p <= x /\ x + ds[x].size <= p + cs[p].size /\ cs[p].stream = ds[x].stream
      BY <2>1, <1>1, <1>3
    <3> QED
      BY <3>1
  <2>2. CASE x \in DOMAIN cs /\ x = p
    <3>1. p <= x /\ x + ds[x].size <= p + cs[p].size /\ cs[p].stream = ds[x].stream
      BY <2>2, <1>1, <1>3
    <3> QED
      BY <3>1
  <2>3. CASE x \in DOMAIN cs /\ x # p
    <3>1. x <= x /\ x + ds[x].size <= x + cs[x].size /\ cs[x].stream = ds[x].stream
      BY <2>3, <1>1, <1>3
    <3> QED
      BY <2>3, <3>1
  <2> QED
    BY <2>1, <2>2, <2>3, <1>2
<1> QED
  BY <1>4 DEF Swallows

(* Merging swallows the second chunk.                                      *)
LEMMA MergeSwallows ==
  ASSUME NEW cs, NEW rs, ChunkMap(cs), Tiled(cs, rs),
         NEW p \in DOMAIN cs, NEW q \in DOMAIN cs, cs[p].next = q, cs[p].stream = cs[q].stream,
         NEW ds, ds = Merge(cs, p, q)
  PROVE  Swallows(cs, ds)
<1>1. DOMAIN ds = DOMAIN cs \ {q} /\ Kept(cs, ds, p, q)
  BY MergeFields
<1>2. /\ p \in Nat /\ q \in Nat /\ cs[p].size \in Nat \ {0} /\ cs[q].size \in Nat
      /\ q = p + cs[p].size /\ cs[p] \in Chunk /\ None \notin Nat
  BY Links
<1>3. p # q
  BY <1>2
<1>4. ds[p].size = cs[p].size + cs[q].size
  <2>1. ds[p] = [cs[p] EXCEPT !.size = @ + cs[q].size, !.next = cs[q].next]
    BY <1>3 DEF Merge
  <2> QED
    BY <2>1, <1>2 DEF Chunk
<1>5. \A x \in DOMAIN cs : x \in Nat /\ cs[x].size \in Nat
  BY DEF ChunkMap, PartialFunction, Chunk
<1>6. ASSUME NEW x \in DOMAIN cs
      PROVE  \E z \in DOMAIN ds :
               z <= x /\ x + cs[x].size <= z + ds[z].size /\ ds[z].stream = cs[x].stream
  <2>1. CASE x = p \/ x = q
    <3>1. p <= x /\ x + cs[x].size <= p + ds[p].size /\ ds[p].stream = cs[x].stream
      BY <2>1, <1>1, <1>2, <1>3, <1>4 DEF Kept
    <3> QED
      BY <3>1, <1>1, <1>3
  <2>2. CASE x # p /\ x # q
    <3>1. ds[x].size = cs[x].size /\ ds[x].stream = cs[x].stream /\ x \in DOMAIN ds
      BY <2>2, <1>1 DEF Kept
    <3>2. x <= x /\ x + cs[x].size <= x + ds[x].size
      BY <3>1, <1>5
    <3> QED
      BY <3>1, <3>2
  <2> QED
    BY <2>1, <2>2
<1> QED
  BY <1>6 DEF Swallows

(* So does Coalesce, of a chunk just freed, ...                            *)
LEMMA CoalesceOwner ==
  ASSUME NEW cs, NEW bs, NEW rs, NEW p, ChunkMap(cs), RegionMap(rs), Apart(rs),
         Tiled(cs, rs), p \in DOMAIN cs, NEW done, done = Coalesce(cs, bs, p)
  PROVE  \A x \in Nat : ByteOwner(done.chunks, x) = ByteOwner(cs, x)
<1> DEFINE next     == cs[p].next
           withNext == Mergeable(cs, p, next)
           cs1      == IF withNext THEN Merge(cs, p, next) ELSE cs
           prev     == cs[p].prev
           withPrev == Mergeable(cs1, prev, p)
           dc       == IF withPrev THEN Merge(cs1, prev, p) ELSE cs1
<1>1. done.chunks = dc
  BY DEF Coalesce
<1>2. /\ ChunkMap(cs1) /\ Tiled(cs1, rs) /\ p \in DOMAIN cs1 /\ cs1[p].prev = prev
      /\ \A x \in Nat : ByteOwner(cs1, x) = ByteOwner(cs, x)
  <2>1. CASE withNext
    <3>1. next \in DOMAIN cs /\ cs[p].next = next /\ p # next /\ cs[p].stream = cs[next].stream
      BY <2>1, Links DEF Mergeable
    <3>2. cs1 = Merge(cs, p, next)
      BY <2>1
    <3> HIDE DEF next, withNext, cs1
    <3>3. ChunkMap(cs1) /\ Tiled(cs1, rs) /\ DOMAIN cs1 = DOMAIN cs \ {next}
      BY <3>1, <3>2, MergeTiled
    <3>4. Kept(cs, cs1, p, next)
      BY <3>1, <3>2, MergeFields
    <3>5. Swallows(cs, cs1)
      BY <3>1, <3>2, MergeSwallows
    <3>6. \A x \in Nat : ByteOwner(cs1, x) = ByteOwner(cs, x)
      BY <3>3, <3>5, SwallowedOwner
    <3> QED
      BY <3>1, <3>3, <3>4, <3>6 DEF Kept
  <2>2. CASE ~withNext
    BY <2>2
  <2> QED
    BY <2>1, <2>2
<1> HIDE DEF cs1, next, withNext
<1>3. CASE withPrev
  <2>1. prev \in DOMAIN cs1 /\ cs1[prev].next = p /\ cs1[prev].stream = cs1[p].stream
    BY <1>2, <1>3, Links DEF Mergeable
  <2>2. dc = Merge(cs1, prev, p)
    BY <1>3
  <2> HIDE DEF dc, prev, withPrev
  <2>3. ChunkMap(dc) /\ Tiled(dc, rs)
    BY <1>2, <2>1, <2>2, MergeTiled
  <2>4. Swallows(cs1, dc)
    BY <1>2, <2>1, <2>2, MergeSwallows
  <2>5. \A x \in Nat : ByteOwner(dc, x) = ByteOwner(cs1, x)
    BY <1>2, <2>3, <2>4, SwallowedOwner
  <2> QED
    BY <1>1, <1>2, <2>5
<1>4. CASE ~withPrev
  <2>1. dc = cs1
    BY <1>4
  <2> HIDE DEF dc, withPrev
  <2> QED
    BY <1>1, <1>2, <2>1
<1> QED
  BY <1>3, <1>4

(* ... and the walk over every region.                                     *)
LEMMA CoalescedOwner ==
  ASSUME NEW cs, NEW rs, ChunkMap(cs), RegionMap(rs), Apart(rs), Tiled(cs, rs), NEW x \in Nat
  PROVE  ByteOwner(Coalesced(cs), x) = ByteOwner(cs, x)
<1> DEFINE ds == Coalesced(cs)
<1>1. Walked(cs, ds) /\ ChunkMap(ds) /\ Tiled(ds, rs) /\ DOMAIN ds = Heads(cs)
  BY CoalescedFields, CoalescedTiled DEF Walked
<1>2. \A p \in DOMAIN cs : p \in Nat /\ cs[p].size \in Nat
  BY DEF ChunkMap, PartialFunction, Chunk
<1>3. ASSUME NEW h \in Heads(cs)
      PROVE  ds[h].size = RunEnd(cs, h) + cs[RunEnd(cs, h)].size - h
  <2> DEFINE size == RunEnd(cs, h) + cs[RunEnd(cs, h)].size - h
             bin  == IF cs[h].inUse THEN None ELSE BinNumForSize(size)
             next == cs[RunEnd(cs, h)].next
             prev == IF cs[h].prev = None THEN None ELSE HeadOf(cs, cs[h].prev)
  <2>1. ds[h] = [cs[h] EXCEPT !.size = size, !.bin = bin, !.next = next, !.prev = prev]
    BY DEF Coalesced
  <2>2. cs[h] \in Chunk
    BY DEF ChunkMap, PartialFunction, Heads
  <2> HIDE DEF size, bin, next, prev, ds
  <2>3. ds[h].size = size
    BY <2>1, <2>2 DEF Chunk
  <2> QED
    BY <2>3 DEF size
<1> HIDE DEF ds
<1>4. ASSUME NEW p \in DOMAIN cs
      PROVE  \E h \in DOMAIN ds :
               h <= p /\ p + cs[p].size <= h + ds[h].size /\ ds[h].stream = cs[p].stream
  <2> DEFINE h == HeadOf(cs, p)
             l == RunEnd(cs, h)
  <2>1. h \in Heads(cs) /\ p \in RunOf(cs, h)
    BY Runs
  <2>2. l \in RunOf(cs, h) /\ p <= l
    BY <2>1, Runs
  <2> HIDE DEF h, l
  <2>3. h \in DOMAIN cs /\ h <= p /\ l \in DOMAIN cs
    BY <2>1, <2>2 DEF RunOf, Heads
  <2>4. ds[h].size = l + cs[l].size - h
    BY <2>1, <1>3 DEF l
  <2>5. p + cs[p].size <= l + cs[l].size
    <3>1. CASE p = l
      BY <3>1, <2>3, <1>2
    <3>2. CASE p # l
      <4>1. p < l
        BY <3>2, <2>2, <2>3, <1>2
      <4>2. p + cs[p].size <= l
        BY <4>1, <2>3 DEF Tiled
      <4> QED
        BY <4>2, <2>3, <1>2
    <3> QED
      BY <3>1, <3>2
  <2>6. ds[h].stream = cs[p].stream
    <3>1. ds[h].stream = cs[h].stream
      BY <2>1, <1>1 DEF Walked
    <3> QED
      BY <2>1, <3>1, RunAlike
  <2>7. h <= p /\ p + cs[p].size <= h + ds[h].size
    BY <2>3, <2>4, <2>5, <1>2
  <2> QED
    BY <2>1, <2>6, <2>7, <1>1
<1>5. Swallows(cs, ds)
  BY <1>4 DEF Swallows
<1> QED
  BY <1>1, <1>5, SwallowedOwner DEF ds

(* Where only fields other than the sizes change, a byte is owned as its   *)
(* chunk is then.                                                          *)
LEMMA SameCovers ==
  ASSUME NEW cs, NEW ds, NEW rs, ChunkMap(cs), ChunkMap(ds), Tiled(cs, rs), Tiled(ds, rs),
         DOMAIN ds = DOMAIN cs, \A p \in DOMAIN cs : ds[p].size = cs[p].size, NEW x \in Nat
  PROVE  /\ \A p : Covers(ds, p, x) <=> Covers(cs, p, x)
         /\ \A p : Covers(cs, p, x) => /\ ByteOwner(cs, x) = cs[p].stream
                                       /\ ByteOwner(ds, x) = ds[p].stream
         /\ (\A p : ~Covers(cs, p, x)) => ByteOwner(cs, x) = None /\ ByteOwner(ds, x) = None
<1>1. \A p : Covers(ds, p, x) <=> Covers(cs, p, x)
  BY DEF Covers
<1> QED
  BY <1>1, OwnerIs

(* A chunk taken for a stream was the stream's or nobody's, and becomes    *)
(* the stream's; what is split off stays whose it was.                     *)
LEMMA TakeChunkOwner ==
  ASSUME NEW cs, NEW bs, NEW rs, ChunkMap(cs), BinMap(bs), RegionMap(rs), Apart(rs),
         Tiled(cs, rs), Binned(cs, bs), NEW s \in Stream, NEW n \in Request,
         NEW p \in DOMAIN cs, TakeChunk(cs, bs, p, n, s),
         ChunkMap(chunks'), Tiled(chunks', rs), NEW x \in Nat
  PROVE  IF Covers(chunks', p, x)
         THEN ByteOwner(chunks', x) = s /\ ByteOwner(cs, x) \in {s, None}
         ELSE ByteOwner(chunks', x) = ByteOwner(cs, x)
<1> DEFINE m     == Rounded(n)
           split == WorthSplitting(cs[p].size, m)
           q     == p + m
           cut   == IF split THEN SplitChunk(cs, p, m) ELSE cs
<1>1. n \in Nat \ {0} /\ m \in Nat \ {0}
  BY RoundedUp, ArenaAssumption
<1>2. /\ p \in Nat /\ cs[p].size \in Nat \ {0}
      /\ m <= cs[p].size /\ cs[p].stream \in {s, None}
      /\ chunks'[p].stream = s /\ p \in DOMAIN chunks'
      /\ chunks'[p].size <= cs[p].size
  <2>1. /\ m <= cs[p].size /\ p \in DOMAIN chunks' /\ chunks'[p].stream = s
        /\ chunks'[p].size = IF split THEN m ELSE cs[p].size
    BY TakeChunkGives
  <2>2. p \in Candidates(cs, bs, m, s)
    BY DEF TakeChunk
  <2>3. cs[p].stream \in {s, None}
    BY <2>2 DEF Candidates
  <2>4. p \in Nat /\ cs[p].size \in Nat \ {0}
    BY Links
  <2> HIDE DEF m, split
  <2> QED
    BY <2>1, <2>3, <2>4, <1>1
<1>3. split => m < cs[p].size
  BY <1>1, <1>2, ArenaAssumption DEF WorthSplitting
<1>4. ChunkMap(cut) /\ Tiled(cut, rs) /\ p \in DOMAIN cut
  <2>1. split \in BOOLEAN
    BY <1>1 DEF WorthSplitting
  <2> HIDE DEF m, split
  <2> QED
    BY <2>1, <1>1, <1>3, MaybeCutSound
<1>5. ByteOwner(cut, x) = ByteOwner(cs, x)
  <2>1. CASE split
    <3>1. cut = SplitChunk(cs, p, m) /\ m < cs[p].size
      BY <2>1, <1>3
    <3> HIDE DEF cut, m, split
    <3>2. Swallows(cut, cs)
      BY <3>1, <1>1, SplitSwallows
    <3> QED
      BY <3>2, <1>4, SwallowedOwner
  <2>2. CASE ~split
    BY <2>2
  <2> QED
    BY <2>1, <2>2
<1>6. /\ DOMAIN chunks' = DOMAIN cut
      /\ \A z \in DOMAIN cut : chunks'[z].size = cut[z].size
      /\ \A z \in DOMAIN cut \ {p} : chunks'[z].stream = cut[z].stream
  <2>1. chunks' = [cut EXCEPT ![p].requested = n, ![p].inUse = TRUE, ![p].bin = None, ![p].stream = s]
    BY DEF TakeChunk
  <2>2. cut[p] \in Chunk
    BY <1>4 DEF ChunkMap, PartialFunction
  <2> HIDE DEF cut
  <2>3. DOMAIN chunks' = DOMAIN cut /\ \A z \in DOMAIN cut \ {p} : chunks'[z] = cut[z]
    BY <2>1
  <2>4. chunks'[p].size = cut[p].size
    <3>1. chunks'[p] = [[[[cut[p] EXCEPT !.requested = n] EXCEPT !.inUse = TRUE]
                           EXCEPT !.bin = None] EXCEPT !.stream = s]
      BY <2>1, <1>4
    <3> QED
      BY <3>1, <2>2 DEF Chunk
  <2> QED
    BY <2>3, <2>4
<1> HIDE DEF cut
<1>7. /\ \A z : Covers(chunks', z, x) <=> Covers(cut, z, x)
      /\ \A z : Covers(cut, z, x) => /\ ByteOwner(cut, x) = cut[z].stream
                                     /\ ByteOwner(chunks', x) = chunks'[z].stream
      /\ (\A z : ~Covers(cut, z, x)) => ByteOwner(cut, x) = None /\ ByteOwner(chunks', x) = None
  BY <1>4, <1>6, SameCovers
<1>8. CASE Covers(chunks', p, x)
  <2>1. ByteOwner(chunks', x) = s
    BY <1>2, <1>7, <1>8
  <2>2. Covers(cs, p, x)
    <3>1. chunks'[p].size \in Nat
      BY <1>2 DEF ChunkMap, PartialFunction, Chunk
    <3> QED
      BY <3>1, <1>2, <1>8 DEF Covers
  <2>3. ByteOwner(cs, x) = cs[p].stream
    BY <2>2, OwnerIs
  <2> QED
    BY <2>1, <2>3, <1>2, <1>8
<1>9. CASE ~Covers(chunks', p, x)
  <2>1. CASE \E z : Covers(cut, z, x)
    <3>1. PICK z : Covers(cut, z, x)
      BY <2>1
    <3>2. z # p /\ z \in DOMAIN cut
      BY <3>1, <1>7, <1>9 DEF Covers
    <3> QED
      BY <3>1, <3>2, <1>5, <1>6, <1>7, <1>9
  <2>2. CASE \A z : ~Covers(cut, z, x)
    BY <2>2, <1>5, <1>7, <1>9
  <2> QED
    BY <2>1, <2>2
<1> QED
  BY <1>8, <1>9

-----------------------------------------------------------------------------
(* What the operations of the arena do to the owners of bytes              *)

(* s gets the chunk at p, none of whose bytes was another stream's.        *)
GivenTo(p, s) ==
  \A x \in Nat : IF Covers(chunks', p, x)
                 THEN ByteOwner(chunks', x) = s /\ ByteOwner(chunks, x) \in {s, None}
                 ELSE ByteOwner(chunks', x) = ByteOwner(chunks, x)

(* No byte changes its owner.                                              *)
OwnersKept == \A x \in Nat : ByteOwner(chunks', x) = ByteOwner(chunks, x)

(* An allocation from a chunk at hand gives its bytes to the stream.       *)
LEMMA AllocCachedOwner ==
  ASSUME ArenaInv, NEW s \in Stream, NEW n \in Request, AllocCached(s, n)
  PROVE  \E p \in DOMAIN chunks : Taken(p, n, s) /\ GivenTo(p, s)
<1>1. PICK p \in DOMAIN chunks : Taken(p, n, s) /\ TakeChunk(chunks, bins, p, n, s)
  BY AllocCachedGives
<1>2. ChunkMap(chunks') /\ Tiled(chunks', regions)
  <2>1. ArenaInv' /\ regions' = regions
    BY AllocCachedSound DEF AllocCached
  <2> QED
    BY <2>1 DEF ArenaInv, TypeOK, RegionsTiled, ChunkMap
<1>3. ASSUME NEW x \in Nat
      PROVE  IF Covers(chunks', p, x)
             THEN ByteOwner(chunks', x) = s /\ ByteOwner(chunks, x) \in {s, None}
             ELSE ByteOwner(chunks', x) = ByteOwner(chunks, x)
  BY <1>1, <1>2, ArenaParts, TakeChunkOwner
<1> QED
  BY <1>1, <1>3 DEF GivenTo

(* An allocation from a new region gives the first bytes of it to the      *)
(* stream.                                                                 *)
LEMMA AllocExtendedOwner ==
  ASSUME ArenaInv, NEW s \in Stream, NEW n \in Request, AllocExtended(s, n)
  PROVE  \E size \in ExtendSizes(Rounded(n)) : \E b \in Base :
           /\ size \in Nat \ {0} /\ DeviceFresh(b, size)
           /\ b \notin DOMAIN chunks /\ b \notin DOMAIN regions
           /\ regions' = [r \in DOMAIN regions \cup {b} |-> IF r = b THEN size ELSE regions[r]]
           /\ Taken(b, n, s) /\ GivenTo(b, s)
<1>1. PICK size \in ExtendSizes(Rounded(n)), b \in Base :
        LET cs == [p \in DOMAIN chunks \cup {b} |->
                     IF p = b THEN FreeChunk(size) ELSE chunks[p]]
            bs == InsertInBin(bins, b, BinNumForSize(size))
        IN  /\ size \in Nat \ {0} /\ DeviceFresh(b, size)
            /\ b \notin DOMAIN chunks /\ b \notin DOMAIN regions
            /\ regions' = [r \in DOMAIN regions \cup {b} |->
                             IF r = b THEN size ELSE regions[r]]
            /\ Taken(b, n, s) /\ TakeChunk(cs, bs, b, n, s)
  BY AllocExtendedGives
<1> DEFINE cs == [p \in DOMAIN chunks \cup {b} |->
                    IF p = b THEN FreeChunk(size) ELSE chunks[p]]
           bs == InsertInBin(bins, b, BinNumForSize(size))
           ts == [r \in DOMAIN regions \cup {b} |-> IF r = b THEN size ELSE regions[r]]
<1>2. b \in Nat /\ size \in Nat \ {0} /\ FreshAt(regions, b, size)
  BY <1>1, ArenaAssumption DEF DeviceFresh, FreshAt
<1>3. /\ ChunkMap(cs) /\ RegionMap(ts) /\ Apart(ts) /\ Tiled(cs, ts)
      /\ BinMap(bs) /\ Binned(cs, bs) /\ b \notin DOMAIN chunks
      /\ cs[b].size = size /\ cs[b].stream = None
      /\ \A x \in DOMAIN chunks : cs[x] = chunks[x]
  <2>1. /\ cs = [x \in DOMAIN chunks \cup {b} |-> IF x = b THEN FreeChunk(size) ELSE chunks[x]]
        /\ bs = InsertInBin(bins, b, BinNumForSize(size))
        /\ ts = [r \in DOMAIN regions \cup {b} |-> IF r = b THEN size ELSE regions[r]]
    OBVIOUS
  <2> HIDE DEF cs, bs, ts
  <2> QED
    BY <2>1, <1>2, ExtendedState
<1>4. TakeChunk(cs, bs, b, n, s) /\ b \in DOMAIN cs /\ DOMAIN cs = DOMAIN chunks \cup {b}
  BY <1>1
<1>5. regions' = ts
  BY <1>1
<1> HIDE DEF cs, bs, ts
<1>6. ChunkMap(chunks') /\ Tiled(chunks', ts)
  <2>1. ArenaInv'
    BY AllocExtendedSound
  <2> QED
    BY <2>1, <1>5 DEF ArenaInv, TypeOK, RegionsTiled, ChunkMap
<1>7. ASSUME NEW x \in Nat PROVE ByteOwner(cs, x) = ByteOwner(chunks, x)
  <2>1. CASE \E z : Covers(chunks, z, x)
    <3>1. PICK z : Covers(chunks, z, x)
      BY <2>1
    <3>2. Covers(cs, z, x) /\ cs[z].stream = chunks[z].stream
      BY <3>1, <1>3, <1>4 DEF Covers
    <3> QED
      BY <3>1, <3>2, <1>3, ArenaParts, OwnerIs
  <2>2. CASE \A z : ~Covers(chunks, z, x)
    <3>1. \A z : Covers(cs, z, x) => cs[z].stream = None
      BY <2>2, <1>3, <1>4 DEF Covers
    <3>2. ByteOwner(cs, x) = None
      BY <3>1, <1>3, OwnerIs
    <3> QED
      BY <3>2, <2>2, ArenaParts, OwnerIs
  <2> QED
    BY <2>1, <2>2
<1>8. ASSUME NEW x \in Nat
      PROVE  IF Covers(chunks', b, x)
             THEN ByteOwner(chunks', x) = s /\ ByteOwner(chunks, x) \in {s, None}
             ELSE ByteOwner(chunks', x) = ByteOwner(chunks, x)
  <2>1. IF Covers(chunks', b, x)
        THEN ByteOwner(chunks', x) = s /\ ByteOwner(cs, x) \in {s, None}
        ELSE ByteOwner(chunks', x) = ByteOwner(cs, x)
    BY <1>3, <1>4, <1>6, TakeChunkOwner
  <2> QED
    BY <2>1, <1>7
<1> QED
  BY <1>1, <1>8 DEF GivenTo

(* Free lets every byte keep its owner.                                    *)
LEMMA FreeOwner ==
  ASSUME ArenaInv, NEW p, FreeChunkAt(p)
  PROVE  OwnersKept
<1> DEFINE freed == [chunks EXCEPT ![p].inUse = FALSE]
           done  == Coalesce(freed, bins, p)
           dc    == done.chunks
           at    == done.at
           bin   == BinNumForSize(dc[at].size)
<1>1. /\ p \in DOMAIN chunks /\ chunks[p].inUse
      /\ chunks' = [dc EXCEPT ![at].bin = bin]
  BY DEF FreeChunkAt
<1>2. /\ DOMAIN freed = DOMAIN chunks
      /\ freed[p] = [chunks[p] EXCEPT !.inUse = FALSE]
      /\ \A x \in DOMAIN chunks \ {p} : freed[x] = chunks[x]
      /\ \A x \in DOMAIN chunks : x \in Nat /\ chunks[x] \in Chunk
  BY <1>1, ArenaParts DEF ChunkMap, PartialFunction
<1> HIDE DEF freed
<1>3. /\ freed[p] \in Chunk
      /\ freed[p].size = chunks[p].size /\ freed[p].next = chunks[p].next
      /\ freed[p].prev = chunks[p].prev /\ freed[p].stream = chunks[p].stream
  <2>1. chunks[p] \in Chunk /\ freed[p] = [chunks[p] EXCEPT !.inUse = FALSE]
    BY <1>1, <1>2
  <2> QED
    BY <2>1 DEF Chunk
<1>4. ChunkMap(freed) /\ Tiled(freed, regions)
  <2>1. \A x \in DOMAIN chunks : /\ freed[x].size = chunks[x].size
                                 /\ freed[x].next = chunks[x].next /\ freed[x].prev = chunks[x].prev
    BY <1>2, <1>3
  <2>2. Tiled(freed, regions)
    BY <1>2, <2>1, ArenaParts, SameShape
  <2> QED
    BY <2>2, <1>2, <1>3 DEF ChunkMap, PartialFunction
<1>5. /\ \A x \in Nat : ByteOwner(dc, x) = ByteOwner(freed, x)
  BY <1>1, <1>2, <1>4, ArenaParts, CoalesceOwner
<1>6. ChunkMap(dc) /\ Tiled(dc, regions) /\ at \in DOMAIN dc
  <2>1. BinnedBut(freed, bins, p)
    <3>1. chunks[p].bin = None /\ None \notin Bin /\ ~freed[p].inUse
      BY <1>1, <1>2, ArenaParts, ArenaAssumption DEF Binned, Bin, Chunk
    <3>2. \A x \in DOMAIN freed \ {p} :
            freed[x].bin = IF freed[x].inUse THEN None ELSE BinNumForSize(freed[x].size)
      BY <1>2, ArenaParts DEF Binned
    <3>3. \A b \in Bin : bins[b] = {x \in DOMAIN chunks : chunks[x].bin = b}
      BY ArenaParts DEF Binned
    <3>4. \A b \in Bin : bins[b] = {x \in DOMAIN freed \ {p} : freed[x].bin = b}
      BY <3>1, <3>3, <1>2
    <3> QED
      BY <3>1, <3>2, <3>4, <1>1, <1>2 DEF BinnedBut
  <2>2. Coalesces(freed, regions, done)
    BY <2>1, <1>4, ArenaParts, CoalesceSound
  <2> HIDE DEF done
  <2> QED
    BY <2>2 DEF Coalesces, BinnedBut
<1> HIDE DEF dc, at, bin, done
<1>7. /\ DOMAIN chunks' = DOMAIN dc
      /\ \A x \in DOMAIN dc : chunks'[x].stream = dc[x].stream /\ chunks'[x].size = dc[x].size
  <2>1. /\ DOMAIN chunks' = DOMAIN dc /\ dc[at] \in Chunk
        /\ chunks'[at] = [dc[at] EXCEPT !.bin = bin]
        /\ \A x \in DOMAIN dc \ {at} : chunks'[x] = dc[x]
    BY <1>1, <1>6 DEF ChunkMap, PartialFunction
  <2> QED
    BY <2>1 DEF Chunk
<1>8. ChunkMap(chunks') /\ Tiled(chunks', regions)
  <2>1. ArenaInv' /\ regions' = regions
    BY FreeChunkSound DEF FreeChunkAt
  <2> QED
    BY <2>1 DEF ArenaInv, TypeOK, RegionsTiled, ChunkMap
<1>9. ASSUME NEW x \in Nat PROVE ByteOwner(chunks', x) = ByteOwner(chunks, x)
  <2>1. ByteOwner(chunks', x) = ByteOwner(dc, x)
    <3>1. Swallows(chunks', dc)
      <4> SUFFICES ASSUME NEW z \in DOMAIN chunks'
                   PROVE  \E q \in DOMAIN dc : /\ q <= z
                            /\ z + chunks'[z].size <= q + dc[q].size /\ dc[q].stream = chunks'[z].stream
        BY DEF Swallows
      <4>1. z \in DOMAIN dc /\ z \in Nat /\ dc[z].size \in Nat
        BY <1>6, <1>7 DEF ChunkMap, PartialFunction, Chunk
      <4>2. z <= z /\ z + chunks'[z].size <= z + dc[z].size
        BY <4>1, <1>7
      <4> QED
        BY <4>1, <4>2, <1>7
    <3> QED
      BY <3>1, <1>6, <1>8, ArenaParts, SwallowedOwner
  <2>2. ByteOwner(freed, x) = ByteOwner(chunks, x)
    <3>1. Swallows(freed, chunks)
      <4> SUFFICES ASSUME NEW z \in DOMAIN freed
                   PROVE  \E q \in DOMAIN chunks : /\ q <= z
                            /\ z + freed[z].size <= q + chunks[q].size
                            /\ chunks[q].stream = freed[z].stream
        BY DEF Swallows
      <4>1. /\ z \in DOMAIN chunks /\ z \in Nat /\ chunks[z].size \in Nat
            /\ freed[z].size = chunks[z].size /\ freed[z].stream = chunks[z].stream
        BY <1>2, <1>3 DEF Chunk
      <4>2. z <= z /\ z + freed[z].size <= z + chunks[z].size
        BY <4>1
      <4> QED
        BY <4>1, <4>2
    <3> QED
      BY <3>1, <1>4, ArenaParts, SwallowedOwner
  <2> QED
    BY <2>1, <2>2, <1>5
<1> QED
  BY <1>9 DEF OwnersKept

(* Shrink takes the bytes of the regions it gives back from their owners.  *)
LEMMA ShrinkOwner ==
  ASSUME ArenaInv, Shrink
  PROVE  \A x \in Nat :
           ByteOwner(chunks', x) =
             IF \E r \in DOMAIN regions : Idle(r) /\ InRegion(x, r)
             THEN None ELSE ByteOwner(chunks, x)
<1> DEFINE gone == {r \in DOMAIN regions : Idle(r)}
           dead == {p \in DOMAIN chunks : \E r \in gone : InRegion(p, r)}
<1>1. /\ chunks' = Restrict(chunks, DOMAIN chunks \ dead)
      /\ regions' = Restrict(regions, DOMAIN regions \ gone)
  BY DEF Shrink
<1>2. /\ DOMAIN chunks' = DOMAIN chunks \ dead
      /\ \A p \in DOMAIN chunks' : chunks'[p] = chunks[p]
      /\ DOMAIN regions' = DOMAIN regions \ gone
      /\ \A r \in DOMAIN regions' : regions'[r] = regions[r]
  BY <1>1 DEF Restrict
<1>3. ChunkMap(chunks') /\ Tiled(chunks', regions') /\ RegionMap(regions')
  <2>1. ArenaInv'
    BY ShrinkSound
  <2> QED
    BY <2>1 DEF ArenaInv, TypeOK, RegionsTiled, ChunkMap, RegionMap
<1>4. \A r : r \in gone <=> r \in DOMAIN regions /\ Idle(r)
  OBVIOUS
<1> HIDE DEF gone, dead
<1>5. ASSUME NEW x \in Nat, NEW r \in gone, InRegion(x, r)
      PROVE  ByteOwner(chunks', x) = None
  <2>1. ASSUME NEW t \in DOMAIN regions', Within(x, t, regions') PROVE FALSE
    <3>1. Within(x, t, regions) /\ t \in DOMAIN regions /\ t \notin gone
      BY <2>1, <1>2 DEF Within
    <3>2. t = r
      BY <3>1, <1>4, <1>5, ArenaParts, OneRegion DEF InRegion
    <3> QED
      BY <3>1, <3>2
  <2>2. \A p : ~Covers(chunks', p, x)
    BY <2>1, <1>3, CoveredIs
  <2> QED
    BY <2>2, <1>3, OwnerIs
<1>6. ASSUME NEW x \in Nat, \A r \in gone : ~InRegion(x, r)
      PROVE  ByteOwner(chunks', x) = ByteOwner(chunks, x)
  <2>1. CASE \E p : Covers(chunks', p, x)
    <3>1. PICK p : Covers(chunks', p, x)
      BY <2>1
    <3>2. Covers(chunks, p, x) /\ chunks'[p].stream = chunks[p].stream
      BY <3>1, <1>2 DEF Covers
    <3> QED
      BY <3>1, <3>2, <1>3, ArenaParts, OwnerIs
  <2>2. CASE \A p : ~Covers(chunks', p, x)
    <3>1. ~(\E r \in DOMAIN regions' : Within(x, r, regions'))
      BY <2>2, <1>3, CoveredIs
    <3>2. ~(\E r \in DOMAIN regions : Within(x, r, regions))
      BY <3>1, <1>2, <1>6 DEF Within, InRegion
    <3>3. \A p : ~Covers(chunks, p, x)
      BY <3>2, ArenaParts, CoveredIs
    <3> QED
      BY <2>2, <3>3, <1>3, ArenaParts, OwnerIs
  <2> QED
    BY <2>1, <2>2
<1> QED
  BY <1>4, <1>5, <1>6

(* Releasing a stream takes its bytes from it, and no others from anyone.  *)
LEMMA ResetOwner ==
  ASSUME ArenaInv, NEW i, ResetChunksUsingStream(i)
  PROVE  \A x \in Nat :
           ByteOwner(chunks', x) =
             IF ByteOwner(chunks, x) = streamOf[i] THEN None ELSE ByteOwner(chunks, x)
<1> DEFINE s       == streamOf[i]
           mine    == ChunksOf(s)
           cleared == Cleared(s)
<1>1. chunks' = Coalesced(cleared) /\ i \in DOMAIN streamOf
  BY DEF ResetChunksUsingStream
<1>2. /\ DOMAIN cleared = DOMAIN chunks
      /\ \A x \in DOMAIN chunks :
           /\ cleared[x] = IF x \in mine THEN [chunks[x] EXCEPT !.stream = None] ELSE chunks[x]
           /\ x \in Nat /\ chunks[x] \in Chunk
  BY ArenaParts DEF Cleared, ChunkMap, PartialFunction
<1>3. s \in Stream /\ s # None /\ \A x \in DOMAIN chunks : x \in mine <=> chunks[x].stream = s
  <2>1. s \in Stream /\ s # None
    BY <1>1, ArenaParts, ArenaAssumption DEF OwnerMaps, PartialFunction
  <2> HIDE DEF s
  <2>2. ASSUME NEW x \in DOMAIN chunks PROVE x \in mine <=> chunks[x].stream = s
    BY <2>1, ArenaParts DEF ChunksOf, Indexed
  <2> QED
    BY <2>1, <2>2
<1> HIDE DEF cleared, mine, s
<1>4. \A x \in DOMAIN chunks :
        /\ cleared[x] \in Chunk
        /\ cleared[x].size = chunks[x].size
        /\ cleared[x].next = chunks[x].next /\ cleared[x].prev = chunks[x].prev
        /\ cleared[x].stream = IF chunks[x].stream = s THEN None ELSE chunks[x].stream
  <2> SUFFICES ASSUME NEW x \in DOMAIN chunks
               PROVE  /\ cleared[x] \in Chunk
                      /\ cleared[x].size = chunks[x].size
                      /\ cleared[x].next = chunks[x].next /\ cleared[x].prev = chunks[x].prev
                      /\ cleared[x].stream = IF chunks[x].stream = s THEN None ELSE chunks[x].stream
    BY Zenon
  <2> QED
    BY <1>2, <1>3 DEF Chunk
<1>5. ChunkMap(cleared) /\ Tiled(cleared, regions)
  <2>1. Tiled(cleared, regions)
    BY <1>2, <1>4, ArenaParts, SameShape
  <2> QED
    BY <2>1, <1>2, <1>4 DEF ChunkMap, PartialFunction
<1>6. ASSUME NEW x \in Nat
      PROVE  ByteOwner(chunks', x) =
               IF ByteOwner(chunks, x) = s THEN None ELSE ByteOwner(chunks, x)
  <2>1. ByteOwner(chunks', x) = ByteOwner(cleared, x)
    BY <1>1, <1>5, ArenaParts, CoalescedOwner
  <2>2. /\ \A p : Covers(chunks, p, x) => /\ ByteOwner(chunks, x) = chunks[p].stream
                                          /\ ByteOwner(cleared, x) = cleared[p].stream
        /\ (\A p : ~Covers(chunks, p, x)) => /\ ByteOwner(chunks, x) = None
                                             /\ ByteOwner(cleared, x) = None
    BY <1>2, <1>4, <1>5, ArenaParts, SameCovers
  <2>3. CASE \E p : Covers(chunks, p, x)
    <3>1. PICK p : Covers(chunks, p, x)
      BY <2>3
    <3>2. p \in DOMAIN chunks
      BY <3>1 DEF Covers
    <3> QED
      BY <3>1, <3>2, <2>1, <2>2, <1>4
  <2>4. CASE \A p : ~Covers(chunks, p, x)
    BY <2>4, <2>1, <2>2, <1>3
  <2> QED
    BY <2>3, <2>4
<1> QED
  BY <1>6 DEF s

-----------------------------------------------------------------------------
(* Blocks                                                                  *)

(* The blocks, by their members.                                           *)
LEMMA BlocksAre ==
  ASSUME NEW B
  PROVE  B \in Blocks <=> /\ \E a \in AllBytes, b \in AllBytes : B = a .. b
                          /\ B # {} /\ B \subseteq AllBytes
BY DEF Blocks

(* The regions rs and direct allocations rv are at addresses that the      *)
(* device returns, apart from each other, and none exceeds the budget.     *)
HeldApart(rs, rv) ==
  /\ DOMAIN rs \subseteq Base /\ DOMAIN rv \subseteq Base
  /\ \A r \in DOMAIN rs : rs[r] <= MaxMem
  /\ \A r \in DOMAIN rv : rv[r] <= MaxMem
  /\ \A r \in DOMAIN rs, t \in DOMAIN rv : r + rs[r] <= t \/ t + rv[t] <= r
  /\ \A r, t \in DOMAIN rv : r < t => r + rv[r] <= t

(* What is held is apart in every state.                                   *)
HeldInv == HeldApart(regions, reserved)

(* Chunks tile regions that are apart from the direct allocations.         *)
Fit(cs, rs, rv) ==
  /\ ChunkMap(cs) /\ RegionMap(rs) /\ RegionMap(rv) /\ Tiled(cs, rs)
  /\ HeldApart(rs, rv)

(* A caller has the n bytes at p.                                          *)
UsedAt(cs, rv, p, n) ==
  \/ p \in DOMAIN cs /\ cs[p].inUse /\ n = cs[p].size
  \/ p \in DOMAIN rv /\ n = rv[p]

(* The bytes of a block, by their members.                                 *)
LEMMA BytesAre ==
  ASSUME NEW p \in Nat, NEW n \in Nat \ {0}
  PROVE  /\ \A x : x \in Bytes(p, n) <=> x \in Nat /\ p <= x /\ x < p + n
         /\ p \in Bytes(p, n)
BY DEF Bytes

(* The bytes that there can be, by their addresses.                        *)
LEMMA AllBytesAre ==
  /\ \A x : x \in AllBytes <=> \E r \in Base : x \in Nat /\ r <= x /\ x < r + MaxMem
  /\ AllBytes \subseteq Nat
<1>1. \A x : x \in AllBytes <=> \E r \in Base : x \in Bytes(r, MaxMem)
  BY DEF AllBytes
<1>2. \A r \in Base : r \in Nat /\ MaxMem \in Nat \ {0}
  BY ArenaAssumption
<1>3. \A r \in Base : \A x : x \in Bytes(r, MaxMem) <=> x \in Nat /\ r <= x /\ x < r + MaxMem
  BY <1>2, BytesAre
<1> QED
  BY <1>1, <1>3

(* A chunk is inside a region.                                             *)
LEMMA ChunkInside ==
  ASSUME NEW cs, NEW rs, ChunkMap(cs), RegionMap(rs), Tiled(cs, rs), NEW p \in DOMAIN cs
  PROVE  /\ p \in Nat /\ cs[p].size \in Nat \ {0}
         /\ \E r \in DOMAIN rs : /\ r \in Nat /\ rs[r] \in Nat
                                 /\ r <= p /\ p + cs[p].size <= r + rs[r]
<1>1. p \in Nat /\ cs[p].size \in Nat \ {0}
  BY Links
<1>2. PICK r \in DOMAIN rs : Within(p, r, rs)
  BY DEF Tiled
<1>3. p + cs[p].size <= r + rs[r] /\ r <= p
  BY <1>2 DEF Tiled, Within
<1>4. r \in Nat /\ rs[r] \in Nat
  BY DEF RegionMap, PartialFunction
<1> QED
  BY <1>1, <1>3, <1>4

(* Whatever a caller has is a block of the device memory, ...              *)
LEMMA UsedIsBlock ==
  ASSUME NEW cs, NEW rs, NEW rv, Fit(cs, rs, rv), NEW p, NEW n, UsedAt(cs, rv, p, n)
  PROVE  p \in Nat /\ n \in Nat \ {0} /\ Bytes(p, n) \in Blocks
<1>1. PICK r \in Base : /\ p \in Nat /\ n \in Nat \ {0} /\ r \in Nat
                        /\ r <= p /\ p + n <= r + MaxMem
  <2>1. MaxMem \in Nat
    BY ArenaAssumption
  <2>2. CASE p \in DOMAIN cs /\ n = cs[p].size
    <3>1. PICK r \in DOMAIN rs : r \in Nat /\ rs[r] \in Nat /\ r <= p /\ p + n <= r + rs[r]
      BY <2>2, ChunkInside DEF Fit
    <3>2. r \in Base /\ rs[r] <= MaxMem
      BY DEF Fit, HeldApart
    <3>3. p \in Nat /\ n \in Nat \ {0}
      BY <2>2, ChunkInside DEF Fit
    <3>4. p + n <= r + MaxMem
      BY <2>1, <3>1, <3>2, <3>3
    <3> QED
      BY <3>1, <3>2, <3>3, <3>4
  <2>3. CASE p \in DOMAIN rv /\ n = rv[p]
    <3>1. p \in Base /\ p \in Nat /\ n \in Nat \ {0} /\ n <= MaxMem
      BY <2>3 DEF Fit, HeldApart, RegionMap, PartialFunction
    <3>2. p <= p /\ p + n <= p + MaxMem
      BY <2>1, <3>1
    <3> QED
      BY <3>1, <3>2
  <2> QED
    BY <2>2, <2>3 DEF UsedAt
<1>2. MaxMem \in Nat /\ Bytes(p, n) = p .. (p + n - 1) /\ p + n - 1 \in Nat
  BY <1>1, ArenaAssumption DEF Bytes
<1>3. \A x \in Nat : p <= x /\ x < p + n => x \in AllBytes
  BY <1>1, <1>2, AllBytesAre
<1>4. p \in AllBytes /\ p + n - 1 \in AllBytes
  BY <1>1, <1>2, <1>3
<1>5. Bytes(p, n) \subseteq AllBytes /\ Bytes(p, n) # {}
  BY <1>1, <1>3, BytesAre
<1> QED
  BY <1>1, <1>2, <1>4, <1>5, BlocksAre

(* ... and no two callers have a byte in common.                           *)
LEMMA UsedApart ==
  ASSUME NEW cs, NEW rs, NEW rv, Fit(cs, rs, rv),
         NEW p, NEW n, UsedAt(cs, rv, p, n), NEW q, NEW m, UsedAt(cs, rv, q, m)
  PROVE  (p = q /\ n = m) \/ Bytes(p, n) \cap Bytes(q, m) = {}
<1>1. p \in Nat /\ n \in Nat \ {0} /\ q \in Nat /\ m \in Nat \ {0}
  BY UsedIsBlock
<1>2. (p = q /\ n = m) \/ p + n <= q \/ q + m <= p
  <2>1. ASSUME NEW a \in DOMAIN cs, NEW b \in DOMAIN rv
        PROVE  a + cs[a].size <= b \/ b + rv[b] <= a
    <3>1. a \in Nat /\ cs[a].size \in Nat /\ b \in Nat /\ rv[b] \in Nat
      BY ChunkInside DEF Fit, RegionMap, PartialFunction
    <3>2. PICK r \in DOMAIN rs : r \in Nat /\ rs[r] \in Nat /\ r <= a /\ a + cs[a].size <= r + rs[r]
      BY ChunkInside DEF Fit
    <3>3. r + rs[r] <= b \/ b + rv[b] <= r
      BY DEF Fit, HeldApart
    <3> QED
      BY <3>1, <3>2, <3>3
  <2>2. CASE p \in DOMAIN cs /\ n = cs[p].size /\ q \in DOMAIN cs /\ m = cs[q].size
    <3>1. Tiled(cs, rs)
      BY DEF Fit
    <3>2. (p < q => p + cs[p].size <= q) /\ (q < p => q + cs[q].size <= p)
      BY <3>1, <2>2 DEF Tiled
    <3> QED
      BY <3>2, <2>2, <1>1
  <2>3. CASE p \in DOMAIN rv /\ n = rv[p] /\ q \in DOMAIN rv /\ m = rv[q]
    BY <2>3, <1>1 DEF Fit, HeldApart
  <2>4. CASE p \in DOMAIN cs /\ n = cs[p].size /\ q \in DOMAIN rv /\ m = rv[q]
    BY <2>1, <2>4
  <2>5. CASE p \in DOMAIN rv /\ n = rv[p] /\ q \in DOMAIN cs /\ m = cs[q].size
    BY <2>1, <2>5
  <2> QED
    BY <2>2, <2>3, <2>4, <2>5 DEF UsedAt
<1>3. ASSUME NEW x \in Bytes(p, n) \cap Bytes(q, m) PROVE p = q /\ n = m
  BY <1>1, <1>2, BytesAre
<1> QED
  BY <1>3

(* The allocated blocks are what callers have.                             *)
LEMMA LiveIs ==
  /\ \A B : B \in LiveBlocks <=> \E p, n : UsedAt(chunks, reserved, p, n) /\ B = Bytes(p, n)
  /\ \A B : B \in LiveBlocks' <=> \E p, n : UsedAt(chunks', reserved', p, n) /\ B = Bytes(p, n)
<1>1. ASSUME NEW B
      PROVE  B \in LiveBlocks <=> \E p, n : UsedAt(chunks, reserved, p, n) /\ B = Bytes(p, n)
  BY DEF LiveBlocks, UsedAt, ChunkBytes, ReserveBytes
<1>2. ASSUME NEW B
      PROVE  B \in LiveBlocks' <=> \E p, n : UsedAt(chunks', reserved', p, n) /\ B = Bytes(p, n)
  BY DEF LiveBlocks, UsedAt, ChunkBytes, ReserveBytes
<1> QED
  BY <1>1, <1>2

(* The owner that the promise speaks of is that of the chunk.              *)
LEMMA OwnersAre ==
  /\ ChunkMap(chunks) => \A x \in AllBytes : OwnerOfByte[x] = ByteOwner(chunks, x)
  /\ ChunkMap(chunks') => \A x \in AllBytes : OwnerOfByte'[x] = ByteOwner(chunks', x)
<1>1. ASSUME ChunkMap(chunks), NEW x \in AllBytes PROVE OwnerOfByte[x] = ByteOwner(chunks, x)
  <2> DEFINE covering == {p \in DOMAIN chunks : x \in ChunkBytes(p)}
             others   == {p \in DOMAIN chunks : Covers(chunks, p, x)}
  <2>1. \A p \in DOMAIN chunks : x \in ChunkBytes(p) <=> Covers(chunks, p, x)
    <3>1. \A p \in DOMAIN chunks : p \in Nat /\ chunks[p].size \in Nat \ {0} /\ x \in Nat
      BY <1>1, AllBytesAre DEF ChunkMap, PartialFunction, Chunk
    <3> QED
      BY <3>1, BytesAre DEF ChunkBytes, Covers
  <2>2. covering = others
    BY <2>1
  <2>3. OwnerOfByte[x] = IF covering = {} THEN None ELSE chunks[CHOOSE p \in covering : TRUE].stream
    BY DEF OwnerOfByte
  <2>4. ByteOwner(chunks, x) = IF others = {} THEN None ELSE chunks[CHOOSE p \in others : TRUE].stream
    BY DEF ByteOwner
  <2> HIDE DEF covering, others
  <2> QED
    BY <2>2, <2>3, <2>4
<1>2. ASSUME ChunkMap(chunks'), NEW x \in AllBytes PROVE OwnerOfByte'[x] = ByteOwner(chunks', x)
  <2> DEFINE covering == {p \in DOMAIN chunks' : x \in ChunkBytes(p)'}
             others   == {p \in DOMAIN chunks' : Covers(chunks', p, x)}
  <2>1. \A p \in DOMAIN chunks' : x \in Bytes(p, chunks'[p].size) <=> Covers(chunks', p, x)
    <3>1. \A p \in DOMAIN chunks' : p \in Nat /\ chunks'[p].size \in Nat \ {0} /\ x \in Nat
      BY <1>2, AllBytesAre DEF ChunkMap, PartialFunction, Chunk
    <3> QED
      BY <3>1, BytesAre DEF Covers
  <2>2. covering = others
    BY <2>1 DEF ChunkBytes
  <2>3. OwnerOfByte'[x] = IF covering = {} THEN None ELSE chunks'[CHOOSE p \in covering : TRUE].stream
    BY DEF OwnerOfByte
  <2>4. ByteOwner(chunks', x) = IF others = {} THEN None ELSE chunks'[CHOOSE p \in others : TRUE].stream
    BY DEF ByteOwner
  <2> HIDE DEF covering, others
  <2> QED
    BY <2>2, <2>3, <2>4
<1> QED
  BY <1>1, <1>2

-----------------------------------------------------------------------------
(* What is held is apart                                                   *)

(* The invariants say that the current state fits.                         *)
LEMMA FitNow ==
  /\ ArenaInv /\ HeldInv => Fit(chunks, regions, reserved)
  /\ ArenaInv' /\ HeldInv' => Fit(chunks', regions', reserved')
<1>1. ASSUME ArenaInv, HeldInv PROVE Fit(chunks, regions, reserved)
  BY <1>1 DEF ArenaInv, TypeOK, RegionsTiled, HeldInv, Fit, ChunkMap, RegionMap
<1>2. ASSUME ArenaInv', HeldInv' PROVE Fit(chunks', regions', reserved')
  BY <1>2 DEF ArenaInv, TypeOK, RegionsTiled, HeldInv, Fit, ChunkMap, RegionMap
<1> QED
  BY <1>1, <1>2

(* What is held and n bytes more at b.                                     *)
With(f, b, n) == [r \in DOMAIN f \cup {b} |-> IF r = b THEN n ELSE f[r]]

(* What the device newly returns is apart from what is held.               *)
LEMMA DeviceKeepsApart ==
  ASSUME NEW rs, NEW rv, RegionMap(rs), RegionMap(rv), HeldApart(rs, rv),
         NEW b \in Base, NEW n \in Nat \ {0}, n <= MaxMem,
         \A r \in DOMAIN rs : b + n <= r \/ r + rs[r] <= b,
         \A r \in DOMAIN rv : b + n <= r \/ r + rv[r] <= b
  PROVE  HeldApart(With(rs, b, n), rv) /\ HeldApart(rs, With(rv, b, n))
<1> DEFINE ts == With(rs, b, n)
           tv == With(rv, b, n)
<1>1. /\ DOMAIN ts = DOMAIN rs \cup {b} /\ DOMAIN tv = DOMAIN rv \cup {b}
      /\ ts[b] = n /\ tv[b] = n
      /\ \A r \in DOMAIN rs : r # b => ts[r] = rs[r]
      /\ \A r \in DOMAIN rv : r # b => tv[r] = rv[r]
  BY DEF With
<1>2. /\ b \in Nat
      /\ \A r \in DOMAIN rs : r \in Nat /\ rs[r] \in Nat \ {0}
      /\ \A r \in DOMAIN rv : r \in Nat /\ rv[r] \in Nat \ {0}
  BY ArenaAssumption DEF RegionMap, PartialFunction
<1> HIDE DEF ts, tv
<1>3. /\ DOMAIN rs \subseteq Base /\ DOMAIN rv \subseteq Base
      /\ \A r \in DOMAIN rs : rs[r] <= MaxMem
      /\ \A r \in DOMAIN rv : rv[r] <= MaxMem
      /\ \A r \in DOMAIN rs, t \in DOMAIN rv : r + rs[r] <= t \/ t + rv[t] <= r
      /\ \A r, t \in DOMAIN rv : r < t => r + rv[r] <= t
  BY DEF HeldApart
<1>4. HeldApart(ts, rv)
  <2>1. \A r \in DOMAIN ts, t \in DOMAIN rv : r + ts[r] <= t \/ t + rv[t] <= r
    BY <1>1, <1>2, <1>3
  <2>2. DOMAIN ts \subseteq Base /\ \A r \in DOMAIN ts : ts[r] <= MaxMem
    BY <1>1, <1>3
  <2> QED
    BY <2>1, <2>2, <1>3 DEF HeldApart
<1>5. HeldApart(rs, tv)
  <2>1. \A r \in DOMAIN rs, t \in DOMAIN tv : r + rs[r] <= t \/ t + tv[t] <= r
    BY <1>1, <1>2, <1>3
  <2>2. DOMAIN tv \subseteq Base /\ \A r \in DOMAIN tv : tv[r] <= MaxMem
    BY <1>1, <1>3
  <2>3. \A r, t \in DOMAIN tv : r < t => r + tv[r] <= t
    BY <1>1, <1>2, <1>3
  <2> QED
    BY <2>1, <2>2, <2>3, <1>3 DEF HeldApart
<1> QED
  BY <1>4, <1>5 DEF ts, tv

(* Each action of the arena keeps apart what is held.                      *)
LEMMA HeldStep ==
  ASSUME ArenaInv, BudgetInv, HeldInv, [Next]_vars
  PROVE  HeldInv'
<1>1. RegionMap(regions) /\ RegionMap(reserved) /\ HeldApart(regions, reserved)
  BY ArenaParts DEF HeldInv, RegionMap
<1>2. ASSUME UNCHANGED <<regions, reserved>> PROVE HeldInv'
  BY <1>1, <1>2 DEF HeldInv
<1>3. ASSUME DOMAIN regions' \subseteq DOMAIN regions, \A r \in DOMAIN regions' : regions'[r] = regions[r],
             DOMAIN reserved' \subseteq DOMAIN reserved, \A r \in DOMAIN reserved' : reserved'[r] = reserved[r]
      PROVE  HeldInv'
  BY <1>1, <1>3 DEF HeldInv, HeldApart
<1>4. CASE UNCHANGED vars
  BY <1>2, <1>4 DEF vars, arenaVars
<1>5. CASE \E s \in Stream, i \in Impl : CreateStream(s, i)
  BY <1>2, <1>5 DEF CreateStream, arenaVars
<1>6. CASE \E s \in Stream : DestroyStream(s)
  BY <1>2, <1>6 DEF DestroyStream, arenaVars
<1>7. CASE \E s \in Stream, n \in Request : AllocOnStream(s, n)
  <2>1. PICK s \in Stream, n \in Request : AllocOnStream(s, n)
    BY <1>7
  <2>2. CASE AllocCached(s, n)
    BY <2>2, <1>2 DEF AllocCached
  <2>3. CASE AllocExtended(s, n)
    <3>1. PICK size \in ExtendSizes(Rounded(n)), b \in Base :
            /\ size \in Nat \ {0} /\ DeviceFresh(b, size)
            /\ b \notin DOMAIN chunks /\ b \notin DOMAIN regions
            /\ regions' = [r \in DOMAIN regions \cup {b} |-> IF r = b THEN size ELSE regions[r]]
            /\ Taken(b, n, s) /\ GivenTo(b, s)
      BY <2>1, <2>3, AllocExtendedOwner, Zenon
    <3>2. size <= MaxMem /\ reserved' = reserved
      BY <2>3, RoundedUp, ArenaAssumption DEF ExtendSizes, AllocExtended, Extending
    <3>3. /\ \A r \in DOMAIN regions : b + size <= r \/ r + regions[r] <= b
          /\ \A r \in DOMAIN reserved : b + size <= r \/ r + reserved[r] <= b
      BY <3>1 DEF DeviceFresh
    <3>4. size \in Nat \ {0} /\ regions' = With(regions, b, size)
      BY <3>1 DEF With
    <3>5. HeldApart(With(regions, b, size), reserved)
      BY <1>1, <3>2, <3>3, <3>4, DeviceKeepsApart
    <3> QED
      BY <3>2, <3>4, <3>5 DEF HeldInv
  <2>4. CASE AllocRefused(s, n) \/ AllocThrows(s, n)
    BY <2>4, <1>2 DEF AllocRefused, AllocThrows, Extending
  <2> QED
    BY <2>1, <2>2, <2>3, <2>4 DEF AllocOnStream
<1>8. CASE \E n \in Request : Reserve(n)
  <2>1. PICK n \in Request : Reserve(n)
    BY <1>8
  <2>2. PICK b \in Base :
          /\ DeviceFresh(b, n)
          /\ reserved' = [r \in DOMAIN reserved \cup {b} |-> IF r = b THEN n ELSE reserved[r]]
    BY <2>1 DEF Reserve
  <2>3. n \in Nat \ {0} /\ n <= MaxMem /\ regions' = regions
    <3>1. totalAllocated \in Nat /\ MaxMem \in Nat
      BY HeldType, ArenaAssumption DEF BudgetInv
    <3> QED
      BY <3>1, <2>1, ArenaAssumption DEF Reserve
  <2>4. HeldApart(regions, With(reserved, b, n))
    <3>1. /\ \A r \in DOMAIN regions : b + n <= r \/ r + regions[r] <= b
          /\ \A r \in DOMAIN reserved : b + n <= r \/ r + reserved[r] <= b
      BY <2>2 DEF DeviceFresh
    <3>2. n \in Nat \ {0} /\ n <= MaxMem
      BY <2>3
    <3> QED
      BY <1>1, <2>2, <3>1, <3>2, DeviceKeepsApart
  <2> QED
    BY <2>2, <2>3, <2>4 DEF HeldInv, With
<1>9. CASE \E p \in DOMAIN reserved \cup DOMAIN chunks : Free(p)
  <2>1. PICK p : Free(p)
    BY <1>9
  <2>2. CASE FreeReserved(p)
    BY <2>2, <1>3 DEF FreeReserved, Restrict
  <2>3. CASE FreeChunkAt(p)
    BY <2>3, <1>2 DEF FreeChunkAt
  <2> QED
    BY <2>1, <2>2, <2>3 DEF Free
<1>10. CASE Shrink
  <2>1. /\ DOMAIN regions' \subseteq DOMAIN regions /\ \A r \in DOMAIN regions' : regions'[r] = regions[r]
        /\ reserved' = reserved
    BY <1>10 DEF Shrink, Restrict
  <2> QED
    BY <2>1, <1>3
<1>11. CASE \E i \in Impl : ResetChunksUsingStream(i)
  BY <1>11, <1>2 DEF ResetChunksUsingStream
<1> QED
  BY <1>4, <1>5, <1>6, <1>7, <1>8, <1>9, <1>10, <1>11 DEF Next

(* Initially nothing is held.                                              *)
LEMMA HeldInit == Init => HeldInv
  BY DEF Init, HeldInv, HeldApart


-----------------------------------------------------------------------------
(* What the operations do to the allocated blocks                          *)

(* An allocation adds its chunk ...                                        *)
LEMMA TakenLive ==
  ASSUME NEW p, NEW n, NEW s, Taken(p, n, s), KeepsInUse(chunks, chunks'), reserved' = reserved
  PROVE  LiveBlocks' = LiveBlocks \cup {Bytes(p, chunks'[p].size)}
<1>1. \A q, m : UsedAt(chunks', reserved', q, m)
                  <=> UsedAt(chunks, reserved, q, m) \/ (q = p /\ m = chunks'[p].size)
  BY DEF Taken, KeepsInUse, UsedAt
<1> QED
  BY <1>1, LiveIs

(* ... what leaves the chunks in use alone changes nothing ...             *)
LEMMA SameLive ==
  ASSUME OnlyInUse(chunks, chunks'), KeepsInUse(chunks, chunks'), reserved' = reserved
  PROVE  LiveBlocks' = LiveBlocks
<1>1. \A q, m : UsedAt(chunks', reserved', q, m) <=> UsedAt(chunks, reserved, q, m)
  BY DEF OnlyInUse, KeepsInUse, UsedAt
<1> QED
  BY <1>1, LiveIs

(* A direct allocation is no chunk.                                        *)
LEMMA ChunkNotReserved ==
  ASSUME NEW cs, NEW rs, NEW rv, Fit(cs, rs, rv), NEW p \in DOMAIN cs
  PROVE  /\ p \notin DOMAIN rv
         /\ \A q \in DOMAIN rv : p + cs[p].size <= q \/ q + rv[q] <= p
<1>1. ChunkMap(cs) /\ RegionMap(rs) /\ Tiled(cs, rs) /\ HeldApart(rs, rv)
      /\ \A q \in DOMAIN rv : q \in Nat /\ rv[q] \in Nat \ {0}
  BY DEF Fit, RegionMap, PartialFunction
<1>2. PICK r \in DOMAIN rs : /\ r \in Nat /\ rs[r] \in Nat
                             /\ r <= p /\ p + cs[p].size <= r + rs[r]
  BY <1>1, ChunkInside
<1>3. p \in Nat /\ cs[p].size \in Nat \ {0}
  BY <1>1, ChunkInside
<1>4. \A q \in DOMAIN rv : r + rs[r] <= q \/ q + rv[q] <= r
  BY <1>1 DEF HeldApart
<1>5. \A q \in DOMAIN rv : p + cs[p].size <= q \/ q + rv[q] <= p
  BY <1>1, <1>2, <1>3, <1>4
<1> QED
  BY <1>1, <1>3, <1>5

(* ... and freeing removes exactly the block that was allocated.           *)
LEMMA FreedLive ==
  ASSUME ArenaInv, HeldInv, NEW p, NEW n, UsedAt(chunks, reserved, p, n),
         \A q, m : UsedAt(chunks', reserved', q, m)
                     <=> UsedAt(chunks, reserved, q, m) /\ q # p
  PROVE  LiveBlocks' = LiveBlocks \ {Bytes(p, n)}
<1>1. Fit(chunks, regions, reserved)
  BY FitNow
<1>2. ASSUME NEW q, NEW m, UsedAt(chunks, reserved, q, m)
      PROVE  Bytes(q, m) = Bytes(p, n) <=> q = p
  <2>1. Bytes(q, m) # {} /\ Bytes(p, n) # {}
    BY <1>1, <1>2, UsedIsBlock, BlocksAre
  <2>2. (q = p /\ m = n) \/ Bytes(q, m) \cap Bytes(p, n) = {}
    BY <1>1, <1>2, UsedApart
  <2>3. q = p => m = n
    BY <1>1, <1>2, ChunkNotReserved DEF UsedAt
  <2> QED
    BY <2>1, <2>2, <2>3
<1> QED
  BY <1>2, LiveIs


-----------------------------------------------------------------------------
(* The operations of the arena are steps of the stream-ordered memory      *)

(* What the arena promises of each of its states.                          *)
StateInv == ArenaInv /\ BudgetInv /\ HeldInv

(* The bytes of a chunk are the bytes that it covers.                      *)
LEMMA ChunkIsCovered ==
  ASSUME NEW cs, ChunkMap(cs), NEW p \in DOMAIN cs
  PROVE  \A x : x \in Bytes(p, cs[p].size) <=> x \in Nat /\ Covers(cs, p, x)
<1>1. p \in Nat /\ cs[p].size \in Nat \ {0}
  BY DEF ChunkMap, PartialFunction, Chunk
<1> QED
  BY <1>1, BytesAre DEF Covers

(* An allocation on a stream gives it a block that is in nobody's use and  *)
(* of which no byte is another stream's.                                   *)
LEMMA TakenIsAllocate ==
  ASSUME StateInv, StateInv', NEW s \in Stream, NEW n, NEW p,
         Taken(p, n, s), GivenTo(p, s), KeepsInUse(chunks, chunks'), reserved' = reserved,
         UNCHANGED work
  PROVE  \E B \in Blocks : Mem!Allocate(s, B)
<1> DEFINE B == Bytes(p, chunks'[p].size)
<1>1. Fit(chunks, regions, reserved) /\ Fit(chunks', regions', reserved')
  BY FitNow DEF StateInv
<1>2. ChunkMap(chunks) /\ ChunkMap(chunks') /\ p \in DOMAIN chunks' /\ chunks'[p].inUse
  BY <1>1 DEF Fit, Taken
<1>3. UsedAt(chunks', reserved', p, chunks'[p].size)
  BY <1>2 DEF UsedAt
<1>4. B \in Blocks /\ B \subseteq AllBytes /\ AllBytes \subseteq Nat
  BY <1>1, <1>3, UsedIsBlock, BlocksAre, AllBytesAre
<1>5. \A x \in Nat : x \in B <=> Covers(chunks', p, x)
  BY <1>2, ChunkIsCovered
<1>6. LiveBlocks' = LiveBlocks \cup {B}
  BY TakenLive
<1>7. \A L \in LiveBlocks : L \cap B = {}
  <2> SUFFICES ASSUME NEW L \in LiveBlocks PROVE L \cap B = {}
    OBVIOUS
  <2>1. PICK q, m : UsedAt(chunks, reserved, q, m) /\ L = Bytes(q, m)
    BY LiveIs
  <2>2. UsedAt(chunks', reserved', q, m)
    BY <2>1 DEF UsedAt, KeepsInUse
  <2>3. q # p
    <3>1. p \notin DOMAIN reserved'
      BY <1>1, <1>2, ChunkNotReserved
    <3> QED
      BY <2>1, <3>1 DEF UsedAt, Taken
  <2> QED
    BY <1>1, <1>3, <2>1, <2>2, <2>3, UsedApart
<1>8. \A x \in B : OwnerOfByte[x] \in {None, s}
  BY <1>2, <1>4, <1>5, OwnersAre DEF GivenTo
<1>9. OwnerOfByte' = [x \in AllBytes |-> IF x \in B THEN s ELSE OwnerOfByte[x]]
  <2>1. \A x \in AllBytes : OwnerOfByte'[x] = IF x \in B THEN s ELSE OwnerOfByte[x]
    BY <1>2, <1>4, <1>5, OwnersAre DEF GivenTo
  <2>2. OwnerOfByte' = [x \in AllBytes |-> OwnerOfByte'[x]]
    BY DEF OwnerOfByte
  <2> QED
    BY <2>1, <2>2, Zenon
<1> HIDE DEF B
<1>10. Mem!Allocate(s, B)
  BY <1>6, <1>7, <1>8, <1>9 DEF Mem!Allocate
<1> QED
  BY <1>4, <1>10


(* When no byte changes its owner, the map of owners stays.                *)
LEMMA SameOwners ==
  ASSUME ChunkMap(chunks), ChunkMap(chunks'), OwnersKept
  PROVE  OwnerOfByte' = OwnerOfByte
<1>1. \A x \in AllBytes : OwnerOfByte'[x] = OwnerOfByte[x]
  BY OwnersAre, AllBytesAre DEF OwnersKept
<1>2. /\ OwnerOfByte' = [x \in AllBytes |-> OwnerOfByte'[x]]
      /\ OwnerOfByte  = [x \in AllBytes |-> OwnerOfByte[x]]
  BY DEF OwnerOfByte
<1> QED
  BY <1>1, <1>2, Zenon

(* A direct allocation is memory of no stream.                             *)
LEMMA ReserveIsAllocate ==
  ASSUME StateInv, StateInv', NEW n \in Request, Reserve(n), UNCHANGED work
  PROVE  \E B \in Blocks : Mem!Allocate(None, B)
<1>1. Fit(chunks, regions, reserved) /\ Fit(chunks', regions', reserved')
  BY FitNow DEF StateInv
<1>2. PICK p \in Base :
        /\ DeviceFresh(p, n)
        /\ reserved' = [r \in DOMAIN reserved \cup {p} |-> IF r = p THEN n ELSE reserved[r]]
  BY DEF Reserve
<1>3. chunks' = chunks /\ regions' = regions
  BY DEF Reserve, chunkVars
<1>4. /\ n \in Nat \ {0} /\ p \in Nat
      /\ \A r \in DOMAIN reserved : r \in Nat /\ reserved[r] \in Nat \ {0} /\ p # r
      /\ \A r \in DOMAIN regions : p + n <= r \/ r + regions[r] <= p
  <2>1. n \in Nat \ {0} /\ p \in Nat
    BY ArenaAssumption
  <2>2. \A r \in DOMAIN reserved : r \in Nat /\ reserved[r] \in Nat \ {0}
    BY <1>1 DEF Fit, RegionMap, PartialFunction
  <2>3. \A r \in DOMAIN reserved : p + n <= r \/ r + reserved[r] <= p
    BY <1>2 DEF DeviceFresh
  <2> QED
    BY <2>1, <2>2, <2>3, <1>2 DEF DeviceFresh
<1> DEFINE B == Bytes(p, n)
<1>5. UsedAt(chunks', reserved', p, n)
  BY <1>2 DEF UsedAt
<1>6. B \in Blocks /\ B \subseteq AllBytes /\ AllBytes \subseteq Nat
  BY <1>1, <1>5, UsedIsBlock, BlocksAre, AllBytesAre
<1>7. \A q, m : UsedAt(chunks', reserved', q, m)
                  <=> UsedAt(chunks, reserved, q, m) \/ (q = p /\ m = n)
  BY <1>2, <1>3, <1>4 DEF UsedAt
<1>8. LiveBlocks' = LiveBlocks \cup {B}
  BY <1>7, LiveIs
<1>9. \A L \in LiveBlocks : L \cap B = {}
  <2> SUFFICES ASSUME NEW L \in LiveBlocks PROVE L \cap B = {}
    OBVIOUS
  <2>1. PICK q, m : UsedAt(chunks, reserved, q, m) /\ L = Bytes(q, m)
    BY LiveIs
  <2>2. UsedAt(chunks', reserved', q, m)
    BY <2>1, <1>7
  <2>3. q # p
    <3>1. p \notin DOMAIN chunks'
      BY <1>1, <1>2, ChunkNotReserved
    <3> QED
      BY <2>1, <3>1, <1>3, <1>4 DEF UsedAt
  <2> QED
    BY <1>1, <1>5, <2>1, <2>2, <2>3, UsedApart
<1>10. \A x \in B : ByteOwner(chunks, x) = None
  <2> SUFFICES ASSUME NEW x \in B PROVE ByteOwner(chunks, x) = None
    OBVIOUS
  <2>1. x \in Nat /\ p <= x /\ x < p + n
    BY <1>4, BytesAre
  <2>2. \A r \in DOMAIN regions : r \in Nat /\ regions[r] \in Nat /\ ~Within(x, r, regions)
    BY <2>1, <1>1, <1>4 DEF Fit, RegionMap, PartialFunction, Within
  <2>3. \A q : ~Covers(chunks, q, x)
    BY <2>1, <2>2, <1>1, CoveredIs DEF Fit
  <2> QED
    BY <2>1, <2>3, <1>1, OwnerIs DEF Fit
<1>11. ChunkMap(chunks) /\ ChunkMap(chunks')
  BY <1>1 DEF Fit
<1>12. OwnerOfByte' = OwnerOfByte
  BY <1>3, <1>11, SameOwners DEF OwnersKept
<1>13. \A x \in B : OwnerOfByte[x] = None
  BY <1>6, <1>10, <1>11, OwnersAre
<1>14. OwnerOfByte' = [x \in AllBytes |-> IF x \in B THEN None ELSE OwnerOfByte[x]]
  <2>1. \A x \in AllBytes : OwnerOfByte[x] = IF x \in B THEN None ELSE OwnerOfByte[x]
    BY <1>13
  <2>2. OwnerOfByte = [x \in AllBytes |-> OwnerOfByte[x]]
    BY DEF OwnerOfByte
  <2> QED
    BY <1>12, <2>1, <2>2, Zenon
<1> HIDE DEF B
<1>15. Mem!Allocate(None, B)
  BY <1>8, <1>9, <1>13, <1>14 DEF Mem!Allocate
<1> QED
  BY <1>6, <1>15

(* A tensor is freed under its owner's unfinished work only.               *)
LEMMA FreeIsFree ==
  ASSUME StateInv, StateInv', work \in [Stream -> SUBSET Blocks], NEW p, FreeTensor(p)
  PROVE  \E B \in Blocks : Mem!Free(B)
<1>1. Fit(chunks, regions, reserved) /\ UNCHANGED work
  BY FitNow DEF StateInv, FreeTensor, streamVars
<1>2. ChunkMap(chunks) /\ ChunkMap(chunks')
  BY FitNow DEF StateInv, Fit
<1>3. CASE FreeChunkAt(p) /\ NoWork(ChunkBytes(p), Stream \ {chunks[p].stream})
  <2> DEFINE B == Bytes(p, chunks[p].size)
             freed == [chunks EXCEPT ![p].inUse = FALSE]
  <2>1. /\ p \in DOMAIN chunks /\ chunks[p].inUse /\ reserved' = reserved
        /\ OnlyInUseBut(chunks, chunks', p) /\ KeepsInUse(freed, chunks')
    <3>1. p \in DOMAIN chunks /\ chunks[p].inUse /\ OnlyInUseBut(chunks, chunks', p)
      BY <1>3, FreeChunkGives DEF StateInv
    <3>2. KeepsInUse(freed, chunks')
      BY <1>3, FreeChunkSound DEF StateInv
    <3>3. reserved' = reserved
      BY <1>3 DEF FreeChunkAt
    <3> QED
      BY <3>1, <3>2, <3>3
  <2>2. DOMAIN freed = DOMAIN chunks /\ \A x \in DOMAIN chunks \ {p} : freed[x] = chunks[x]
    OBVIOUS
  <2> HIDE DEF freed
  <2>3. p \notin DOMAIN reserved
    BY <1>1, <2>1, ChunkNotReserved
  <2>4. \A q, m : UsedAt(chunks', reserved', q, m) <=> UsedAt(chunks, reserved, q, m) /\ q # p
    BY <2>1, <2>2, <2>3 DEF OnlyInUseBut, KeepsInUse, UsedAt
  <2>5. UsedAt(chunks, reserved, p, chunks[p].size)
    BY <2>1 DEF UsedAt
  <2>6. LiveBlocks' = LiveBlocks \ {B} /\ B \in LiveBlocks
    BY <2>4, <2>5, FreedLive, LiveIs DEF StateInv
  <2>7. OwnerOfByte' = OwnerOfByte
    BY <1>2, <1>3, FreeOwner, SameOwners DEF StateInv
  <2>8. B \in Blocks /\ B # {} /\ B \subseteq AllBytes /\ AllBytes \subseteq Nat
    BY <1>1, <2>5, UsedIsBlock, BlocksAre, AllBytesAre
  <2>9. \A x \in B : OwnerOfByte[x] = chunks[p].stream
    <3>1. \A x \in B : x \in Nat /\ x \in AllBytes /\ Covers(chunks, p, x)
      BY <1>2, <2>1, <2>8, ChunkIsCovered
    <3>2. \A x \in B : ByteOwner(chunks, x) = chunks[p].stream
      BY <1>1, <3>1, OwnerIs DEF Fit
    <3> QED
      BY <1>2, <3>1, <3>2, OwnersAre
  <2>10. \A s \in Stream : B \in work[s] => s = chunks[p].stream
    BY <1>3, <2>8 DEF NoWork, ChunkBytes
  <2> HIDE DEF B
  <2>11. Mem!Free(B)
    BY <1>1, <2>6, <2>7, <2>9, <2>10 DEF Mem!Free
  <2> QED
    BY <2>8, <2>11
<1>4. CASE FreeReserved(p) /\ NoWork(ReserveBytes(p), Stream)
  <2> DEFINE B == Bytes(p, reserved[p])
  <2>1. /\ p \in DOMAIN reserved /\ chunks' = chunks
        /\ DOMAIN reserved' = DOMAIN reserved \ {p}
        /\ \A q \in DOMAIN reserved' : reserved'[q] = reserved[q]
    BY <1>4 DEF FreeReserved, Restrict, chunkVars
  <2>2. p \notin DOMAIN chunks
    BY <1>1, <2>1, ChunkNotReserved
  <2>3. \A q, m : UsedAt(chunks', reserved', q, m) <=> UsedAt(chunks, reserved, q, m) /\ q # p
    BY <2>1, <2>2 DEF UsedAt
  <2>4. UsedAt(chunks, reserved, p, reserved[p])
    BY <2>1 DEF UsedAt
  <2>5. LiveBlocks' = LiveBlocks \ {B} /\ B \in LiveBlocks
    BY <2>3, <2>4, FreedLive, LiveIs DEF StateInv
  <2>6. OwnerOfByte' = OwnerOfByte
    BY <1>2, <2>1, SameOwners DEF OwnersKept
  <2>7. B \in Blocks /\ B # {}
    BY <1>1, <2>4, UsedIsBlock, BlocksAre
  <2>8. \A s \in Stream : B \notin work[s]
    BY <1>4, <2>7 DEF NoWork, ReserveBytes
  <2> HIDE DEF B
  <2>9. Mem!Free(B)
    BY <1>1, <2>5, <2>6, <2>8 DEF Mem!Free
  <2> QED
    BY <2>7, <2>9
<1> QED
  BY <1>3, <1>4 DEF FreeTensor


(* Shrink gives back regions that no caller and no device work uses.       *)
LEMMA ShrinkIsTrim ==
  ASSUME StateInv, StateInv', work \in [Stream -> SUBSET Blocks], ShrinkArena
  PROVE  \E T \in SUBSET (AllBytes \ UNION LiveBlocks) : Mem!Trim(T)
<1> DEFINE T == {x \in AllBytes : \E r \in DOMAIN regions : Idle(r) /\ InRegion(x, r)}
<1>1. Fit(chunks, regions, reserved) /\ Fit(chunks', regions', reserved')
  BY FitNow DEF StateInv
<1>2. ChunkMap(chunks) /\ ChunkMap(chunks')
  BY <1>1 DEF Fit
<1>3. Shrink /\ reserved' = reserved /\ UNCHANGED work
  BY DEF ShrinkArena, streamVars, Shrink
<1>4. \A r \in DOMAIN regions : r \in Nat /\ regions[r] \in Nat \ {0}
  BY <1>1 DEF Fit, RegionMap, PartialFunction
<1>5. AllBytes \subseteq Nat
  BY AllBytesAre
<1>6. \A L \in LiveBlocks : L \cap T = {}
  <2> SUFFICES ASSUME NEW L \in LiveBlocks, NEW x \in L, x \in AllBytes,
                      NEW r \in DOMAIN regions, Idle(r), InRegion(x, r)
               PROVE  FALSE
    OBVIOUS
  <2>1. PICK q, m : UsedAt(chunks, reserved, q, m) /\ L = Bytes(q, m)
    BY LiveIs
  <2>2. /\ q \in Nat /\ m \in Nat \ {0} /\ x \in Nat /\ q <= x /\ x < q + m
        /\ r <= x /\ x < r + regions[r]
    <3>1. q \in Nat /\ m \in Nat \ {0}
      BY <1>1, <2>1, UsedIsBlock
    <3> QED
      BY <3>1, <2>1, BytesAre DEF InRegion, Within
  <2>3. CASE q \in DOMAIN chunks /\ chunks[q].inUse /\ m = chunks[q].size
    <3>1. PICK t \in DOMAIN regions : t \in Nat /\ regions[t] \in Nat /\ t <= q /\ q + m <= t + regions[t]
      BY <1>1, <2>3, ChunkInside DEF Fit
    <3>2. Apart(regions)
      BY DEF StateInv, ArenaInv
    <3>3. (r < t => r + regions[r] <= t) /\ (t < r => t + regions[t] <= r)
      BY <3>2 DEF Apart
    <3>4. r = t
      BY <3>1, <3>3, <2>2, <1>4
    <3>5. q < t + regions[t]
      BY <3>1, <2>2
    <3>6. InRegion(q, r)
      BY <3>1, <3>4, <3>5 DEF InRegion, Within
    <3> QED
      BY <3>6, <2>3 DEF Idle
  <2>4. CASE q \in DOMAIN reserved /\ m = reserved[q]
    <3>1. r + regions[r] <= q \/ q + reserved[q] <= r
      BY <1>1, <2>4 DEF Fit, HeldApart
    <3> QED
      BY <3>1, <2>2, <2>4, <1>4
  <2> QED
    BY <2>1, <2>3, <2>4 DEF UsedAt
<1>7. \A s \in Stream : \A B \in work[s] : B \cap T = {}
  <2> SUFFICES ASSUME NEW s \in Stream, NEW B \in work[s], NEW x \in B,
                      NEW r \in DOMAIN regions, Idle(r), InRegion(x, r), x \in AllBytes
               PROVE  FALSE
    OBVIOUS
  <2>1. NoWork(Bytes(r, regions[r]), Stream)
    BY DEF ShrinkArena
  <2>2. x \in Bytes(r, regions[r])
    BY <1>4, <1>5, BytesAre DEF InRegion, Within
  <2> QED
    BY <2>1, <2>2 DEF NoWork
<1>8. LiveBlocks' = LiveBlocks
  BY <1>3, ShrinkGives, SameLive DEF StateInv
<1>9. OwnerOfByte' = [x \in AllBytes |-> IF x \in T THEN None ELSE OwnerOfByte[x]]
  <2>1. \A x \in AllBytes :
          ByteOwner(chunks', x) = IF x \in T THEN None ELSE ByteOwner(chunks, x)
    BY <1>3, <1>5, ShrinkOwner DEF StateInv
  <2>2. \A x \in AllBytes : /\ OwnerOfByte'[x] = ByteOwner(chunks', x)
                            /\ OwnerOfByte[x] = ByteOwner(chunks, x)
    BY <1>2, OwnersAre
  <2> HIDE DEF T
  <2>3. \A x \in AllBytes : OwnerOfByte'[x] = IF x \in T THEN None ELSE OwnerOfByte[x]
    BY <2>1, <2>2
  <2>4. OwnerOfByte' = [x \in AllBytes |-> OwnerOfByte'[x]]
    BY DEF OwnerOfByte
  <2> QED
    BY <2>3, <2>4, Zenon
<1>10. T \in SUBSET (AllBytes \ UNION LiveBlocks)
  BY <1>6
<1> HIDE DEF T
<1>11. Mem!Trim(T)
  BY <1>3, <1>7, <1>8, <1>9, <1>10 DEF Mem!Trim
<1> QED
  BY <1>10, <1>11

(* The walk of a release makes the bytes of the stream nobody's.           *)
LEMMA ResetIsRelease ==
  ASSUME StateInv, StateInv', NEW s \in Stream, impl[s] # None, work[s] = {},
         ResetChunksUsingStream(impl[s]), UNCHANGED work
  PROVE  Mem!Release(s)
<1>1. streamOf[impl[s]] = s
  <2>1. impl[s] \in DOMAIN streamOf /\ ImplsDistinct /\ IndexAgrees
    BY DEF ResetChunksUsingStream, StateInv, ArenaInv
  <2>2. /\ streamOf[impl[s]] \in Stream
        /\ impl[streamOf[impl[s]]] = impl[s]
    BY <2>1 DEF IndexAgrees, Indexed, StateInv, ArenaInv, TypeOK, PartialFunction
  <2> QED
    BY <2>1, <2>2 DEF ImplsDistinct
<1>2. ChunkMap(chunks) /\ ChunkMap(chunks')
  BY FitNow DEF StateInv, Fit
<1>3. LiveBlocks' = LiveBlocks
  <2>1. reserved' = reserved
    BY DEF ResetChunksUsingStream
  <2> QED
    BY <2>1, ResetGives, SameLive DEF StateInv
<1>4. OwnerOfByte' = [x \in AllBytes |-> IF OwnerOfByte[x] = s THEN None ELSE OwnerOfByte[x]]
  <2>1. \A x \in AllBytes :
          ByteOwner(chunks', x) = IF ByteOwner(chunks, x) = s THEN None ELSE ByteOwner(chunks, x)
    BY <1>1, AllBytesAre, ResetOwner DEF StateInv
  <2>2. \A x \in AllBytes : /\ OwnerOfByte'[x] = ByteOwner(chunks', x)
                            /\ OwnerOfByte[x] = ByteOwner(chunks, x)
    BY <1>2, OwnersAre
  <2>3. \A x \in AllBytes : OwnerOfByte'[x] = IF OwnerOfByte[x] = s THEN None ELSE OwnerOfByte[x]
    BY <2>1, <2>2
  <2>4. OwnerOfByte' = [x \in AllBytes |-> OwnerOfByte'[x]]
    BY DEF OwnerOfByte
  <2> QED
    BY <2>3, <2>4, Zenon
<1> QED
  BY <1>3, <1>4 DEF Mem!Release

-----------------------------------------------------------------------------
(* The life of a stream                                                    *)

(* Only a stream that is still there has chunks, and only its live phase   *)
(* has device work, unless synchronization may end early.                  *)
StreamsInv ==
  /\ phase \in [Stream -> Phase]
  /\ work \in [Stream -> SUBSET Blocks]
  /\ \A s \in Stream : phase[s] = "none" <=> impl[s] = None
  /\ \A s \in Stream : phase[s] \in {"none", "reset"} => s \notin DOMAIN owned
  /\ SyncMayFail \/ \A s \in Stream : phase[s] # "live" => work[s] = {}

(* An allocation makes nobody but its stream an owner, ...                 *)
LEMMA AllocOwners ==
  ASSUME NEW s \in Stream, NEW n \in Request, AllocOnStream(s, n)
  PROVE  DOMAIN owned' \subseteq DOMAIN owned \cup {s} /\ impl' = impl
<1>1. ASSUME NEW cs, NEW bs, NEW p, TakeChunk(cs, bs, p, n, s)
      PROVE  DOMAIN owned' \subseteq DOMAIN owned \cup {s}
  BY <1>1 DEF TakeChunk, Own
<1>2. CASE AllocCached(s, n)
  BY <1>1, <1>2 DEF AllocCached
<1>3. CASE AllocExtended(s, n)
  BY <1>1, <1>3 DEF AllocExtended, Extending
<1>4. CASE AllocRefused(s, n) \/ AllocThrows(s, n)
  BY <1>4 DEF AllocRefused, AllocThrows, Extending, chunkVars
<1> QED
  BY <1>2, <1>3, <1>4 DEF AllocOnStream

(* ... and disowning nobody at all.                                        *)
LEMMA DisownOwners ==
  ASSUME NEW cs, NEW D, Disown(cs, D)
  PROVE  DOMAIN owned' \subseteq DOMAIN owned
BY DEF Disown, DisownedChunks, Restrict

(* Whoever has chunks is known by its implementation.                      *)
LEMMA OwnerIsKnown ==
  ASSUME ArenaInv, NEW s \in Stream, impl[s] # None
  PROVE  s \in DOMAIN owned <=> impl[s] \in DOMAIN streamOf
<1>1. ImplsDistinct /\ IndexAgrees /\ PartialFunction(streamOf, Impl, Stream)
  BY DEF ArenaInv, TypeOK
<1>2. ASSUME impl[s] \in DOMAIN streamOf PROVE s \in DOMAIN owned
  <2>1. /\ streamOf[impl[s]] \in DOMAIN owned /\ streamOf[impl[s]] \in Stream
        /\ impl[streamOf[impl[s]]] = impl[s]
    BY <1>1, <1>2 DEF IndexAgrees, Indexed, PartialFunction
  <2> QED
    BY <1>1, <2>1 DEF ImplsDistinct
<1> QED
  BY <1>1, <1>2 DEF IndexAgrees, Indexed


(* The walk of a release leaves its stream without chunks.                 *)
LEMMA ResetDisowns ==
  ASSUME StateInv, StateInv', NEW s \in Stream, impl[s] # None, ResetChunksUsingStream(impl[s])
  PROVE  s \notin DOMAIN owned'
<1> SUFFICES ASSUME s \in DOMAIN owned' PROVE FALSE
  OBVIOUS
<1>1. streamOf[impl[s]] = s
  <2>1. impl[s] \in DOMAIN streamOf /\ ImplsDistinct /\ IndexAgrees
    BY DEF ResetChunksUsingStream, StateInv, ArenaInv
  <2>2. streamOf[impl[s]] \in Stream /\ impl[streamOf[impl[s]]] = impl[s]
    BY <2>1 DEF IndexAgrees, Indexed, StateInv, ArenaInv, TypeOK, PartialFunction
  <2> QED
    BY <2>1, <2>2 DEF ImplsDistinct
<1>2. PICK p \in DOMAIN chunks' : chunks'[p].stream = s
  <2>1. IndexAgrees'
    BY DEF StateInv, ArenaInv
  <2>2. owned'[s] # {} /\ owned'[s] = {p \in DOMAIN chunks' : chunks'[p].stream = s}
    BY <2>1 DEF IndexAgrees, Indexed
  <2> QED
    BY <2>2
<1>3. Fit(chunks', regions', reserved')
  BY FitNow DEF StateInv
<1>4. p \in Nat /\ chunks'[p].size \in Nat \ {0}
  BY <1>2, <1>3 DEF Fit, ChunkMap, PartialFunction, Chunk
<1>5. Covers(chunks', p, p)
  BY <1>2, <1>4 DEF Covers
<1>6. ByteOwner(chunks', p) = s
  BY <1>2, <1>3, <1>4, <1>5, OwnerIs DEF Fit
<1>7. ByteOwner(chunks', p) = IF ByteOwner(chunks, p) = s THEN None ELSE ByteOwner(chunks, p)
  BY <1>1, <1>4, ResetOwner DEF StateInv
<1> QED
  BY <1>6, <1>7, ArenaAssumption

(* A stream that ends has been reset, so its implementation is unknown.    *)
LEMMA StreamStepIsArenaStep ==
  StateInv /\ StreamsInv /\ [StreamNext]_allVars => [Next]_vars
<1> SUFFICES ASSUME StateInv, StreamsInv, [StreamNext]_allVars PROVE [Next]_vars
  OBVIOUS
<1>1. CASE \E s \in Stream, i \in Impl : NewStream(s, i)
  BY <1>1 DEF NewStream, Next
<1>2. CASE \E s \in Stream, n \in Request : StreamAlloc(s, n)
  BY <1>2 DEF StreamAlloc, Next
<1>3. CASE \E n \in Request : DirectAlloc(n)
  BY <1>3 DEF DirectAlloc, Next
<1>4. CASE \/ \E s \in Stream : \E B \in LiveBlocks : Launch(s, B)
           \/ \E s \in Stream : \E B \in work[s] : Complete(s, B)
           \/ \E s \in Stream : SyncStream(s)
           \/ UNCHANGED allVars
  BY <1>4 DEF Launch, Complete, SyncStream, allVars
<1>5. CASE \E p \in DOMAIN reserved \cup DOMAIN chunks : FreeTensor(p)
  BY <1>5 DEF FreeTensor, Free, Next
<1>6. CASE ShrinkArena
  BY <1>6 DEF ShrinkArena, Next
<1>7. CASE \E s \in Stream : ResetStream(s)
  <2>1. PICK s \in Stream : ResetStream(s)
    BY <1>7
  <2>2. CASE ResetChunksUsingStream(impl[s])
    <3>1. impl[s] \in Impl
      BY <2>2 DEF ResetChunksUsingStream, StateInv, ArenaInv, TypeOK, PartialFunction
    <3> QED
      BY <2>2, <3>1 DEF Next
  <2>3. CASE UNCHANGED vars
    BY <2>3
  <2> QED
    BY <2>1, <2>2, <2>3 DEF ResetStream
<1>8. CASE \E s \in Stream : EndStream(s)
  <2>1. PICK s \in Stream : EndStream(s)
    BY <1>8
  <2>2. phase[s] = "reset" /\ impl[s] # None /\ s \notin DOMAIN owned
    BY <2>1 DEF EndStream, StreamsInv
  <2>3. impl[s] \notin DOMAIN streamOf
    BY <2>2, OwnerIsKnown DEF StateInv
  <2>4. DestroyStream(s)
    BY <2>1, <2>2, <2>3 DEF EndStream, DestroyStream
  <2> QED
    BY <2>4 DEF Next
<1> QED
  BY <1>1, <1>2, <1>3, <1>4, <1>5, <1>6, <1>7, <1>8 DEF StreamNext

(* The arena keeps what it promises under the calls of the streams.        *)
LEMMA StateStep ==
  StateInv /\ [Next]_vars => StateInv'
BY ArenaInvStep, BudgetStep, HeldStep DEF StateInv

(* Each step of a stream's life preserves the invariant of the streams.    *)
LEMMA StreamsStep ==
  StateInv /\ StreamsInv /\ [StreamNext]_allVars => StreamsInv'
<1> SUFFICES ASSUME StateInv, StreamsInv, [StreamNext]_allVars PROVE StreamsInv'
  OBVIOUS
<1>1. StateInv'
  BY StreamStepIsArenaStep, StateStep
<1>2. ASSUME UNCHANGED streamVars, impl' = impl, DOMAIN owned' \subseteq DOMAIN owned
      PROVE  StreamsInv'
  BY <1>2 DEF StreamsInv, streamVars
<1>3. CASE \E s \in Stream, i \in Impl : NewStream(s, i)
  <2>1. PICK s \in Stream, i \in Impl : NewStream(s, i)
    BY <1>3
  <2>2. i # None
    BY ArenaAssumption
  <2> QED
    BY <2>1, <2>2 DEF NewStream, CreateStream, arenaVars, chunkVars, StreamsInv, Phase,
                      StateInv, ArenaInv, TypeOK
<1>4. CASE \E s \in Stream, n \in Request : StreamAlloc(s, n)
  <2>1. PICK s \in Stream, n \in Request : StreamAlloc(s, n)
    BY <1>4
  <2>2. DOMAIN owned' \subseteq DOMAIN owned \cup {s} /\ impl' = impl
    BY <2>1, AllocOwners DEF StreamAlloc
  <2> QED
    BY <2>1, <2>2 DEF StreamAlloc, StreamsInv, streamVars
<1>5. CASE \E n \in Request : DirectAlloc(n)
  BY <1>2, <1>5 DEF DirectAlloc, Reserve, chunkVars
<1>6. CASE \E s \in Stream : \E B \in LiveBlocks : Launch(s, B)
  <2>1. PICK s \in Stream, B \in LiveBlocks : Launch(s, B)
    BY <1>6
  <2>2. B \in Blocks
    BY LiveIs, FitNow, UsedIsBlock DEF StateInv
  <2> QED
    BY <2>1, <2>2 DEF Launch, StreamsInv, vars, arenaVars, chunkVars
<1>7. CASE \E s \in Stream : \E B \in work[s] : Complete(s, B)
  <2>1. PICK s \in Stream, B \in UNION {work[t] : t \in Stream} : Complete(s, B)
    BY <1>7
  <2> QED
    BY <2>1 DEF Complete, StreamsInv, vars, arenaVars, chunkVars
<1>8. CASE \E p \in DOMAIN reserved \cup DOMAIN chunks : FreeTensor(p)
  <2>1. PICK p : FreeTensor(p)
    BY <1>8
  <2>2. CASE FreeChunkAt(p)
    BY <2>1, <2>2, <1>2, DisownOwners DEF FreeTensor, FreeChunkAt
  <2>3. CASE FreeReserved(p)
    BY <2>1, <2>3, <1>2 DEF FreeTensor, FreeReserved, chunkVars
  <2> QED
    BY <2>1, <2>2, <2>3 DEF FreeTensor
<1>9. CASE ShrinkArena
  BY <1>2, <1>9, DisownOwners DEF ShrinkArena, Shrink
<1>10. CASE \E s \in Stream : SyncStream(s)
  BY <1>10 DEF SyncStream, StreamsInv, Phase, vars, arenaVars, chunkVars
<1>11. CASE \E s \in Stream : ResetStream(s)
  <2>1. PICK s \in Stream : ResetStream(s)
    BY <1>11
  <2>2. phase[s] = "synced" /\ impl[s] # None
    BY <2>1 DEF ResetStream, StreamsInv
  <2>3. /\ DOMAIN owned' \subseteq DOMAIN owned /\ impl' = impl
        /\ s \notin DOMAIN owned'
    <3>1. CASE ResetChunksUsingStream(impl[s])
      BY <3>1, <1>1, <2>2, DisownOwners, ResetDisowns DEF ResetChunksUsingStream
    <3>2. CASE impl[s] \notin DOMAIN streamOf /\ UNCHANGED vars
      BY <3>2, <2>2, OwnerIsKnown DEF StateInv, vars, arenaVars, chunkVars
    <3> QED
      BY <2>1, <3>1, <3>2 DEF ResetStream
  <2> QED
    BY <2>1, <2>2, <2>3 DEF ResetStream, StreamsInv, Phase
<1>12. CASE \E s \in Stream : EndStream(s)
  BY <1>12 DEF EndStream, StreamsInv, Phase, arenaVars, chunkVars, StateInv, ArenaInv, TypeOK
<1>13. CASE UNCHANGED allVars
  BY <1>13, <1>2 DEF allVars, vars, arenaVars, chunkVars
<1> QED
  BY <1>3, <1>4, <1>5, <1>6, <1>7, <1>8, <1>9, <1>10, <1>11, <1>12, <1>13 DEF StreamNext


(* Initially there is nothing.                                             *)
LEMMA StreamsInit == StreamInit => StateInv /\ StreamsInv
<1> SUFFICES ASSUME StreamInit PROVE StateInv /\ StreamsInv
  OBVIOUS
<1>1. StateInv
  BY ArenaInvInit, BudgetInit, HeldInit DEF StreamInit, StateInv
<1>2. StreamsInv
  BY DEF StreamInit, Init, StreamsInv, Phase
<1> QED
  BY <1>1, <1>2

(* Both invariants hold in every state.                                    *)
LEMMA StreamsInvAlways == StreamSpec => [](StateInv /\ StreamsInv)
<1>1. StateInv /\ StreamsInv /\ [StreamNext]_allVars => StateInv' /\ StreamsInv'
  BY StreamStepIsArenaStep, StateStep, StreamsStep
<1> QED
  BY <1>1, StreamsInit, PTL DEF StreamSpec

(* Whatever the host threads, the destructors of the streams and the       *)
(* device do in between, the arena only ever sees calls that it allows:    *)
(* what is true of the arena alone is true of it here.                     *)
THEOREM StreamsUseTheArena == StreamSpec => Spec
<1>1. StreamInit => Init
  BY DEF StreamInit
<1>2. StateInv /\ StreamsInv /\ [StreamNext]_allVars => [Next]_vars
  BY StreamStepIsArenaStep
<1> QED
  BY <1>1, <1>2, StreamsInvAlways, PTL DEF StreamSpec, Spec

(* The arena's chunks, bins and index stay in order while streams come and *)
(* go between the steps of each other's destructors.                       *)
THEOREM StreamsKeepArenaInv == StreamSpec => []ArenaInv
  BY StreamsUseTheArena, ArenaInvAlways, PTL

(* The budget stays exact, for sizes that keep every growth step aligned.  *)
THEOREM StreamsKeepBudget == AlignedGrowth /\ StreamSpec => []BudgetExact
  BY StreamsUseTheArena, BudgetAlwaysExact, PTL

(* Before a stream's implementation object can be reused the arena knows   *)
(* nothing of the stream any more.                                         *)
THEOREM NothingIsLeftBehind == StreamSpec => []NothingLeftBehind
<1>1. StateInv /\ StreamsInv => NothingLeftBehind
  <2> SUFFICES ASSUME StateInv, StreamsInv, NEW s \in Stream, phase[s] \in {"none", "reset"}
               PROVE  /\ s \notin DOMAIN owned
                      /\ \A p \in DOMAIN chunks : chunks[p].stream # s
                      /\ \A i \in DOMAIN streamOf : streamOf[i] # s
    BY DEF NothingLeftBehind
  <2>1. s \notin DOMAIN owned /\ s # None
    BY ArenaAssumption DEF StreamsInv
  <2>2. IndexAgrees
    BY DEF StateInv, ArenaInv
  <2> QED
    BY <2>1, <2>2 DEF IndexAgrees, Indexed
<1> QED
  BY <1>1, StreamsInvAlways, PTL

-----------------------------------------------------------------------------
(* The refinement                                                          *)

(* At first no block is allocated and no byte is anybody's.                *)
LEMMA MemInit == StreamInit => Mem!Init
<1> SUFFICES ASSUME StreamInit PROVE Mem!Init
  OBVIOUS
<1>1. DOMAIN chunks = {} /\ DOMAIN reserved = {} /\ work = [s \in Stream |-> {}]
  BY DEF StreamInit, Init
<1>2. LiveBlocks = {}
  BY <1>1 DEF LiveBlocks
<1>3. OwnerOfByte = [x \in AllBytes |-> None]
  <2>1. \A x \in AllBytes : OwnerOfByte[x] = None
    BY <1>1 DEF OwnerOfByte
  <2>2. OwnerOfByte = [x \in AllBytes |-> OwnerOfByte[x]]
    BY DEF OwnerOfByte
  <2> QED
    BY <2>1, <2>2, Zenon
<1> QED
  BY <1>1, <1>2, <1>3 DEF Mem!Init

(* Each step is one of the stream-ordered memory or leaves it unchanged.   *)
LEMMA MemStep ==
  ASSUME ~SyncMayFail
  PROVE  StateInv /\ StreamsInv /\ [StreamNext]_allVars => [Mem!Next]_Mem!memVars
<1> SUFFICES ASSUME StateInv, StreamsInv, [StreamNext]_allVars PROVE [Mem!Next]_Mem!memVars
  OBVIOUS
<1>1. StateInv' /\ work \in [Stream -> SUBSET Blocks]
  BY StreamStepIsArenaStep, StateStep DEF StreamsInv
<1>2. ASSUME UNCHANGED <<chunks, reserved, work>> PROVE UNCHANGED Mem!memVars
  <2>1. LiveBlocks' = LiveBlocks
    BY <1>2, LiveIs
  <2>2. OwnerOfByte' = OwnerOfByte
    <3>1. ChunkMap(chunks) /\ ChunkMap(chunks')
      BY <1>1, FitNow DEF StateInv, Fit
    <3> QED
      BY <1>2, <3>1, SameOwners DEF OwnersKept
  <2> QED
    BY <1>2, <2>1, <2>2 DEF Mem!memVars
<1>3. CASE \E s \in Stream, i \in Impl : NewStream(s, i)
  BY <1>2, <1>3 DEF NewStream, CreateStream, arenaVars, chunkVars
<1>4. CASE \E s \in Stream, n \in Request : StreamAlloc(s, n)
  <2>1. PICK s \in Stream, n \in Request : StreamAlloc(s, n)
    BY <1>4
  <2>2. AllocOnStream(s, n) /\ UNCHANGED work /\ ArenaInv
    BY <2>1 DEF StreamAlloc, streamVars, StateInv
  <2>3. CASE AllocCached(s, n)
    <3>1. PICK p \in DOMAIN chunks : Taken(p, n, s) /\ GivenTo(p, s)
      BY <2>2, <2>3, AllocCachedOwner
    <3>2. KeepsInUse(chunks, chunks') /\ reserved' = reserved
      BY <2>2, <2>3, AllocCachedSound DEF AllocCached
    <3>3. \E B \in Blocks : Mem!Allocate(s, B)
      BY <1>1, <2>2, <3>1, <3>2, TakenIsAllocate
    <3> QED
      BY <3>3 DEF Mem!Next
  <2>4. CASE AllocExtended(s, n)
    <3>1. PICK size \in ExtendSizes(Rounded(n)), b \in Base :
            /\ size \in Nat \ {0} /\ DeviceFresh(b, size)
            /\ b \notin DOMAIN chunks /\ b \notin DOMAIN regions
            /\ regions' = [r \in DOMAIN regions \cup {b} |-> IF r = b THEN size ELSE regions[r]]
            /\ Taken(b, n, s) /\ GivenTo(b, s)
      BY <2>2, <2>4, AllocExtendedOwner, Zenon
    <3>2. KeepsInUse(chunks, chunks') /\ reserved' = reserved
      BY <2>2, <2>4, AllocExtendedSound DEF AllocExtended, Extending
    <3>3. \E B \in Blocks : Mem!Allocate(s, B)
      BY <1>1, <2>2, <3>1, <3>2, TakenIsAllocate
    <3> QED
      BY <3>3 DEF Mem!Next
  <2>5. CASE AllocRefused(s, n) \/ AllocThrows(s, n)
    BY <1>2, <2>2, <2>5 DEF AllocRefused, AllocThrows, Extending, chunkVars
  <2> QED
    BY <2>2, <2>3, <2>4, <2>5 DEF AllocOnStream
<1>5. CASE \E n \in Request : DirectAlloc(n)
  BY <1>1, <1>5, ReserveIsAllocate DEF DirectAlloc, streamVars, Mem!Next
<1>6. CASE \E s \in Stream : \E B \in LiveBlocks : Launch(s, B)
  <2>1. PICK s \in Stream, B \in LiveBlocks : Launch(s, B)
    BY <1>6
  <2>2. B \in Blocks
    BY LiveIs, FitNow, UsedIsBlock DEF StateInv
  <2>3. UNCHANGED <<chunks, reserved>>
    BY <2>1 DEF Launch, vars, arenaVars, chunkVars
  <2>4. LiveBlocks' = LiveBlocks /\ OwnerOfByte' = OwnerOfByte
    <3>1. ChunkMap(chunks) /\ ChunkMap(chunks')
      BY <1>1, FitNow DEF StateInv, Fit
    <3> QED
      BY <2>3, <3>1, SameOwners, LiveIs DEF OwnersKept
  <2>5. Mem!Launch(s, B)
    BY <2>1, <2>4 DEF Launch, Mem!Launch
  <2> QED
    BY <2>2, <2>5 DEF Mem!Next
<1>7. CASE \E s \in Stream : \E B \in work[s] : Complete(s, B)
  <2>1. PICK s \in Stream, B \in UNION {work[t] : t \in Stream} : Complete(s, B)
    BY <1>7
  <2>2. B \in Blocks
    BY <1>1, <2>1 DEF Complete
  <2>3. UNCHANGED <<chunks, reserved>>
    BY <2>1 DEF Complete, vars, arenaVars, chunkVars
  <2>4. LiveBlocks' = LiveBlocks /\ OwnerOfByte' = OwnerOfByte
    <3>1. ChunkMap(chunks) /\ ChunkMap(chunks')
      BY <1>1, FitNow DEF StateInv, Fit
    <3> QED
      BY <2>3, <3>1, SameOwners, LiveIs DEF OwnersKept
  <2>5. Mem!Complete(s, B)
    BY <2>1, <2>4 DEF Complete, Mem!Complete
  <2> QED
    BY <2>2, <2>5 DEF Mem!Next
<1>8. CASE \E p \in DOMAIN reserved \cup DOMAIN chunks : FreeTensor(p)
  BY <1>1, <1>8, FreeIsFree DEF Mem!Next
<1>9. CASE ShrinkArena
  BY <1>1, <1>9, ShrinkIsTrim DEF Mem!Next
<1>10. CASE \E s \in Stream : SyncStream(s)
  BY <1>2, <1>10 DEF SyncStream, vars, arenaVars, chunkVars
<1>11. CASE \E s \in Stream : ResetStream(s)
  <2>1. PICK s \in Stream : ResetStream(s)
    BY <1>11
  <2>2. phase[s] = "synced" /\ impl[s] # None /\ work[s] = {} /\ UNCHANGED work
    BY <2>1 DEF ResetStream, StreamsInv
  <2>3. CASE ResetChunksUsingStream(impl[s])
    <3>1. Mem!Release(s)
      BY <1>1, <2>2, <2>3, ResetIsRelease
    <3> QED
      BY <3>1 DEF Mem!Next
  <2>4. CASE UNCHANGED vars
    BY <1>2, <2>2, <2>4 DEF vars, arenaVars, chunkVars
  <2> QED
    BY <2>1, <2>3, <2>4 DEF ResetStream
<1>12. CASE \E s \in Stream : EndStream(s)
  BY <1>2, <1>12 DEF EndStream, arenaVars, chunkVars
<1>13. CASE UNCHANGED allVars
  BY <1>2, <1>13 DEF allVars, streamVars, vars, arenaVars, chunkVars
<1> QED
  BY <1>3, <1>4, <1>5, <1>6, <1>7, <1>8, <1>9, <1>10, <1>11, <1>12, <1>13 DEF StreamNext

(* The arena implements the stream-ordered memory: however it splits,      *)
(* merges, grows, shrinks and releases, a byte that was a stream's goes to *)
(* nobody else before the stream is synchronized and released.             *)
THEOREM ArenaImplementsMemory ==
  ASSUME ~SyncMayFail
  PROVE  StreamSpec => ImplementsMemory
<1>1. StreamSpec => Mem!Init /\ [][Mem!Next]_Mem!memVars
  BY MemInit, MemStep, StreamsInvAlways, PTL DEF StreamSpec
<1> QED
  BY <1>1 DEF ImplementsMemory, Mem!Spec


(* What is proved of every stream-ordered memory, here of this one.        *)
Promise == INSTANCE StreamOrderedMemory_proofs
             WITH Cell  <- AllBytes,
                  Block <- Blocks,
                  live  <- LiveBlocks,
                  owner <- OwnerOfByte

(* The assumptions of that proof hold of bytes and runs of bytes.          *)
LEMMA MemoryIsMemory == Promise!MemoryConstants
BY ArenaAssumption, BlocksAre DEF Promise!MemoryConstants

(* No stream is given memory on which another stream's work is unfinished, *)
(* although memory is freed and handed out without waiting for the device. *)
THEOREM ArenaReuseIsOrdered ==
  ASSUME ~SyncMayFail
  PROVE  StreamSpec => []ReuseIsOrdered
<1>1. Mem!Init => Promise!Init
  BY DEF Mem!Init, Promise!Init
<1>2. [Mem!Next]_Mem!memVars => [Promise!Next]_Promise!memVars
  BY DEF Mem!Next, Promise!Next, Mem!memVars, Promise!memVars, Mem!Allocate, Promise!Allocate,
         Mem!Launch, Promise!Launch, Mem!Complete, Promise!Complete, Mem!Free, Promise!Free,
         Mem!Release, Promise!Release, Mem!Trim, Promise!Trim
<1>3. Promise!Spec => []Promise!ReuseIsOrdered
  BY MemoryIsMemory, Promise!ReuseAlwaysOrdered
<1>4. Promise!ReuseIsOrdered => ReuseIsOrdered
  BY DEF Promise!ReuseIsOrdered, ReuseIsOrdered, Mem!ReuseIsOrdered
<1> QED
  BY <1>1, <1>2, <1>3, <1>4, ArenaImplementsMemory, PTL
  DEF ImplementsMemory, Mem!Spec, Promise!Spec

=============================================================================
