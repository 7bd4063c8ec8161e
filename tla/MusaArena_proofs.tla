-------------------------- MODULE MusaArena_proofs --------------------------
(***************************************************************************)
(* The device arena, for every number of streams and implementations,      *)
(* every configuration and every device address:                           *)
(*  - what the operators of MusaArena do to a map of chunks, of any size   *)
(*    and shape: splitting, merging and the coalescing walk keep the       *)
(*    regions tiled;                                                       *)
(*  - ArenaInv is an inductive invariant;                                  *)
(*  - with what each operation does to the chunks in use, that bytes_in_use*)
(*    is their size, that no neighbours stay apart that could be merged,   *)
(*    and that little of a chunk is wasted;                                *)
(*  - the budget holds, and is exact where growth steps stay aligned;      *)
(*  - the search through the bins is best fit;                             *)
(*  - the loops of ResetWalk, which a release runs, come to their end with *)
(*    the coalesced chunks that MusaArena gives for them.                  *)
(***************************************************************************)
EXTENDS ResetWalk, SumLemmas

ChunkMap(cs)  == PartialFunction(cs, Nat, Chunk)
(* A region has a size at an address.                                      *)
RegionMap(rs) == PartialFunction(rs, Nat, Nat \ {0})

-----------------------------------------------------------------------------
(* Numbers                                                                 *)

(* Max gives the greatest element of a bounded set of natural numbers.     *)
LEMMA MaxNat ==
  ASSUME NEW T \in SUBSET Nat, T # {}, NEW b \in Nat, \A x \in T : x <= b
  PROVE  Max(T) \in T /\ \A x \in T : x <= Max(T)
<1> DEFINE D == {d \in Nat : b - d \in T}
<1>1. D # {} /\ D \in SUBSET Nat
  <2> PICK x \in T : TRUE
    OBVIOUS
  <2>1. b - x \in D
    OBVIOUS
  <2> QED
    BY <2>1
<1>2. PICK d \in D : \A e \in D : d <= e
  BY <1>1, LeastNat
<1>3. b - d \in T /\ \A x \in T : x <= b - d
  <2> SUFFICES ASSUME NEW x \in T PROVE x <= b - d
    OBVIOUS
  <2>1. b - x \in D
    OBVIOUS
  <2> QED
    BY <1>2, <2>1
<1> QED
  BY <1>3 DEF Max

(* Min gives the least element.                                            *)
LEMMA MinNat ==
  ASSUME NEW T \in SUBSET Nat, T # {}
  PROVE  Min(T) \in T /\ \A x \in T : Min(T) <= x
BY LeastNat DEF Min

(* RoundedBytes never rounds down.                                         *)
LEMMA RoundedUp ==
  ASSUME NEW n \in Nat \ {0}
  PROVE  Rounded(n) \in Nat /\ n <= Rounded(n)
<1> DEFINE q == (n + Granule - 1) \div Granule
<1>1. Granule \in Nat \ {0}
  BY ArenaAssumption
<1>2. q \in Int /\ Granule * q > n - 1
  BY <1>1
<1> QED
  BY <1>1, <1>2 DEF Rounded

(* BinNumForSize is the index of a bin.                                    *)
LEMMA BinIndex == ASSUME NEW n PROVE BinNumForSize(n) \in Bin
<1> DEFINE B == {b \in 1 .. NumBins - 1 : Granule * 2^b <= n}
<1>1. NumBins \in Nat \ {0}
  BY ArenaAssumption
<1>2. /\ IsFiniteSet(1 .. NumBins - 1)
      /\ Cardinality(1 .. NumBins - 1) = NumBins - 1
  BY <1>1, FS_Interval
<1>3. /\ IsFiniteSet(B)
      /\ Cardinality(B) <= Cardinality(1 .. NumBins - 1)
  BY <1>2, FS_Subset
<1>4. Cardinality(B) \in Nat
  BY <1>3, FS_CardinalityType
<1> QED
  BY <1>1, <1>2, <1>3, <1>4 DEF BinNumForSize, Bin

-----------------------------------------------------------------------------
(* Splitting and merging                                                   *)

(* A new free chunk of n bytes.                                            *)
LEMMA FreeChunkType ==
  ASSUME NEW n \in Nat \ {0}
  PROVE  FreeChunk(n) \in Chunk
BY BinIndex DEF FreeChunk, Chunk

(* An address of a region is of no other region.                           *)
LEMMA OneRegion ==
  ASSUME NEW rs, RegionMap(rs), Apart(rs), NEW p \in Nat,
         NEW r \in DOMAIN rs, NEW t \in DOMAIN rs, Within(p, r, rs), Within(p, t, rs)
  PROVE  r = t
BY DEF RegionMap, PartialFunction, Apart, Within

(* The links of a chunk lead to the chunks that touch it.                  *)
LEMMA Links ==
  ASSUME NEW cs, NEW rs, ChunkMap(cs), Tiled(cs, rs), NEW p \in DOMAIN cs
  PROVE  /\ p \in Nat /\ cs[p] \in Chunk /\ cs[p].size \in Nat \ {0} /\ None \notin Nat
         /\ cs[p].next # None => /\ cs[p].next \in DOMAIN cs /\ cs[cs[p].next].prev = p
                                 /\ cs[p].next = p + cs[p].size /\ p < cs[p].next
         /\ cs[p].prev # None => /\ cs[p].prev \in DOMAIN cs /\ cs[cs[p].prev].next = p
                                 /\ p = cs[p].prev + cs[cs[p].prev].size /\ cs[p].prev < p
<1>1. None \notin Nat
  BY ArenaAssumption
<1>2. \A x \in DOMAIN cs : x \in Nat /\ cs[x] \in Chunk /\ cs[x].size \in Nat \ {0}
  BY DEF ChunkMap, PartialFunction, Chunk
<1>3. ASSUME NEW x \in DOMAIN cs, cs[x].next # None
      PROVE  /\ cs[x].next \in DOMAIN cs /\ cs[cs[x].next].prev = x
             /\ cs[x].next = x + cs[x].size /\ x < cs[x].next
  <2>1. PICK r \in DOMAIN rs : Within(x, r, rs)
    BY DEF Tiled
  <2>2. cs[x].next = x + cs[x].size
    BY <2>1, <1>3 DEF Tiled
  <2> QED
    BY <2>2, <1>2, <1>3 DEF Tiled
<1>4. cs[p].prev # None => cs[p].prev \in DOMAIN cs /\ cs[cs[p].prev].next = p
  BY DEF Tiled
<1> QED
  BY <1>1, <1>2, <1>3, <1>4

(* SplitChunk cuts a chunk in two: the second part is a new chunk in the   *)
(* first one's place in the list, and nothing else moves.                  *)
LEMMA SplitTiled ==
  ASSUME NEW cs, NEW rs, ChunkMap(cs), RegionMap(rs), Apart(rs), Tiled(cs, rs),
         NEW p \in DOMAIN cs, NEW n \in Nat \ {0}, n < cs[p].size
  PROVE  /\ p + n \notin DOMAIN cs
         /\ DOMAIN SplitChunk(cs, p, n) = DOMAIN cs \cup {p + n}
         /\ ChunkMap(SplitChunk(cs, p, n))
         /\ Tiled(SplitChunk(cs, p, n), rs)
<1> DEFINE q    == p + n
           ds   == SplitChunk(cs, p, n)
           next == cs[p].next
<1>1. /\ p \in Nat /\ q \in Nat /\ p < q
      /\ \A x \in DOMAIN cs : x \in Nat /\ cs[x] \in Chunk
      /\ None \notin Nat
  BY Links
<1>2. cs[p].size \in Nat \ {0} /\ q < p + cs[p].size
  BY <1>1, Links
<1>3. \A x \in DOMAIN cs : x # p => x + cs[x].size <= p \/ p + cs[p].size <= x
  <2>1. \A x \in DOMAIN cs : x # p => x < p \/ p < x
    BY <1>1
  <2>2. \A x, y \in DOMAIN cs : x < y => x + cs[x].size <= y
    BY DEF Tiled
  <2> QED
    BY <2>1, <2>2
<1>4. q \notin DOMAIN cs
  <2> SUFFICES ASSUME q \in DOMAIN cs PROVE FALSE
    OBVIOUS
  <2>1. q # p /\ cs[q].size \in Nat \ {0}
    BY <1>1, Links
  <2> QED
    BY <2>1, <1>1, <1>2, <1>3
<1>5. /\ next # p /\ next \in Nat \cup {None}
      /\ next # None => next \in DOMAIN cs /\ cs[next].prev = p /\ p + cs[p].size = next
  BY <1>1, Links DEF Chunk
<1>6. DOMAIN ds = DOMAIN cs \cup {q}
  BY DEF SplitChunk
<1>7. /\ ds[p] = [cs[p] EXCEPT !.size = n, !.next = q]
      /\ ds[q] = [FreeChunk(cs[p].size - n) EXCEPT
                    !.prev = p, !.next = next, !.stream = cs[p].stream]
      /\ next # None => ds[next] = [cs[next] EXCEPT !.prev = q]
      /\ \A x \in DOMAIN cs : x # p /\ x # next => ds[x] = cs[x]
  BY <1>1, <1>2, <1>4, <1>5 DEF SplitChunk
<1> HIDE DEF ds
<1>8. /\ ds[p] \in Chunk /\ ds[p].size = n /\ ds[p].next = q /\ ds[p].prev = cs[p].prev
      /\ ds[q] \in Chunk /\ ds[q].size = cs[p].size - n /\ ds[q].next = next /\ ds[q].prev = p
      /\ next # None => /\ ds[next] \in Chunk /\ ds[next].size = cs[next].size
                        /\ ds[next].next = cs[next].next /\ ds[next].prev = q
  <2>1. FreeChunk(cs[p].size - n) \in Chunk
    BY <1>2, FreeChunkType
  <2>2. FreeChunk(cs[p].size - n).size = cs[p].size - n
    BY DEF FreeChunk
  <2>3. cs[p] \in Chunk /\ q \in Nat /\ cs[p].stream \in Stream \cup {None}
    BY <1>1 DEF Chunk
  <2>4. ds[p] \in Chunk /\ ds[p].size = n /\ ds[p].next = q /\ ds[p].prev = cs[p].prev
    BY <1>7, <2>3 DEF Chunk
  <2>5. ds[q] \in Chunk /\ ds[q].size = cs[p].size - n /\ ds[q].next = next /\ ds[q].prev = p
    <3> DEFINE c == FreeChunk(cs[p].size - n)
    <3>1. c \in Chunk /\ c.size = cs[p].size - n
      BY <2>1, <2>2
    <3>2. ds[q] = [c EXCEPT !.prev = p, !.next = next, !.stream = cs[p].stream]
      BY <1>7
    <3>3. p \in Nat /\ next \in Nat \cup {None} /\ cs[p].stream \in Stream \cup {None}
      BY <1>1, <1>5, <2>3
    <3> HIDE DEF c, next
    <3> QED
      BY <3>1, <3>2, <3>3 DEF Chunk
  <2>6. next # None => /\ ds[next] \in Chunk /\ ds[next].size = cs[next].size
                       /\ ds[next].next = cs[next].next /\ ds[next].prev = q
    BY <1>1, <1>5, <1>7, <2>3 DEF Chunk
  <2> QED
    BY <2>4, <2>5, <2>6
<1>9. ChunkMap(ds)
  BY <1>1, <1>6, <1>7, <1>8 DEF ChunkMap, PartialFunction
<1>10. Tiled(ds, rs)
  <2>1. \A r \in DOMAIN rs : r \in DOMAIN ds
    BY <1>6 DEF Tiled
  <2>2. \A x \in DOMAIN ds : \E r \in DOMAIN rs : Within(x, r, rs)
    <3>1. PICK r \in DOMAIN rs : Within(p, r, rs)
      BY DEF Tiled
    <3>2. Within(q, r, rs)
      <4>1. p + cs[p].size <= r + rs[r] /\ r \in Nat /\ rs[r] \in Nat
        BY <3>1 DEF Tiled, RegionMap, PartialFunction
      <4> QED
        BY <3>1, <4>1, <1>1, <1>2 DEF Within
    <3> QED
      BY <3>2, <1>6 DEF Tiled
  <2>3. ASSUME NEW x \in DOMAIN ds, NEW r \in DOMAIN rs, Within(x, r, rs)
        PROVE  /\ x + ds[x].size <= r + rs[r]
               /\ ds[x].next = IF x + ds[x].size = r + rs[r] THEN None ELSE x + ds[x].size
               /\ ds[x].prev = None <=> x = r
    <3>1. r \in Nat /\ rs[r] \in Nat /\ r \in DOMAIN cs
      BY DEF RegionMap, PartialFunction, Tiled
    <3>2. CASE x = q \/ x = p
      <4>1. PICK t \in DOMAIN rs : Within(p, t, rs)
        BY DEF Tiled
      <4>2. t \in Nat /\ rs[t] \in Nat /\ p + cs[p].size <= t + rs[t]
        BY <4>1 DEF RegionMap, PartialFunction, Tiled
      <4>3. Within(q, t, rs)
        BY <4>1, <4>2, <1>1, <1>2 DEF Within
      <4>4. t = r
        BY <3>2, <4>1, <4>3, <1>1, <2>3, OneRegion
      <4>5. /\ next = IF p + cs[p].size = r + rs[r] THEN None ELSE p + cs[p].size
            /\ cs[p].prev = None <=> p = r
        BY <4>1, <4>4 DEF Tiled
      <4>6. CASE x = q
        BY <4>6, <4>2, <4>4, <4>5, <3>1, <1>1, <1>2, <1>4, <1>8
      <4>7. CASE x = p
        BY <4>7, <4>2, <4>4, <4>5, <1>1, <1>2, <1>8
      <4> QED
        BY <3>2, <4>6, <4>7
    <3>3. CASE x # q /\ x # p /\ x = next
      <4>1. x \in DOMAIN cs /\ next # None
        BY <3>3, <1>1, <1>6
      <4>2. x # r
        BY <3>3, <4>1, <1>1, <1>5, <2>3 DEF Tiled
      <4> QED
        BY <3>3, <4>1, <4>2, <2>3, <1>1, <1>8 DEF Tiled
    <3>4. CASE x # q /\ x # p /\ x # next
      BY <3>4, <2>3, <1>6, <1>7 DEF Tiled
    <3> QED
      BY <3>2, <3>3, <3>4
  <2>4. ASSUME NEW x \in DOMAIN ds
        PROVE  /\ ds[x].next # None => ds[x].next \in DOMAIN ds /\ ds[ds[x].next].prev = x
               /\ ds[x].prev # None => ds[x].prev \in DOMAIN ds /\ ds[ds[x].prev].next = x
    <3>1. CASE x = p
      <4>1. cs[p].prev # None =>
              /\ cs[p].prev \in DOMAIN cs /\ cs[cs[p].prev].next = p
              /\ cs[p].prev # p /\ cs[p].prev # next
        BY <1>1, <1>2, <1>5, Links
      <4> QED
        BY <3>1, <4>1, <1>1, <1>6, <1>7, <1>8, ZenonT(60)
    <3>2. CASE x = q
      BY <3>2, <1>1, <1>5, <1>6, <1>8
    <3>3. CASE x # p /\ x # q /\ x = next
      <4>1. x \in DOMAIN cs /\ next # None
        BY <3>3, <1>1, <1>6
      <4>2. cs[x].next # None =>
              /\ cs[x].next \in DOMAIN cs /\ cs[cs[x].next].prev = x
              /\ cs[x].next # x /\ cs[x].next # p
        BY <3>3, <4>1, <1>1, <1>2, <1>5, Links
      <4>3. ds[x].next = cs[x].next /\ ds[x].prev = q
        BY <3>3, <4>1, <1>8
      <4>4. cs[x].next # None => ds[cs[x].next] = cs[cs[x].next]
        BY <3>3, <4>2, <1>7
      <4> QED
        BY <4>2, <4>3, <4>4, <3>3, <1>6, <1>8
    <3>4. CASE x # p /\ x # q /\ x # next
      <4>1. x \in DOMAIN cs /\ ds[x] = cs[x]
        BY <3>4, <1>6, <1>7
      <4>2. cs[x].next # p /\ cs[x].next # None =>
              ds[cs[x].next].prev = cs[cs[x].next].prev
        BY <3>4, <4>1, <1>5, <1>7 DEF Tiled
      <4>3. cs[x].prev # p /\ cs[x].prev # None => ds[cs[x].prev].next = cs[cs[x].prev].next
        BY <3>4, <4>1, <1>7, <1>8 DEF Tiled
      <4>4. cs[x].prev # p
        BY <3>4, <4>1, <1>1 DEF Tiled
      <4> QED
        BY <4>1, <4>2, <4>3, <4>4, <1>1, <1>6, <1>8 DEF Tiled
    <3> QED
      BY <3>1, <3>2, <3>3, <3>4, <1>6
  <2>5. \A x, y \in DOMAIN ds : x < y => x + ds[x].size <= y
    <3> SUFFICES ASSUME NEW x \in DOMAIN ds, NEW y \in DOMAIN ds, x < y
                 PROVE  x + ds[x].size <= y
      OBVIOUS
    <3>1. \A z \in DOMAIN cs : cs[z].size \in Nat \ {0} /\ (z # p => ds[z].size = cs[z].size)
      BY <1>1, <1>7, <1>8 DEF Chunk
    <3>2. \A z, w \in DOMAIN cs : z < w => z + cs[z].size <= w
      BY DEF Tiled
    <3> QED
      BY <3>1, <3>2, <1>1, <1>2, <1>3, <1>6, <1>8
  <2> QED
    BY <2>1, <2>2, <2>3, <2>4, <2>5 DEF Tiled
<1> QED
  BY <1>4, <1>6, <1>9, <1>10 DEF ds

(* Merge undoes a cut: the second chunk goes, the first takes its bytes    *)
(* and its place in the list, and nothing else moves.                      *)
LEMMA MergeTiled ==
  ASSUME NEW cs, NEW rs, ChunkMap(cs), RegionMap(rs), Apart(rs), Tiled(cs, rs),
         NEW p \in DOMAIN cs, NEW q \in DOMAIN cs, cs[p].next = q
  PROVE  /\ p # q /\ DOMAIN Merge(cs, p, q) = DOMAIN cs \ {q}
         /\ ChunkMap(Merge(cs, p, q))
         /\ Tiled(Merge(cs, p, q), rs)
<1> DEFINE ds   == Merge(cs, p, q)
           next == cs[q].next
<1>1. /\ p \in Nat /\ q \in Nat /\ None \notin Nat
      /\ cs[p].size \in Nat \ {0} /\ cs[q].size \in Nat \ {0}
      /\ q = p + cs[p].size /\ p < q /\ cs[q].prev = p
      /\ \A x \in DOMAIN cs : x \in Nat /\ cs[x] \in Chunk
  BY Links
<1>2. /\ next \in Nat \cup {None} /\ next # p /\ next # q
      /\ next # None => next \in DOMAIN cs /\ cs[next].prev = q /\ q + cs[q].size = next
  BY <1>1, Links DEF Chunk
<1>3. DOMAIN ds = DOMAIN cs \ {q}
  BY DEF Merge
<1>4. /\ ds[p] = [cs[p] EXCEPT !.size = cs[p].size + cs[q].size, !.next = next]
      /\ next # None => ds[next] = [cs[next] EXCEPT !.prev = p]
      /\ \A x \in DOMAIN cs : x # p /\ x # q /\ x # next => ds[x] = cs[x]
  BY <1>1, <1>2 DEF Merge
<1> HIDE DEF ds
<1>5. /\ ds[p] \in Chunk /\ ds[p].size = cs[p].size + cs[q].size /\ ds[p].next = next
      /\ ds[p].prev = cs[p].prev
      /\ next # None => /\ ds[next] \in Chunk /\ ds[next].size = cs[next].size
                        /\ ds[next].next = cs[next].next /\ ds[next].prev = p
  <2>1. cs[p] \in Chunk /\ cs[p].size + cs[q].size \in Nat \ {0}
    BY <1>1
  <2>2. ds[p] \in Chunk /\ ds[p].size = cs[p].size + cs[q].size /\ ds[p].next = next
        /\ ds[p].prev = cs[p].prev
    BY <1>2, <1>4, <2>1 DEF Chunk
  <2>3. next # None => /\ ds[next] \in Chunk /\ ds[next].size = cs[next].size
                       /\ ds[next].next = cs[next].next /\ ds[next].prev = p
    BY <1>1, <1>2, <1>4 DEF Chunk
  <2> QED
    BY <2>2, <2>3
<1>6. ChunkMap(ds)
  BY <1>1, <1>3, <1>4, <1>5 DEF ChunkMap, PartialFunction
<1>7. Tiled(ds, rs)
  <2>1. \A r \in DOMAIN rs : r \in DOMAIN ds
    <3> SUFFICES ASSUME q \in DOMAIN rs PROVE FALSE
      BY <1>3 DEF Tiled
    <3>1. Within(q, q, rs)
      BY <1>1 DEF Within, RegionMap, PartialFunction
    <3> QED
      BY <3>1, <1>1 DEF Tiled
  <2>2. \A x \in DOMAIN ds : \E r \in DOMAIN rs : Within(x, r, rs)
    BY <1>3 DEF Tiled
  <2>3. ASSUME NEW x \in DOMAIN ds, NEW r \in DOMAIN rs, Within(x, r, rs)
        PROVE  /\ x + ds[x].size <= r + rs[r]
               /\ ds[x].next = IF x + ds[x].size = r + rs[r] THEN None ELSE x + ds[x].size
               /\ ds[x].prev = None <=> x = r
    <3>1. r \in Nat /\ rs[r] \in Nat
      BY DEF RegionMap, PartialFunction
    <3>2. CASE x = p
      <4>1. p + cs[p].size <= r + rs[r] /\ p + cs[p].size # r + rs[r]
        BY <3>2, <1>1, <2>3 DEF Tiled
      <4>2. Within(q, r, rs)
        BY <4>1, <3>1, <3>2, <2>3, <1>1 DEF Within
      <4>3. /\ q + cs[q].size <= r + rs[r]
            /\ next = IF q + cs[q].size = r + rs[r] THEN None ELSE q + cs[q].size
        BY <4>2 DEF Tiled
      <4>4. cs[p].prev = None <=> p = r
        BY <3>2, <2>3 DEF Tiled
      <4> QED
        BY <4>3, <4>4, <3>1, <3>2, <1>1, <1>5
    <3>3. CASE x # p /\ x = next
      <4>1. x \in DOMAIN cs /\ next # None
        BY <3>3, <1>1, <1>3
      <4>2. x # r
        BY <3>3, <4>1, <1>1, <1>2, <2>3 DEF Tiled
      <4> QED
        BY <3>3, <4>1, <4>2, <2>3, <1>1, <1>5 DEF Tiled
    <3>4. CASE x # p /\ x # next
      BY <3>4, <2>3, <1>3, <1>4 DEF Tiled
    <3> QED
      BY <3>2, <3>3, <3>4
  <2>4. ASSUME NEW x \in DOMAIN ds
        PROVE  /\ ds[x].next # None => ds[x].next \in DOMAIN ds /\ ds[ds[x].next].prev = x
               /\ ds[x].prev # None => ds[x].prev \in DOMAIN ds /\ ds[ds[x].prev].next = x
    <3>1. x \in DOMAIN cs /\ x # q
      BY <1>3
    <3>2. CASE x = p
      <4>1. cs[p].prev # None =>
              /\ cs[p].prev \in DOMAIN cs /\ cs[cs[p].prev].next = p
              /\ cs[p].prev # p /\ cs[p].prev # q /\ cs[p].prev # next
        BY <1>1, <1>2, Links
      <4> QED
        BY <3>2, <4>1, <1>1, <1>2, <1>3, <1>4, <1>5
    <3>3. CASE x # p /\ x = next
      <4>1. next # None
        BY <3>1, <3>3, <1>1
      <4>2. cs[x].next # None =>
              /\ cs[x].next \in DOMAIN cs /\ cs[cs[x].next].prev = x
              /\ cs[x].next # x /\ cs[x].next # p /\ cs[x].next # q
        BY <3>1, <3>3, <4>1, <1>1, <1>2, Links
      <4>3. ds[x].next = cs[x].next /\ ds[x].prev = p
        BY <3>3, <4>1, <1>5
      <4>4. cs[x].next # None => ds[cs[x].next] = cs[cs[x].next]
        BY <3>3, <4>2, <1>4
      <4> QED
        BY <4>2, <4>3, <4>4, <3>3, <1>1, <1>3, <1>5
    <3>4. CASE x # p /\ x # next
      <4>1. ds[x] = cs[x]
        BY <3>1, <3>4, <1>4
      <4>2. cs[x].next # q /\ cs[x].prev # q
        BY <3>1, <3>4, <1>1, <1>2 DEF Tiled
      <4>3. cs[x].next # None => cs[x].next # next
        BY <3>1, <3>4, <1>2, <1>1 DEF Tiled
      <4>4. cs[x].next # None =>
              cs[x].next \in DOMAIN ds /\ ds[cs[x].next].prev = cs[cs[x].next].prev
        BY <3>1, <4>2, <4>3, <1>3, <1>4, <1>5 DEF Tiled
      <4>5. cs[x].prev # p
        BY <3>1, <3>4, <1>1 DEF Tiled
      <4>6. cs[x].prev # None =>
              cs[x].prev \in DOMAIN ds /\ ds[cs[x].prev].next = cs[cs[x].prev].next
        BY <3>1, <4>2, <4>5, <1>3, <1>4, <1>5 DEF Tiled
      <4> QED
        BY <3>1, <4>1, <4>4, <4>6 DEF Tiled
    <3> QED
      BY <3>2, <3>3, <3>4
  <2>5. \A x, y \in DOMAIN ds : x < y => x + ds[x].size <= y
    <3> SUFFICES ASSUME NEW x \in DOMAIN ds, NEW y \in DOMAIN ds, x < y
                 PROVE  x + ds[x].size <= y
      OBVIOUS
    <3>1. x \in DOMAIN cs /\ y \in DOMAIN cs /\ y # q /\ x \in Nat /\ y \in Nat
      BY <1>1, <1>3
    <3>2. \A z, w \in DOMAIN cs : z < w => z + cs[z].size <= w
      BY DEF Tiled
    <3>3. CASE x = p
      <4>1. q < y
        BY <3>1, <3>2, <3>3, <1>1
      <4> QED
        BY <4>1, <3>1, <3>2, <3>3, <1>1, <1>5
    <3>4. CASE x # p
      <4>1. ds[x].size = cs[x].size
        BY <3>1, <3>4, <1>1, <1>3, <1>4, <1>5
      <4> QED
        BY <4>1, <3>1, <3>2
    <3> QED
      BY <3>3, <3>4
  <2> QED
    BY <2>1, <2>2, <2>3, <2>4, <2>5 DEF Tiled
<1> QED
  BY <1>1, <1>3, <1>6, <1>7 DEF ds

-----------------------------------------------------------------------------
(* The coalescing walk                                                     *)

(* Every chunk is in the run of exactly one head, a run lies in one        *)
(* region, and it has a last chunk.                                        *)
LEMMA Runs ==
  ASSUME NEW cs, NEW rs, ChunkMap(cs), RegionMap(rs), Apart(rs), Tiled(cs, rs)
  PROVE  /\ \A p \in DOMAIN cs : HeadOf(cs, p) \in Heads(cs) /\ p \in RunOf(cs, HeadOf(cs, p))
         /\ \A h \in Heads(cs) : \A p \in RunOf(cs, h) :
              /\ HeadOf(cs, p) = h
              /\ \A r \in DOMAIN rs : Within(h, r, rs) => Within(p, r, rs)
         /\ \A h \in Heads(cs) : /\ RunEnd(cs, h) \in RunOf(cs, h)
                                 /\ \A p \in RunOf(cs, h) : p <= RunEnd(cs, h)
<1>1. \A x \in DOMAIN cs : x \in Nat
  BY DEF ChunkMap, PartialFunction
<1>2. \A r \in DOMAIN rs : r \in Nat /\ rs[r] \in Nat \ {0} /\ r \in Heads(cs)
  <2> SUFFICES ASSUME NEW r \in DOMAIN rs PROVE r \in Nat /\ rs[r] \in Nat \ {0} /\ r \in Heads(cs)
    OBVIOUS
  <2>1. r \in Nat /\ rs[r] \in Nat \ {0} /\ r \in DOMAIN cs
    BY DEF RegionMap, PartialFunction, Tiled
  <2>2. Within(r, r, rs)
    BY <2>1 DEF Within
  <2>3. cs[r].prev = None
    BY <2>1, <2>2 DEF Tiled
  <2> QED
    BY <2>1, <2>3 DEF Heads, IsHead, Mergeable
<1>3. ASSUME NEW p \in DOMAIN cs, NEW h \in Heads(cs), NEW k \in Heads(cs),
             p \in RunOf(cs, h), p \in RunOf(cs, k)
      PROVE  h = k
  BY <1>1, <1>3 DEF RunOf, Heads
<1>4. ASSUME NEW p \in DOMAIN cs
      PROVE  \E h \in Heads(cs) : p \in RunOf(cs, h)
  <2> DEFINE H == {h \in Heads(cs) : h <= p}
  <2>1. PICK r \in DOMAIN rs : Within(p, r, rs)
    BY DEF Tiled
  <2>2. H \in SUBSET Nat /\ r \in H /\ p \in Nat /\ \A h \in H : h <= p
    BY <1>1, <1>2, <2>1 DEF Heads, Within
  <2>3. Max(H) \in H /\ \A h \in H : h <= Max(H)
    BY <2>2, MaxNat
  <2>4. \A q \in Heads(cs) : q <= Max(H) \/ p < q
    BY <1>1, <2>2, <2>3 DEF Heads
  <2>5. p \in RunOf(cs, Max(H))
    BY <2>3, <2>4 DEF RunOf
  <2> QED
    BY <2>3, <2>5
<1>5. \A p \in DOMAIN cs : HeadOf(cs, p) \in Heads(cs) /\ p \in RunOf(cs, HeadOf(cs, p))
  BY <1>4 DEF HeadOf
<1>6. \A h \in Heads(cs) : \A p \in RunOf(cs, h) : p \in DOMAIN cs /\ h \in DOMAIN cs /\ HeadOf(cs, p) = h
  BY <1>3, <1>5 DEF RunOf, Heads
<1>7. ASSUME NEW h \in Heads(cs), NEW p \in RunOf(cs, h), NEW r \in DOMAIN rs, Within(h, r, rs)
      PROVE  Within(p, r, rs)
  <2>1. PICK t \in DOMAIN rs : Within(p, t, rs)
    BY <1>6 DEF Tiled
  <2>2. h \in Nat /\ p \in Nat /\ h <= p /\ (t <= h \/ p < t)
    BY <1>1, <1>2, <1>6 DEF RunOf
  <2>3. Within(h, t, rs)
    BY <1>2, <2>1, <2>2 DEF Within
  <2> QED
    BY <1>7, <2>1, <2>2, <2>3, OneRegion
<1>8. ASSUME NEW h \in Heads(cs)
      PROVE  RunEnd(cs, h) \in RunOf(cs, h) /\ \A p \in RunOf(cs, h) : p <= RunEnd(cs, h)
  <2>1. h \in DOMAIN cs /\ h \in Nat
    BY <1>1 DEF Heads
  <2>2. h \in RunOf(cs, h) /\ RunOf(cs, h) \in SUBSET Nat
    BY <1>1, <2>1 DEF RunOf, Heads
  <2>3. PICK r \in DOMAIN rs : Within(h, r, rs)
    BY <2>1 DEF Tiled
  <2>4. r + rs[r] \in Nat /\ \A p \in RunOf(cs, h) : p <= r + rs[r]
    BY <1>2, <1>7, <2>2, <2>3 DEF Within
  <2> QED
    BY <2>2, <2>4, MaxNat DEF RunEnd
<1> QED
  BY <1>5, <1>6, <1>7, <1>8

(* The walk of ResetChunksUsingStream leaves every region tiled by the     *)
(* heads, each with the bytes of its run.                                  *)
LEMMA CoalescedTiled ==
  ASSUME NEW cs, NEW rs, ChunkMap(cs), RegionMap(rs), Apart(rs), Tiled(cs, rs)
  PROVE  ChunkMap(Coalesced(cs)) /\ Tiled(Coalesced(cs), rs)
<1> DEFINE ds == Coalesced(cs)
           H  == Heads(cs)
           L(h) == RunEnd(cs, h)
<1>1. \A x \in DOMAIN cs : x \in Nat /\ cs[x] \in Chunk /\ cs[x].size \in Nat \ {0}
  BY DEF ChunkMap, PartialFunction, Chunk
<1>2. DOMAIN ds = H /\ H \subseteq DOMAIN cs /\ None \notin Nat
  BY ArenaAssumption DEF Coalesced, Heads
<1>3. \A h \in H : /\ L(h) \in RunOf(cs, h) /\ L(h) \in DOMAIN cs /\ h <= L(h)
                   /\ HeadOf(cs, L(h)) = h
                   /\ \A p \in RunOf(cs, h) : p <= L(h)
  BY Runs DEF RunOf
<1>4. \A h \in H : /\ ds[h].size = L(h) + cs[L(h)].size - h
                   /\ ds[h].next = cs[L(h)].next
                   /\ ds[h].prev = IF cs[h].prev = None THEN None ELSE HeadOf(cs, cs[h].prev)
                   /\ ds[h] \in Chunk
  <2> SUFFICES ASSUME NEW h \in H
               PROVE  /\ ds[h].size = L(h) + cs[L(h)].size - h
                      /\ ds[h].next = cs[L(h)].next
                      /\ ds[h].prev = IF cs[h].prev = None THEN None ELSE HeadOf(cs, cs[h].prev)
                      /\ ds[h] \in Chunk
    BY Zenon
  <2> DEFINE size == L(h) + cs[L(h)].size - h
             bin  == IF cs[h].inUse THEN None ELSE BinNumForSize(size)
             prev == IF cs[h].prev = None THEN None ELSE HeadOf(cs, cs[h].prev)
             next == cs[L(h)].next
  <2>1. ds[h] = [cs[h] EXCEPT !.size = size, !.bin = bin, !.next = next, !.prev = prev]
    BY DEF Coalesced
  <2>2. size \in Nat \ {0}
    BY <1>1, <1>2, <1>3
  <2>3. bin \in Bin \cup {None}
    BY BinIndex
  <2>4. next \in Nat \cup {None}
    BY <1>1, <1>3 DEF Chunk
  <2>5. prev \in Nat \cup {None}
    <3>1. cs[h].prev # None => cs[h].prev \in DOMAIN cs
      BY <1>2 DEF Tiled
    <3> QED
      BY <3>1, <1>1, <1>2, Runs
  <2>6. cs[h] \in Chunk
    BY <1>1, <1>2
  <2> HIDE DEF size, bin, prev, next, ds
  <2>7. ds[h] \in Chunk /\ ds[h].size = size /\ ds[h].next = next /\ ds[h].prev = prev
    BY <2>1, <2>2, <2>3, <2>4, <2>5, <2>6 DEF Chunk
  <2> QED
    BY <2>7 DEF size, next, prev
<1> HIDE DEF ds
<1>5. ASSUME NEW h \in H, cs[L(h)].next # None PROVE cs[L(h)].next \in H
  <2> DEFINE n == cs[L(h)].next
  <2>1. n \in DOMAIN cs /\ n = L(h) + cs[L(h)].size /\ L(h) < n
    BY <1>3, <1>5, Links
  <2>2. SUFFICES ASSUME n \notin H PROVE FALSE
    OBVIOUS
  <2>3. ASSUME NEW q \in H PROVE q <= h \/ n < q
    <3>1. q <= h \/ L(h) < q
      BY <1>3 DEF RunOf
    <3>2. L(h) < q => n <= q
      BY <1>2, <1>3, <2>1 DEF Tiled
    <3> QED
      BY <3>1, <3>2, <2>1, <2>2, <1>1, <1>2
  <2>4. n \in RunOf(cs, h)
    BY <2>1, <2>3, <1>1, <1>2, <1>3 DEF RunOf
  <2> QED
    BY <2>1, <2>4, <1>1, <1>3
<1>6. ASSUME NEW h \in H, cs[h].prev # None
      PROVE  cs[h].prev \in DOMAIN cs /\ L(HeadOf(cs, cs[h].prev)) = cs[h].prev
  <2> DEFINE u == cs[h].prev
             k == HeadOf(cs, u)
  <2>1. u \in DOMAIN cs /\ h = u + cs[u].size /\ u < h
    BY <1>2, <1>6, Links
  <2>2. k \in H /\ u \in RunOf(cs, k) /\ k <= u /\ k \in Nat /\ u \in Nat
    BY <2>1, <1>1, Runs DEF RunOf, Heads
  <2>3. L(k) \in RunOf(cs, k) /\ u <= L(k) /\ L(k) \in DOMAIN cs
    BY <1>3, <2>2
  <2>4. h <= k \/ L(k) < h
    BY <2>3 DEF RunOf
  <2>5. u < L(k) => h <= L(k)
    BY <2>1, <2>3 DEF Tiled
  <2> QED
    BY <2>1, <2>2, <2>3, <2>4, <2>5, <1>1, <1>2
<1>7. ChunkMap(ds)
  BY <1>1, <1>2, <1>4 DEF ChunkMap, PartialFunction
<1>8. \A r \in DOMAIN rs : r \in H /\ r \in Nat /\ rs[r] \in Nat \ {0}
  <2> SUFFICES ASSUME NEW r \in DOMAIN rs PROVE r \in H /\ r \in Nat /\ rs[r] \in Nat \ {0}
    OBVIOUS
  <2>1. r \in DOMAIN cs /\ r \in Nat /\ rs[r] \in Nat \ {0}
    BY DEF Tiled, RegionMap, PartialFunction
  <2>2. Within(r, r, rs)
    BY <2>1 DEF Within
  <2> QED
    BY <2>1, <2>2 DEF Tiled, Heads, IsHead, Mergeable
<1>9. Tiled(ds, rs)
  <2>1. \A r \in DOMAIN rs : r \in DOMAIN ds
    BY <1>2, <1>8
  <2>2. \A x \in DOMAIN ds : \E r \in DOMAIN rs : Within(x, r, rs)
    BY <1>2 DEF Tiled
  <2>3. ASSUME NEW x \in DOMAIN ds, NEW r \in DOMAIN rs, Within(x, r, rs)
        PROVE  /\ x + ds[x].size <= r + rs[r]
               /\ ds[x].next = IF x + ds[x].size = r + rs[r] THEN None ELSE x + ds[x].size
               /\ ds[x].prev = None <=> x = r
    <3>1. x \in H /\ L(x) \in DOMAIN cs /\ Within(L(x), r, rs)
      BY <1>2, <1>3, <2>3, Runs
    <3>2. x + ds[x].size = L(x) + cs[L(x)].size
      BY <1>1, <1>2, <1>4, <3>1
    <3>3. ds[x].prev = None <=> cs[x].prev = None
      <4>1. cs[x].prev # None => HeadOf(cs, cs[x].prev) \in Nat
        BY <1>1, <1>2, <1>6, <3>1, Runs
      <4> QED
        BY <4>1, <1>2, <1>4, <3>1
    <3>4. cs[x].prev = None <=> x = r
      BY <3>1, <1>2, <2>3 DEF Tiled
    <3>5. /\ L(x) + cs[L(x)].size <= r + rs[r]
          /\ cs[L(x)].next = IF L(x) + cs[L(x)].size = r + rs[r] THEN None ELSE L(x) + cs[L(x)].size
      BY <3>1 DEF Tiled
    <3>6. ds[x].next = cs[L(x)].next
      BY <1>4, <3>1
    <3> QED
      BY <3>2, <3>3, <3>4, <3>5, <3>6
  <2>4. ASSUME NEW x \in DOMAIN ds
        PROVE  /\ ds[x].next # None => ds[x].next \in DOMAIN ds /\ ds[ds[x].next].prev = x
               /\ ds[x].prev # None => ds[x].prev \in DOMAIN ds /\ ds[ds[x].prev].next = x
    <3>1. x \in H /\ ds[x].next = cs[L(x)].next /\ L(x) \in DOMAIN cs /\ HeadOf(cs, L(x)) = x
      BY <1>2, <1>3, <1>4
    <3>2. ASSUME ds[x].next # None PROVE ds[x].next \in DOMAIN ds /\ ds[ds[x].next].prev = x
      <4>1. ds[x].next \in H /\ cs[ds[x].next].prev = L(x)
        BY <3>1, <3>2, <1>5, Links
      <4>2. L(x) # None
        BY <3>1, <1>1, <1>2
      <4> QED
        BY <4>1, <4>2, <3>1, <1>2, <1>4
    <3>3. ASSUME ds[x].prev # None PROVE ds[x].prev \in DOMAIN ds /\ ds[ds[x].prev].next = x
      <4> DEFINE u == cs[x].prev
      <4>1. u # None /\ ds[x].prev = HeadOf(cs, u)
        BY <3>1, <3>3, <1>4
      <4>2. u \in DOMAIN cs /\ L(HeadOf(cs, u)) = u /\ cs[u].next = x
        BY <3>1, <4>1, <1>2, <1>6, Links
      <4>3. HeadOf(cs, u) \in H
        BY <4>2, Runs
      <4> QED
        BY <4>1, <4>2, <4>3, <1>2, <1>4
    <3> QED
      BY <3>2, <3>3
  <2>5. ASSUME NEW x \in DOMAIN ds, NEW y \in DOMAIN ds, x < y PROVE x + ds[x].size <= y
    <3>1. x \in H /\ y \in H /\ x \in Nat /\ y \in Nat /\ y \in DOMAIN cs /\ L(x) \in DOMAIN cs
      BY <1>1, <1>2, <1>3
    <3>2. L(x) < y
      BY <3>1, <2>5, <1>3 DEF RunOf
    <3>3. L(x) + cs[L(x)].size <= y
      BY <3>1, <3>2 DEF Tiled
    <3> QED
      BY <3>1, <3>3, <1>1, <1>4
  <2> QED
    BY <2>1, <2>2, <2>3, <2>4, <2>5 DEF Tiled
<1> QED
  BY <1>7, <1>9 DEF ds

(* What the walk makes of the other fields of a head.                      *)
Walked(cs, ds) ==
  /\ DOMAIN ds = Heads(cs)
  /\ \A h \in Heads(cs) :
       /\ ds[h].inUse = cs[h].inUse /\ ds[h].stream = cs[h].stream
       /\ ds[h].bin = IF ds[h].inUse THEN None ELSE BinNumForSize(ds[h].size)

(* What the walk leaves of a chunk that stays, field by field.             *)
LEMMA CoalescedFields ==
  ASSUME NEW cs, ChunkMap(cs)
  PROVE  Walked(cs, Coalesced(cs))
<1> DEFINE ds == Coalesced(cs)
<1>1. ASSUME NEW h \in Heads(cs)
      PROVE  /\ ds[h].inUse = cs[h].inUse /\ ds[h].stream = cs[h].stream
             /\ ds[h].bin = IF ds[h].inUse THEN None ELSE BinNumForSize(ds[h].size)
  <2> DEFINE size == RunEnd(cs, h) + cs[RunEnd(cs, h)].size - h
             bin  == IF cs[h].inUse THEN None ELSE BinNumForSize(size)
             next == cs[RunEnd(cs, h)].next
             prev == IF cs[h].prev = None THEN None ELSE HeadOf(cs, cs[h].prev)
  <2>1. ds[h] = [cs[h] EXCEPT !.size = size, !.bin = bin, !.next = next, !.prev = prev]
    BY DEF Coalesced
  <2>2. cs[h] \in Chunk
    BY DEF ChunkMap, PartialFunction, Heads
  <2> HIDE DEF size, bin, next, prev, ds
  <2>3. /\ ds[h].inUse = cs[h].inUse /\ ds[h].stream = cs[h].stream
        /\ ds[h].size = size /\ ds[h].bin = bin
    BY <2>1, <2>2 DEF Chunk
  <2> QED
    BY <2>3 DEF bin
<1>2. DOMAIN ds = Heads(cs)
  BY DEF Coalesced
<1> QED
  BY <1>1, <1>2 DEF Walked

(* A chunk in use merges with nothing.                                     *)
KeepsInUse(cs, ds) ==
  \A x \in DOMAIN cs : cs[x].inUse =>
    x \in DOMAIN ds /\ ds[x].inUse /\ ds[x].size = cs[x].size

(* The walk leaves a chunk in use as it is.                                *)
LEMMA CoalescedInUse ==
  ASSUME NEW cs, NEW rs, ChunkMap(cs), RegionMap(rs), Apart(rs), Tiled(cs, rs)
  PROVE  KeepsInUse(cs, Coalesced(cs))
<1> DEFINE ds == Coalesced(cs)
<1> SUFFICES ASSUME NEW x \in DOMAIN cs, cs[x].inUse
             PROVE  x \in DOMAIN ds /\ ds[x].inUse /\ ds[x].size = cs[x].size
  BY DEF KeepsInUse
<1>1. x \in Heads(cs)
  BY DEF Heads, IsHead, Mergeable
<1>2. x \in DOMAIN ds /\ ds[x].inUse
  BY <1>1, CoalescedFields DEF Walked
<1> DEFINE l == RunEnd(cs, x)
<1>3. /\ l \in RunOf(cs, x) /\ l \in DOMAIN cs /\ x <= l
      /\ \A r \in DOMAIN rs : Within(x, r, rs) => Within(l, r, rs)
  BY <1>1, Runs DEF RunOf
<1>4. /\ x \in Nat /\ l \in Nat /\ cs[x].size \in Nat \ {0}
      /\ cs[x].next # None => /\ cs[x].next \in DOMAIN cs /\ cs[cs[x].next].prev = x
                              /\ cs[x].next = x + cs[x].size
  BY <1>3, Links
<1>5. l = x
  <2> SUFFICES ASSUME x < l PROVE FALSE
    BY <1>3, <1>4
  <2>1. x + cs[x].size <= l
    BY <1>3 DEF Tiled
  <2>2. PICK r \in DOMAIN rs : Within(x, r, rs)
    BY DEF Tiled
  <2>3. l < r + rs[r] /\ r \in Nat /\ rs[r] \in Nat
    BY <1>3, <2>2 DEF Within, RegionMap, PartialFunction
  <2>4. cs[x].next # None
    <3>1. cs[x].next = IF x + cs[x].size = r + rs[r] THEN None ELSE x + cs[x].size
      BY <2>2 DEF Tiled
    <3> QED
      BY <3>1, <2>1, <2>3, <1>4, ArenaAssumption
  <2>5. cs[x].next \in Heads(cs)
    BY <1>4, <2>4 DEF Heads, IsHead, Mergeable
  <2>6. cs[x].next <= x \/ l < cs[x].next
    BY <1>3, <2>5 DEF RunOf
  <2> QED
    BY <1>4, <2>1, <2>4, <2>6
<1>6. ds[x].size = l + cs[l].size - x
  <2> DEFINE bin  == IF cs[x].inUse THEN None ELSE BinNumForSize(l + cs[l].size - x)
             prev == IF cs[x].prev = None THEN None ELSE HeadOf(cs, cs[x].prev)
  <2>1. ds[x] = [cs[x] EXCEPT !.size = l + cs[l].size - x, !.bin = bin,
                              !.next = cs[l].next, !.prev = prev]
    BY <1>1 DEF Coalesced
  <2>2. cs[x] \in Chunk
    BY DEF ChunkMap, PartialFunction
  <2> HIDE DEF ds, bin, prev, l
  <2> QED
    BY <2>1, <2>2 DEF Chunk
<1> QED
  BY <1>2, <1>4, <1>5, <1>6

-----------------------------------------------------------------------------
(* Regions                                                                 *)

(* The tiling is a matter of sizes and links alone.                        *)
LEMMA SameShape ==
  ASSUME NEW cs, NEW ds, NEW rs, Tiled(cs, rs), DOMAIN ds = DOMAIN cs,
         \A x \in DOMAIN cs : /\ ds[x].size = cs[x].size
                             /\ ds[x].next = cs[x].next /\ ds[x].prev = cs[x].prev
  PROVE  Tiled(ds, rs)
BY DEF Tiled

(* What the device promises of the memory it returns: it is in no region.  *)
FreshAt(rs, b, n) == \A r \in DOMAIN rs : b + n <= r \/ r + rs[r] <= b

(* A new region, apart from the others, is one free chunk.                 *)
LEMMA RegionAdded ==
  ASSUME NEW cs, NEW rs, ChunkMap(cs), RegionMap(rs), Apart(rs), Tiled(cs, rs),
         NEW b \in Nat, NEW n \in Nat \ {0},
         FreshAt(rs, b, n),
         NEW ds, ds = [x \in DOMAIN cs \cup {b} |-> IF x = b THEN FreeChunk(n) ELSE cs[x]],
         NEW ts, ts = [r \in DOMAIN rs \cup {b} |-> IF r = b THEN n ELSE rs[r]]
  PROVE  /\ b \notin DOMAIN cs
         /\ ChunkMap(ds) /\ RegionMap(ts) /\ Apart(ts) /\ Tiled(ds, ts)
<1>1. /\ \A x \in DOMAIN cs : x \in Nat /\ cs[x] \in Chunk /\ cs[x].size \in Nat \ {0}
      /\ \A r \in DOMAIN rs : r \in Nat /\ rs[r] \in Nat \ {0}
  BY DEF ChunkMap, RegionMap, PartialFunction, Chunk
<1>2. ASSUME NEW x \in DOMAIN cs PROVE x + cs[x].size <= b \/ b + n <= x
  <2>1. PICK r \in DOMAIN rs : Within(x, r, rs)
    BY DEF Tiled
  <2>2. r <= x /\ x + cs[x].size <= r + rs[r]
    BY <2>1 DEF Tiled, Within
  <2> QED
    BY <2>2, <1>1 DEF FreshAt
<1>3. b \notin DOMAIN cs
  BY <1>1, <1>2
<1>4. /\ DOMAIN ds = DOMAIN cs \cup {b} /\ ds[b] = FreeChunk(n)
      /\ \A x \in DOMAIN cs : ds[x] = cs[x]
      /\ DOMAIN ts = DOMAIN rs \cup {b} /\ ts[b] = n /\ \A r \in DOMAIN rs : ts[r] = rs[r]
      /\ FreeChunk(n) \in Chunk
  BY <1>3, FreeChunkType DEF Tiled
<1>5. ds[b].size = n /\ ds[b].next = None /\ ds[b].prev = None
  BY <1>4 DEF FreeChunk
<1>6. ChunkMap(ds) /\ RegionMap(ts) /\ Apart(ts)
  BY <1>1, <1>4 DEF ChunkMap, RegionMap, PartialFunction, Apart, FreshAt
<1>7. Tiled(ds, ts)
  <2>1. \A r \in DOMAIN ts : r \in DOMAIN ds
    BY <1>4 DEF Tiled
  <2>2. ASSUME NEW x \in DOMAIN ds PROVE \E r \in DOMAIN ts : Within(x, r, ts)
    <3>1. CASE x = b
      BY <3>1, <1>4 DEF Within
    <3>2. CASE x # b
      <4>1. PICK r \in DOMAIN rs : Within(x, r, rs)
        BY <3>2, <1>4 DEF Tiled
      <4> QED
        BY <4>1, <1>4 DEF Within
    <3> QED
      BY <3>1, <3>2
  <2>3. ASSUME NEW x \in DOMAIN ds, NEW r \in DOMAIN ts, Within(x, r, ts)
        PROVE  /\ x + ds[x].size <= r + ts[r]
               /\ ds[x].next = IF x + ds[x].size = r + ts[r] THEN None ELSE x + ds[x].size
               /\ ds[x].prev = None <=> x = r
    <3>1. CASE x = b /\ r = b
      BY <3>1, <1>4, <1>5
    <3>2. CASE x = b /\ r # b
      BY <3>2, <2>3, <1>1, <1>4 DEF Within, FreshAt
    <3>3. CASE x # b /\ r = b
      BY <3>3, <2>3, <1>1, <1>2, <1>4 DEF Within
    <3>4. CASE x # b /\ r # b
      <4>1. x \in DOMAIN cs /\ r \in DOMAIN rs /\ ds[x] = cs[x] /\ ts[r] = rs[r]
        BY <3>4, <1>4
      <4>2. Within(x, r, rs)
        BY <4>1, <2>3 DEF Within
      <4> QED
        BY <4>1, <4>2 DEF Tiled
    <3> QED
      BY <3>1, <3>2, <3>3, <3>4
  <2>4. ASSUME NEW x \in DOMAIN ds
        PROVE  /\ ds[x].next # None => ds[x].next \in DOMAIN ds /\ ds[ds[x].next].prev = x
               /\ ds[x].prev # None => ds[x].prev \in DOMAIN ds /\ ds[ds[x].prev].next = x
    BY <1>4, <1>5 DEF Tiled
  <2>5. \A x, y \in DOMAIN ds : x < y => x + ds[x].size <= y
    <3>1. \A x, y \in DOMAIN cs : x < y => x + cs[x].size <= y
      BY DEF Tiled
    <3> QED
      BY <3>1, <1>1, <1>2, <1>4, <1>5
  <2> QED
    BY <2>1, <2>2, <2>3, <2>4, <2>5 DEF Tiled
<1> QED
  BY <1>3, <1>6, <1>7

(* Giving back whole regions leaves the others as they are.                *)
LEMMA RegionsDropped ==
  ASSUME NEW cs, NEW rs, ChunkMap(cs), RegionMap(rs), Apart(rs), Tiled(cs, rs),
         NEW gone \in SUBSET DOMAIN rs,
         NEW dead, dead = {x \in DOMAIN cs : \E r \in gone : Within(x, r, rs)},
         NEW ds, ds = Restrict(cs, DOMAIN cs \ dead),
         NEW ts, ts = Restrict(rs, DOMAIN rs \ gone)
  PROVE  ChunkMap(ds) /\ RegionMap(ts) /\ Apart(ts) /\ Tiled(ds, ts)
<1>1. /\ \A x \in DOMAIN cs : x \in Nat /\ cs[x] \in Chunk /\ cs[x].size \in Nat \ {0}
      /\ \A r \in DOMAIN rs : r \in Nat /\ rs[r] \in Nat \ {0}
  BY DEF ChunkMap, RegionMap, PartialFunction, Chunk
<1>2. /\ DOMAIN ds = DOMAIN cs \ dead /\ \A x \in DOMAIN ds : ds[x] = cs[x]
      /\ DOMAIN ts = DOMAIN rs \ gone /\ \A r \in DOMAIN ts : ts[r] = rs[r]
  BY DEF Restrict
<1>3. ChunkMap(ds) /\ RegionMap(ts) /\ Apart(ts)
  BY <1>1, <1>2 DEF ChunkMap, RegionMap, PartialFunction, Apart
<1>4. ASSUME NEW x \in DOMAIN cs, NEW y \in DOMAIN cs, cs[x].next = y \/ cs[y].next = x,
             x \notin dead
      PROVE  y \notin dead
  <2>1. ASSUME NEW a \in DOMAIN cs, NEW c \in DOMAIN cs, cs[a].next = c,
               NEW r \in DOMAIN rs
        PROVE  Within(a, r, rs) <=> Within(c, r, rs)
    <3>1. PICK t \in DOMAIN rs : Within(a, t, rs)
      BY DEF Tiled
    <3>2. c # None /\ c = a + cs[a].size /\ a < c
      BY <2>1, <1>1, ArenaAssumption, Links
    <3>3. Within(c, t, rs)
      <4>1. a + cs[a].size <= t + rs[t] /\ a + cs[a].size # t + rs[t]
        BY <3>1, <3>2, <2>1 DEF Tiled
      <4> QED
        BY <4>1, <3>1, <3>2, <1>1 DEF Within
    <3> QED
      BY <3>1, <3>3, <1>1, OneRegion
  <2> QED
    BY <2>1, <1>4
<1>5. Tiled(ds, ts)
  <2>1. ASSUME NEW r \in DOMAIN ts PROVE r \in DOMAIN ds
    <3>1. r \in DOMAIN rs /\ r \notin gone /\ r \in DOMAIN cs /\ Within(r, r, rs)
      BY <1>1, <1>2 DEF Tiled, Within
    <3>2. r \notin dead
      BY <3>1, <1>1, OneRegion
    <3> QED
      BY <3>1, <3>2, <1>2
  <2>2. ASSUME NEW x \in DOMAIN ds PROVE \E r \in DOMAIN ts : Within(x, r, ts)
    <3>1. PICK r \in DOMAIN rs : Within(x, r, rs)
      BY <1>2 DEF Tiled
    <3> QED
      BY <3>1, <1>2 DEF Within
  <2>3. ASSUME NEW x \in DOMAIN ds, NEW r \in DOMAIN ts, Within(x, r, ts)
        PROVE  /\ x + ds[x].size <= r + ts[r]
               /\ ds[x].next = IF x + ds[x].size = r + ts[r] THEN None ELSE x + ds[x].size
               /\ ds[x].prev = None <=> x = r
    <3>1. x \in DOMAIN cs /\ r \in DOMAIN rs /\ ds[x] = cs[x] /\ ts[r] = rs[r]
      BY <1>2
    <3>2. Within(x, r, rs)
      BY <3>1, <2>3 DEF Within
    <3> QED
      BY <3>1, <3>2 DEF Tiled
  <2>4. ASSUME NEW x \in DOMAIN ds
        PROVE  /\ ds[x].next # None => ds[x].next \in DOMAIN ds /\ ds[ds[x].next].prev = x
               /\ ds[x].prev # None => ds[x].prev \in DOMAIN ds /\ ds[ds[x].prev].next = x
    <3>1. x \in DOMAIN cs /\ x \notin dead /\ ds[x] = cs[x]
      BY <1>2
    <3>2. cs[x].next # None => cs[x].next \in DOMAIN ds /\ cs[cs[x].next].prev = x
      BY <3>1, <1>2, <1>4, Links
    <3>3. cs[x].prev # None => cs[x].prev \in DOMAIN ds /\ cs[cs[x].prev].next = x
      BY <3>1, <1>2, <1>4, Links
    <3> QED
      BY <3>1, <3>2, <3>3, <1>2
  <2>5. \A x, y \in DOMAIN ds : x < y => x + ds[x].size <= y
    BY <1>2 DEF Tiled
  <2> QED
    BY <2>1, <2>2, <2>3, <2>4, <2>5 DEF Tiled
<1> QED
  BY <1>3, <1>5

-----------------------------------------------------------------------------
(* Bins                                                                    *)

(* The bins hold addresses.                                                *)
BinMap(bs) == bs \in [Bin -> SUBSET Nat]

(* As Binned, but for chunk p: it is free, and in no bin.                  *)
BinnedBut(cs, bs, p) ==
  /\ p \in DOMAIN cs /\ ~cs[p].inUse
  /\ \A x \in DOMAIN cs \ {p} :
       cs[x].bin = IF cs[x].inUse THEN None ELSE BinNumForSize(cs[x].size)
  /\ \A b \in Bin : bs[b] = {x \in DOMAIN cs \ {p} : cs[x].bin = b}

(* What a merge of q into p keeps of the chunks' fields.                   *)
Kept(cs, ds, p, q) ==
  /\ \A z \in DOMAIN cs \ {q} : ds[z].inUse = cs[z].inUse /\ ds[z].stream = cs[z].stream
  /\ ds[p].prev = cs[p].prev
  /\ \A z \in DOMAIN cs \ {p, q} : ds[z].size = cs[z].size /\ ds[z].bin = cs[z].bin

(* What a merge leaves of each chunk, field by field.                      *)
LEMMA MergeFields ==
  ASSUME NEW cs, NEW rs, ChunkMap(cs), Tiled(cs, rs),
         NEW p \in DOMAIN cs, NEW q \in DOMAIN cs, cs[p].next = q
  PROVE  DOMAIN Merge(cs, p, q) = DOMAIN cs \ {q} /\ Kept(cs, Merge(cs, p, q), p, q)
<1> DEFINE ds == Merge(cs, p, q)
<1>1. p # q /\ \A z \in DOMAIN cs : cs[z] \in Chunk
  BY Links
<1>2. DOMAIN ds = DOMAIN cs \ {q}
  BY DEF Merge
<1>3. ds[p] = [cs[p] EXCEPT !.size = @ + cs[q].size, !.next = cs[q].next]
  BY <1>1 DEF Merge
<1>4. \A z \in DOMAIN cs \ {p, q} : ds[z] = cs[z] \/ ds[z] = [cs[z] EXCEPT !.prev = p]
  BY <1>1 DEF Merge
<1> HIDE DEF ds
<1>5. ds[p].inUse = cs[p].inUse /\ ds[p].stream = cs[p].stream /\ ds[p].prev = cs[p].prev
  BY <1>1, <1>3 DEF Chunk
<1>6. ASSUME NEW z \in DOMAIN cs \ {p, q}
      PROVE  /\ ds[z].inUse = cs[z].inUse /\ ds[z].stream = cs[z].stream
             /\ ds[z].size = cs[z].size /\ ds[z].bin = cs[z].bin
  <2> DEFINE c == [cs[z] EXCEPT !.prev = p]
  <2>1. /\ c.inUse = cs[z].inUse /\ c.stream = cs[z].stream
        /\ c.size = cs[z].size /\ c.bin = cs[z].bin
    BY <1>1 DEF Chunk
  <2>2. ds[z] = cs[z] \/ ds[z] = c
    BY <1>4
  <2> HIDE DEF c
  <2> QED
    BY <2>1, <2>2
<1> QED
  BY <1>2, <1>5, <1>6 DEF ds, Kept

(* Of two neighbours, one is loose and the other in its bin; when that one *)
(* leaves its bin and they are merged, what results is loose.              *)
LEMMA MergeBinned ==
  ASSUME NEW cs, NEW bs, NEW rs, ChunkMap(cs), BinMap(bs), Tiled(cs, rs),
         NEW p \in DOMAIN cs, NEW q \in DOMAIN cs, cs[p].next = q,
         NEW x, NEW y, (x = p /\ y = q) \/ (x = q /\ y = p),
         BinnedBut(cs, bs, x), ~cs[y].inUse
  PROVE  /\ BinMap(RemoveFromBin(bs, y, cs[y].bin))
         /\ BinnedBut(Merge(cs, p, q), RemoveFromBin(bs, y, cs[y].bin), p)
<1> DEFINE ds == Merge(cs, p, q)
           ts == RemoveFromBin(bs, y, cs[y].bin)
<1>1. p # q /\ x # y /\ cs[p] \in Chunk
  BY Links
<1>2. cs[y].bin \in Bin
  BY <1>1, BinIndex DEF BinnedBut
<1>3. /\ BinMap(ts)
      /\ \A b \in Bin : ts[b] = IF b = cs[y].bin THEN bs[b] \ {y} ELSE bs[b]
  BY <1>2 DEF BinMap, RemoveFromBin
<1>4. /\ DOMAIN ds = DOMAIN cs \ {q}
      /\ ds[p].inUse = cs[p].inUse
      /\ \A z \in DOMAIN cs \ {p, q} : /\ ds[z].inUse = cs[z].inUse /\ ds[z].size = cs[z].size
                                       /\ ds[z].bin = cs[z].bin
  <2>1. DOMAIN ds = DOMAIN cs \ {q} /\ Kept(cs, ds, p, q)
    BY MergeFields
  <2> HIDE DEF ds
  <2> QED
    BY <1>1, <2>1 DEF Kept
<1> HIDE DEF ds, ts
<1>5. \A z \in DOMAIN ds \ {p} :
        ds[z].bin = IF ds[z].inUse THEN None ELSE BinNumForSize(ds[z].size)
  <2>1. \A z \in DOMAIN ds \ {p} : z \in DOMAIN cs \ {p, q} /\ z \in DOMAIN cs \ {x}
    BY <1>4
  <2> QED
    BY <2>1, <1>4 DEF BinnedBut
<1>6. \A b \in Bin : ts[b] = {z \in DOMAIN ds \ {p} : ds[z].bin = b}
  <2> SUFFICES ASSUME NEW b \in Bin, NEW z
               PROVE  z \in ts[b] <=> z \in DOMAIN ds \ {p} /\ ds[z].bin = b
    BY <1>3 DEF BinMap
  <2>1. z \in bs[b] <=> z \in DOMAIN cs \ {x} /\ cs[z].bin = b
    BY DEF BinnedBut
  <2>2. z \in ts[b] <=> z \in bs[b] /\ z # y
    BY <1>3, <2>1
  <2>3. z \in DOMAIN ds \ {p} <=> z \in DOMAIN cs \ {x} /\ z # y
    BY <1>4
  <2> QED
    BY <2>1, <2>2, <2>3, <1>4
<1>7. p \in DOMAIN ds /\ ~ds[p].inUse
  BY <1>1, <1>4 DEF BinnedBut
<1> QED
  BY <1>3, <1>5, <1>6, <1>7 DEF BinnedBut, ds, ts

(* A loose chunk that goes into the bin of its size completes the bins.    *)
LEMMA InsertBinned ==
  ASSUME NEW cs, NEW bs, NEW p, ChunkMap(cs), BinMap(bs), BinnedBut(cs, bs, p),
         NEW b, b = BinNumForSize(cs[p].size),
         NEW ds, ds = [cs EXCEPT ![p].bin = b]
  PROVE  Binned(ds, InsertInBin(bs, p, b)) /\ BinMap(InsertInBin(bs, p, b)) /\ ChunkMap(ds)
<1> DEFINE ts == InsertInBin(bs, p, b)
<1>1. /\ p \in DOMAIN cs /\ p \in Nat /\ cs[p] \in Chunk /\ ~cs[p].inUse
      /\ \A x \in DOMAIN cs : x \in Nat /\ cs[x] \in Chunk
  BY DEF BinnedBut, ChunkMap, PartialFunction
<1>2. b \in Bin
  BY BinIndex
<1>3. /\ DOMAIN ds = DOMAIN cs /\ ds[p] = [cs[p] EXCEPT !.bin = b]
      /\ \A x \in DOMAIN cs \ {p} : ds[x] = cs[x]
  BY <1>1
<1>4. ds[p] \in Chunk /\ ds[p].bin = b /\ ds[p].size = cs[p].size /\ ds[p].inUse = cs[p].inUse
  BY <1>1, <1>2, <1>3 DEF Chunk
<1>5. /\ BinMap(ts)
      /\ \A c \in Bin : ts[c] = IF c = b THEN bs[c] \cup {p} ELSE bs[c]
  BY <1>1, <1>2 DEF BinMap, InsertInBin
<1> HIDE DEF ts
<1>6. ChunkMap(ds)
  BY <1>1, <1>3, <1>4 DEF ChunkMap, PartialFunction
<1>7. Binned(ds, ts)
  <2>1. \A x \in DOMAIN ds :
          ds[x].bin = IF ds[x].inUse THEN None ELSE BinNumForSize(ds[x].size)
    BY <1>1, <1>3, <1>4 DEF BinnedBut
  <2>2. \A c \in Bin : ts[c] = {x \in DOMAIN ds : ds[x].bin = c}
    <3> SUFFICES ASSUME NEW c \in Bin, NEW z
                 PROVE  z \in ts[c] <=> z \in DOMAIN ds /\ ds[z].bin = c
      BY <1>5 DEF BinMap
    <3>1. z \in bs[c] <=> z \in DOMAIN cs \ {p} /\ cs[z].bin = c
      BY DEF BinnedBut
    <3>2. CASE z = p
      BY <3>1, <3>2, <1>1, <1>3, <1>4, <1>5
    <3>3. CASE z # p
      <4>1. z \in ts[c] <=> z \in bs[c]
        BY <3>3, <1>5
      <4>2. z \in DOMAIN cs => ds[z] = cs[z]
        BY <3>3, <1>3
      <4> QED
        BY <3>1, <3>3, <4>1, <4>2, <1>3
    <3> QED
      BY <3>2, <3>3
  <2> QED
    BY <2>1, <2>2 DEF Binned
<1> QED
  BY <1>5, <1>6, <1>7 DEF ts

-----------------------------------------------------------------------------
(* The ownership index                                                     *)

(* The two maps of the index have their types.                             *)
OwnerMaps(ow, so) ==
  PartialFunction(ow, Stream, SUBSET Nat) /\ PartialFunction(so, Impl, Stream)

(* The chunks that are stream s's.                                         *)
OwnedIn(cs, s) == {x \in DOMAIN cs : cs[x].stream = s}

(* Taking the chunks of D from their owners leaves an index that agrees    *)
(* with a map where those chunks are nobody's, or gone.                    *)
LEMMA DisownIndexed ==
  ASSUME NEW cs, Indexed(cs, owned, streamOf, impl), OwnerMaps(owned, streamOf),
         NEW D, Disown(cs, D), NEW ds, ChunkMap(ds),
         \A s \in Stream : OwnedIn(ds, s) = OwnedIn(cs, s) \ D
  PROVE  Indexed(ds, owned', streamOf', impl) /\ OwnerMaps(owned', streamOf')
<1>0. /\ \A x \in DOMAIN ds : ds[x].stream \in Stream \cup {None}
      /\ \A s \in Stream : \A x :
           (x \in DOMAIN ds /\ ds[x].stream = s) <=> (x \in DOMAIN cs /\ cs[x].stream = s /\ x \notin D)
  <2>1. \A s \in Stream : \A x : x \in OwnedIn(ds, s) <=> x \in OwnedIn(cs, s) /\ x \notin D
    OBVIOUS
  <2> QED
    BY <2>1 DEF OwnedIn, ChunkMap, PartialFunction, Chunk
<1> DEFINE left == [s \in DOMAIN owned |-> {p \in owned[s] : ~(p \in D /\ cs[p].stream = s)}]
<1>1. /\ owned' = Restrict(left, {s \in DOMAIN owned : left[s] # {}})
      /\ streamOf' = DisownedStreams(cs, D) /\ owned' = DisownedChunks(cs, D)
  BY DEF Disown, DisownedChunks
<1>2. /\ DOMAIN owned' \subseteq DOMAIN owned
      /\ \A s \in DOMAIN owned : s \in DOMAIN owned' <=> left[s] # {}
      /\ \A s \in DOMAIN owned' : owned'[s] = left[s]
  BY <1>1 DEF Restrict
<1>3. \A s \in DOMAIN owned : s \in Stream /\ left[s] = {x \in DOMAIN ds : ds[x].stream = s}
  <2> SUFFICES ASSUME NEW s \in DOMAIN owned
               PROVE  s \in Stream /\ left[s] = {x \in DOMAIN ds : ds[x].stream = s}
    OBVIOUS
  <2>1. s \in Stream /\ owned[s] = {x \in DOMAIN cs : cs[x].stream = s}
    BY DEF OwnerMaps, PartialFunction, Indexed
  <2>2. \A x : x \in left[s] <=> x \in DOMAIN cs /\ cs[x].stream = s /\ x \notin D
    BY <2>1
  <2> QED
    BY <2>1, <2>2, <1>0
<1> HIDE DEF left
<1>4. /\ DOMAIN streamOf' = {i \in DOMAIN streamOf : streamOf[i] \in DOMAIN owned'}
      /\ \A i \in DOMAIN streamOf' : streamOf'[i] = streamOf[i]
  BY <1>1 DEF DisownedStreams, Restrict, Indexed
<1>5. ASSUME NEW x \in DOMAIN ds, ds[x].stream # None PROVE ds[x].stream \in DOMAIN owned'
  <2>1. ds[x].stream \in Stream /\ x \in DOMAIN cs /\ cs[x].stream = ds[x].stream
    BY <1>0, <1>5
  <2>2. ds[x].stream \in DOMAIN owned
    BY <2>1, <1>5 DEF Indexed
  <2> QED
    BY <2>2, <1>2, <1>3
<1>6. /\ \A s \in DOMAIN owned' : owned'[s] # {} /\ owned'[s] = {x \in DOMAIN ds : ds[x].stream = s}
      /\ \A s \in DOMAIN owned' : impl[s] \in DOMAIN streamOf' /\ streamOf'[impl[s]] = s
      /\ \A i \in DOMAIN streamOf' : streamOf'[i] \in DOMAIN owned' /\ impl[streamOf'[i]] = i
  <2>1. \A s \in DOMAIN owned' : owned'[s] # {} /\ owned'[s] = {x \in DOMAIN ds : ds[x].stream = s}
    BY <1>2, <1>3
  <2>2. \A s \in DOMAIN owned' : impl[s] \in DOMAIN streamOf' /\ streamOf'[impl[s]] = s
    BY <1>2, <1>4 DEF Indexed
  <2>3. \A i \in DOMAIN streamOf' : streamOf'[i] \in DOMAIN owned' /\ impl[streamOf'[i]] = i
    BY <1>4 DEF Indexed
  <2> QED
    BY <2>1, <2>2, <2>3
<1>7. OwnerMaps(owned', streamOf')
  <2>1. \A s \in DOMAIN owned' : owned'[s] \in SUBSET Nat /\ s \in Stream
    <3>1. \A s \in DOMAIN owned : left[s] \subseteq owned[s]
      BY DEF left
    <3> QED
      BY <3>1, <1>2, <1>3 DEF OwnerMaps, PartialFunction
  <2> QED
    BY <2>1, <1>4 DEF OwnerMaps, PartialFunction
<1> QED
  BY <1>5, <1>6, <1>7 DEF Indexed

(* Giving the chunks of P to a stream that exists keeps the index in       *)
(* agreement; no other stream has its implementation.                      *)
LEMMA OwnIndexed ==
  ASSUME NEW cs, Indexed(cs, owned, streamOf, impl), OwnerMaps(owned, streamOf),
         ImplsDistinct, impl \in [Stream -> Impl \cup {None}],
         NEW s \in Stream, impl[s] # None, NEW P \in SUBSET Nat, P # {}, Own(P, s), NEW ds, ChunkMap(ds),
         \A t \in Stream : OwnedIn(ds, t) = OwnedIn(cs, t) \cup (IF t = s THEN P ELSE {})
  PROVE  Indexed(ds, owned', streamOf', impl) /\ OwnerMaps(owned', streamOf')
<1>0. /\ \A x \in DOMAIN ds : ds[x].stream \in Stream \cup {None}
      /\ \A t \in Stream : \A x :
           (x \in DOMAIN ds /\ ds[x].stream = t)
             <=> ((x \in DOMAIN cs /\ cs[x].stream = t) \/ (t = s /\ x \in P))
  <2>1. \A t \in Stream : \A x : x \in OwnedIn(ds, t) <=> x \in OwnedIn(cs, t) \/ (t = s /\ x \in P)
    OBVIOUS
  <2> QED
    BY <2>1 DEF OwnedIn, ChunkMap, PartialFunction, Chunk
<1>1. /\ DOMAIN owned' = DOMAIN owned \cup {s}
      /\ \A t \in DOMAIN owned' :
           owned'[t] = (IF t \in DOMAIN owned THEN owned[t] ELSE {}) \cup (IF t = s THEN P ELSE {})
      /\ DOMAIN streamOf' = DOMAIN streamOf \cup {impl[s]}
      /\ \A i \in DOMAIN streamOf' : streamOf'[i] = IF i = impl[s] THEN s ELSE streamOf[i]
  BY DEF Own
<1>2. None \notin Stream /\ impl[s] \in Impl /\ s \notin {None}
  BY ArenaAssumption
<1>3. \A t \in DOMAIN owned : t \in Stream /\ owned[t] \in SUBSET Nat /\ owned[t] # {}
                            /\ owned[t] = {x \in DOMAIN cs : cs[x].stream = t}
  BY DEF OwnerMaps, PartialFunction, Indexed
<1>4. s \notin DOMAIN owned => \A x \in DOMAIN cs : cs[x].stream # s
  BY <1>2 DEF Indexed
<1>5. \A t \in DOMAIN owned' : /\ t \in Stream /\ owned'[t] \in SUBSET Nat /\ owned'[t] # {}
                              /\ owned'[t] = {x \in DOMAIN ds : ds[x].stream = t}
  <2> SUFFICES ASSUME NEW t \in DOMAIN owned'
               PROVE  /\ t \in Stream /\ owned'[t] \in SUBSET Nat /\ owned'[t] # {}
                      /\ owned'[t] = {x \in DOMAIN ds : ds[x].stream = t}
    OBVIOUS
  <2>1. t \in Stream /\ owned'[t] \in SUBSET Nat /\ owned'[t] # {}
    <3>1. CASE t = s
      <4>1. owned'[s] = (IF s \in DOMAIN owned THEN owned[s] ELSE {}) \cup P
        BY <3>1, <1>1
      <4> QED
        BY <4>1, <3>1, <1>3
    <3>2. CASE t # s
      <4>1. t \in DOMAIN owned
        BY <3>2, <1>1
      <4>2. owned'[t] = owned[t] \cup {}
        BY <3>2, <4>1, <1>1
      <4>3. owned'[t] = owned[t]
        BY <4>2
      <4> QED
        BY <4>1, <4>3, <1>3
    <3> QED
      BY <3>1, <3>2
  <2>2. \A x : x \in owned'[t] <=> (x \in DOMAIN cs /\ cs[x].stream = t) \/ (t = s /\ x \in P)
    BY <1>1, <1>3, <1>4
  <2> QED
    BY <2>1, <2>2, <1>0
<1>6. \A x \in DOMAIN ds : ds[x].stream # None => ds[x].stream \in DOMAIN owned'
  BY <1>0, <1>1 DEF Indexed
<1>7. \A t \in DOMAIN owned' : impl[t] \in DOMAIN streamOf' /\ streamOf'[impl[t]] = t
  <2> SUFFICES ASSUME NEW t \in DOMAIN owned'
               PROVE  impl[t] \in DOMAIN streamOf' /\ streamOf'[impl[t]] = t
    OBVIOUS
  <2>1. CASE t = s
    BY <2>1, <1>1
  <2>2. CASE t # s
    <3>1. t \in DOMAIN owned /\ t \in Stream /\ impl[t] \in DOMAIN streamOf /\ streamOf[impl[t]] = t
      BY <2>2, <1>1, <1>3 DEF Indexed
    <3>2. impl[t] # impl[s]
      BY <3>1, <2>2, <1>2 DEF ImplsDistinct
    <3> QED
      BY <3>1, <3>2, <1>1
  <2> QED
    BY <2>1, <2>2
<1>8. \A i \in DOMAIN streamOf' : streamOf'[i] \in DOMAIN owned' /\ impl[streamOf'[i]] = i
  BY <1>1 DEF Indexed
<1>9. OwnerMaps(owned', streamOf')
  BY <1>1, <1>2, <1>5 DEF OwnerMaps, PartialFunction
<1> QED
  BY <1>5, <1>6, <1>7, <1>8, <1>9 DEF Indexed

-----------------------------------------------------------------------------
(* The parts of ArenaInv                                                   *)

(* The parts of the invariant, in the terms of the lemmas.                 *)
LEMMA ArenaParts ==
  ASSUME ArenaInv
  PROVE  /\ ChunkMap(chunks) /\ RegionMap(regions) /\ BinMap(bins)
         /\ OwnerMaps(owned, streamOf) /\ impl \in [Stream -> Impl \cup {None}]
         /\ PartialFunction(reserved, Nat, Nat \ {0}) /\ currRegion \in Nat
         /\ Apart(regions) /\ Tiled(chunks, regions) /\ Binned(chunks, bins)
         /\ ImplsDistinct /\ Indexed(chunks, owned, streamOf, impl)
BY DEF ArenaInv, TypeOK, RegionsTiled, BinsExact, IndexAgrees,
       ChunkMap, RegionMap, BinMap, OwnerMaps

(* And back: what a step that changes no stream has to establish.          *)
LEMMA ArenaPartsNext ==
  ASSUME ArenaInv, impl' = impl,
         ChunkMap(chunks'), RegionMap(regions'), BinMap(bins'),
         OwnerMaps(owned', streamOf'),
         PartialFunction(reserved', Nat, Nat \ {0}), currRegion' \in Nat,
         Apart(regions'), Tiled(chunks', regions'), Binned(chunks', bins'),
         Indexed(chunks', owned', streamOf', impl)
  PROVE  ArenaInv'
<1>1. TypeOK'
  BY DEF ArenaInv, TypeOK, ChunkMap, RegionMap, BinMap, OwnerMaps, PartialFunction
<1>2. ImplsDistinct'
  BY DEF ArenaInv, ImplsDistinct
<1> QED
  BY <1>1, <1>2 DEF ArenaInv, RegionsTiled, BinsExact, IndexAgrees

-----------------------------------------------------------------------------
(* Allocation                                                              *)

(* A chunk before it is given away, cut or not: what SplitFreeChunkFromBin *)
(* has done to the chunks and to the bins when p is still nobody's use.    *)
LEMMA CutSound ==
  ASSUME NEW cs, NEW rs, ChunkMap(cs), RegionMap(rs), Apart(rs), Tiled(cs, rs),
         NEW p \in DOMAIN cs, NEW n \in Nat \ {0}, n < cs[p].size,
         NEW ds, ds = SplitChunk(cs, p, n)
  PROVE  /\ \A x \in DOMAIN cs : /\ ds[x].inUse = cs[x].inUse /\ ds[x].bin = cs[x].bin
                                 /\ ds[x].stream = cs[x].stream
                                 /\ x # p => ds[x].size = cs[x].size
         /\ ds[p].size = n
         /\ ~ds[p + n].inUse /\ ds[p + n].size = cs[p].size - n
         /\ ds[p + n].bin = BinNumForSize(cs[p].size - n)
         /\ ds[p + n].stream = cs[p].stream
<1>1. p + n \notin DOMAIN cs /\ p \in Nat /\ p # p + n /\ \A x \in DOMAIN cs : cs[x] \in Chunk
  BY SplitTiled, Links
<1>2. /\ ds[p] = [cs[p] EXCEPT !.size = n, !.next = p + n]
      /\ ds[p + n] = [FreeChunk(cs[p].size - n) EXCEPT
                        !.prev = p, !.next = cs[p].next, !.stream = cs[p].stream]
      /\ \A x \in DOMAIN cs : x # p => ds[x] = cs[x] \/ ds[x] = [cs[x] EXCEPT !.prev = p + n]
  BY <1>1 DEF SplitChunk
<1>3. ASSUME NEW x \in DOMAIN cs, x # p
      PROVE  /\ ds[x].inUse = cs[x].inUse /\ ds[x].bin = cs[x].bin
             /\ ds[x].stream = cs[x].stream /\ ds[x].size = cs[x].size
  <2>1. cs[x] \in Chunk
    BY <1>1
  <2> DEFINE c == [cs[x] EXCEPT !.prev = p + n]
  <2>2. c.inUse = cs[x].inUse /\ c.bin = cs[x].bin /\ c.stream = cs[x].stream /\ c.size = cs[x].size
    BY <2>1 DEF Chunk
  <2> HIDE DEF c
  <2>3. ds[x] = cs[x] \/ ds[x] = c
    BY <1>2, <1>3 DEF c
  <2> QED
    BY <2>2, <2>3
<1>4. /\ ds[p].inUse = cs[p].inUse /\ ds[p].bin = cs[p].bin
      /\ ds[p].stream = cs[p].stream /\ ds[p].size = n
  BY <1>1, <1>2 DEF Chunk
<1>5. /\ ~ds[p + n].inUse /\ ds[p + n].size = cs[p].size - n
      /\ ds[p + n].bin = BinNumForSize(cs[p].size - n)
      /\ ds[p + n].stream = cs[p].stream
  BY <1>2 DEF FreeChunk
<1> QED
  BY <1>3, <1>4, <1>5

(* The same whether SplitFreeChunkFromBin cuts the chunk or not.           *)
LEMMA MaybeCutSound ==
  ASSUME NEW cs, NEW rs, ChunkMap(cs), RegionMap(rs), Apart(rs), Tiled(cs, rs),
         NEW p \in DOMAIN cs, NEW n \in Nat \ {0}, NEW split \in BOOLEAN,
         split => n < cs[p].size,
         NEW q, q = p + n, NEW cut, cut = IF split THEN SplitChunk(cs, p, n) ELSE cs
  PROVE  /\ ChunkMap(cut) /\ Tiled(cut, rs) /\ p \in DOMAIN cut
         /\ \A x : x \in DOMAIN cut <=> x \in DOMAIN cs \/ (split /\ x = q)
         /\ \A x \in DOMAIN cs : /\ cut[x].inUse = cs[x].inUse /\ cut[x].bin = cs[x].bin
                                 /\ cut[x].stream = cs[x].stream
                                 /\ x # p => cut[x].size = cs[x].size
         /\ split => /\ q \notin DOMAIN cs /\ ~cut[q].inUse /\ cut[q].size = cs[p].size - n
                     /\ cut[q].bin = BinNumForSize(cs[p].size - n)
                     /\ cut[q].stream = cs[p].stream
<1>1. CASE split
  <2>1. cut = SplitChunk(cs, p, n)
    BY <1>1
  <2>2. /\ q \notin DOMAIN cs /\ DOMAIN cut = DOMAIN cs \cup {q}
        /\ ChunkMap(cut) /\ Tiled(cut, rs)
    <3>1. /\ p + n \notin DOMAIN cs
          /\ DOMAIN SplitChunk(cs, p, n) = DOMAIN cs \cup {p + n}
          /\ ChunkMap(SplitChunk(cs, p, n)) /\ Tiled(SplitChunk(cs, p, n), rs)
      <4>1. n < cs[p].size
        BY <1>1
      <4> QED
        BY <4>1, SplitTiled
    <3> QED
      BY <3>1, <2>1
  <2>3. /\ \A x \in DOMAIN cs : /\ cut[x].inUse = cs[x].inUse /\ cut[x].bin = cs[x].bin
                                /\ cut[x].stream = cs[x].stream
                                /\ x # p => cut[x].size = cs[x].size
        /\ ~cut[q].inUse /\ cut[q].size = cs[p].size - n
        /\ cut[q].bin = BinNumForSize(cs[p].size - n)
        /\ cut[q].stream = cs[p].stream
    BY <1>1, <2>1, CutSound
  <2>4. \A x : x \in DOMAIN cut <=> x \in DOMAIN cs \/ (split /\ x = q)
    BY <1>1, <2>2
  <2> QED
    BY <2>2, <2>3, <2>4, Zenon
<1>2. CASE ~split
  BY <1>2
<1> QED
  BY <1>1, <1>2

(* Giving a chunk to a stream keeps the tiling, the bins and the index.    *)
LEMMA TakeChunkSound ==
  ASSUME NEW cs, NEW bs, NEW rs, ChunkMap(cs), BinMap(bs), RegionMap(rs), Apart(rs),
         Tiled(cs, rs), Binned(cs, bs), Indexed(cs, owned, streamOf, impl),
         OwnerMaps(owned, streamOf), ImplsDistinct, impl \in [Stream -> Impl \cup {None}],
         NEW s \in Stream, impl[s] # None, NEW n \in Request,
         NEW p \in DOMAIN cs, TakeChunk(cs, bs, p, n, s)
  PROVE  /\ ChunkMap(chunks') /\ BinMap(bins') /\ Tiled(chunks', rs)
         /\ Binned(chunks', bins')
         /\ Indexed(chunks', owned', streamOf', impl) /\ OwnerMaps(owned', streamOf')
         /\ KeepsInUse(cs, chunks')
<1> DEFINE m     == Rounded(n)
           split == WorthSplitting(cs[p].size, m)
           q     == p + m
           cut   == IF split THEN SplitChunk(cs, p, m) ELSE cs
           unbin == RemoveFromBin(bs, p, cs[p].bin)
           P     == {p} \cup (IF split /\ cs[p].stream = s THEN {q} ELSE {})
<1>1. n \in Nat \ {0} /\ m \in Nat \ {0} /\ n <= m /\ None \notin Stream /\ None \notin Bin
  BY RoundedUp, ArenaAssumption DEF Bin
<1>2. /\ p \in Nat /\ cs[p] \in Chunk /\ cs[p].size \in Nat \ {0}
      /\ \A x \in DOMAIN cs : x \in Nat /\ cs[x] \in Chunk
  BY Links
<1>3. /\ m <= cs[p].size /\ cs[p].stream \in {s, None}
      /\ cs[p].bin \in Bin /\ ~cs[p].inUse
  <2>1. p \in Candidates(cs, bs, m, s)
    BY DEF TakeChunk
  <2>2. PICK b \in BinNumForSize(m) .. NumBins - 1 : p \in bs[b]
    BY <2>1 DEF Candidates
  <2>3. b \in Bin
    BY <2>2, BinIndex, ArenaAssumption DEF Bin
  <2>4. cs[p].bin = b
    BY <2>2, <2>3 DEF Binned
  <2>5. ~cs[p].inUse
    BY <2>3, <2>4, <1>1 DEF Binned
  <2> QED
    BY <2>1, <2>3, <2>4, <2>5, <1>1, <1>2 DEF Candidates
<1>4. split => m < cs[p].size
  BY <1>1, <1>2, <1>3, ArenaAssumption DEF WorthSplitting
<1>5. /\ ChunkMap(cut) /\ Tiled(cut, rs) /\ p \in DOMAIN cut
      /\ \A x : x \in DOMAIN cut <=> x \in DOMAIN cs \/ (split /\ x = q)
      /\ \A x \in DOMAIN cs : /\ cut[x].inUse = cs[x].inUse /\ cut[x].bin = cs[x].bin
                              /\ cut[x].stream = cs[x].stream
                              /\ x # p => cut[x].size = cs[x].size
      /\ split => /\ q \notin DOMAIN cs /\ ~cut[q].inUse /\ cut[q].size = cs[p].size - m
                  /\ cut[q].bin = BinNumForSize(cs[p].size - m)
                  /\ cut[q].stream = cs[p].stream
  <2>1. split \in BOOLEAN /\ m \in Nat \ {0}
    BY <1>1 DEF WorthSplitting
  <2> HIDE DEF m, split
  <2> QED
    BY <2>1, <1>4, MaybeCutSound
<1>6. /\ chunks' = [cut EXCEPT ![p].requested = n, ![p].inUse = TRUE,
                               ![p].bin = None, ![p].stream = s]
      /\ bins' = IF split THEN InsertInBin(unbin, q, BinNumForSize(cs[p].size - m)) ELSE unbin
      /\ Own(P, s)
  BY DEF TakeChunk
<1> HIDE DEF cut, unbin, m, split
<1>7. /\ DOMAIN chunks' = DOMAIN cut
      /\ chunks'[p] = [cut[p] EXCEPT !.requested = n, !.inUse = TRUE, !.bin = None, !.stream = s]
      /\ \A x \in DOMAIN cut \ {p} : chunks'[x] = cut[x]
  BY <1>5, <1>6
<1>8. /\ \A x \in DOMAIN cut : x \in Nat /\ cut[x] \in Chunk
      /\ chunks'[p] \in Chunk /\ chunks'[p].inUse /\ chunks'[p].bin = None /\ chunks'[p].stream = s
      /\ chunks'[p].size = cut[p].size /\ chunks'[p].next = cut[p].next
      /\ chunks'[p].prev = cut[p].prev
  <2>1. \A x \in DOMAIN cut : x \in Nat /\ cut[x] \in Chunk
    BY <1>5 DEF ChunkMap, PartialFunction
  <2>2. n \in Nat /\ cut[p] \in Chunk
    BY <2>1, <1>1, <1>5
  <2> HIDE DEF q, P
  <2> QED
    BY <2>1, <2>2, <1>7 DEF Chunk
<1>9. ChunkMap(chunks') /\ Tiled(chunks', rs)
  <2>1. \A x \in DOMAIN cut : /\ chunks'[x].size = cut[x].size
                              /\ chunks'[x].next = cut[x].next /\ chunks'[x].prev = cut[x].prev
    BY <1>7, <1>8
  <2>2. Tiled(chunks', rs)
    BY <2>1, <1>5, <1>7, SameShape
  <2> QED
    BY <2>2, <1>7, <1>8 DEF ChunkMap, PartialFunction
<1>10. /\ \A x : x \in DOMAIN chunks' <=> x \in DOMAIN cs \/ (split /\ x = q)
       /\ \A x \in DOMAIN cs \ {p} :
            /\ chunks'[x].inUse = cs[x].inUse /\ chunks'[x].bin = cs[x].bin
            /\ chunks'[x].stream = cs[x].stream /\ chunks'[x].size = cs[x].size
       /\ split => /\ q \notin DOMAIN cs /\ ~chunks'[q].inUse
                   /\ chunks'[q].size = cs[p].size - m
                   /\ chunks'[q].bin = BinNumForSize(cs[p].size - m)
                   /\ chunks'[q].stream = cs[p].stream
  <2>1. \A x : x \in DOMAIN chunks' <=> x \in DOMAIN cs \/ (split /\ x = q)
    BY <1>5, <1>7
  <2>2. \A x \in DOMAIN cs \ {p} : x \in DOMAIN cut /\ chunks'[x] = cut[x]
    BY <1>5, <1>7
  <2>3. split => q \notin DOMAIN cs /\ chunks'[q] = cut[q]
    BY <1>5, <1>7
  <2> QED
    BY <2>1, <2>2, <2>3, <1>5
<1>11. q \in Nat /\ q # p
  BY <1>1, <1>2 DEF m
<1> HIDE DEF q
<1>12. /\ BinMap(unbin)
       /\ \A b \in Bin : \A x : x \in unbin[b] <=> x \in DOMAIN cs \ {p} /\ cs[x].bin = b
  <2>1. BinMap(unbin) /\ \A b \in Bin : unbin[b] = IF b = cs[p].bin THEN bs[b] \ {p} ELSE bs[b]
    BY <1>3 DEF BinMap, RemoveFromBin, unbin
  <2>2. ASSUME NEW b \in Bin, NEW x
        PROVE  x \in unbin[b] <=> x \in DOMAIN cs \ {p} /\ cs[x].bin = b
    <3>1. x \in bs[b] <=> x \in DOMAIN cs /\ cs[x].bin = b
      BY DEF Binned
    <3> QED
      BY <2>1, <3>1
  <2> QED
    BY <2>1, <2>2
<1>13. BinMap(bins') /\ Binned(chunks', bins')
  <2>1. ASSUME NEW x \in DOMAIN chunks'
        PROVE  chunks'[x].bin = IF chunks'[x].inUse THEN None ELSE BinNumForSize(chunks'[x].size)
    <3>1. CASE x = p
      BY <3>1, <1>8
    <3>2. CASE x # p /\ x \in DOMAIN cs
      BY <3>2, <1>10 DEF Binned
    <3>3. CASE x \notin DOMAIN cs
      BY <3>3, <1>10
    <3> QED
      BY <3>1, <3>2, <3>3
  <2>2. BinMap(bins') /\ \A b \in Bin : bins'[b] = {x \in DOMAIN chunks' : chunks'[x].bin = b}
    <3>1. CASE split
      <4> DEFINE c == BinNumForSize(cs[p].size - m)
      <4>1. c \in Bin
        BY BinIndex
      <4>2. BinMap(bins') /\ \A b \in Bin : bins'[b] = IF b = c THEN unbin[b] \cup {q} ELSE unbin[b]
        BY <3>1, <4>1, <1>6, <1>11, <1>12 DEF BinMap, InsertInBin
      <4>3. chunks'[q].bin = c /\ q \notin DOMAIN cs /\ q \in DOMAIN chunks'
        BY <3>1, <1>10
      <4> HIDE DEF c
      <4>4. ASSUME NEW b \in Bin, NEW x
            PROVE  x \in bins'[b] <=> x \in DOMAIN chunks' /\ chunks'[x].bin = b
        <5>1. x \in unbin[b] <=> x \in DOMAIN cs \ {p} /\ cs[x].bin = b
          BY <1>12
        <5>2. CASE x = q
          BY <5>1, <5>2, <4>2, <4>3
        <5>3. CASE x = p
          <6>1. x \notin unbin[b] /\ x # q
            BY <5>1, <5>3, <1>11
          <6>2. x \notin bins'[b]
            BY <6>1, <4>2
          <6> QED
            BY <6>2, <5>3, <1>1, <1>8
        <5>4. CASE x # p /\ x # q
          <6>1. x \in bins'[b] <=> x \in unbin[b]
            BY <5>4, <4>2
          <6> QED
            BY <6>1, <5>1, <5>4, <1>10
        <5> QED
          BY <5>2, <5>3, <5>4
      <4> QED
        BY <4>2, <4>4
    <3>2. CASE ~split
      <4>1. bins' = unbin
        BY <3>2, <1>6
      <4>2. ASSUME NEW b \in Bin, NEW x
            PROVE  x \in unbin[b] <=> x \in DOMAIN chunks' /\ chunks'[x].bin = b
        <5>1. x \in unbin[b] <=> x \in DOMAIN cs \ {p} /\ cs[x].bin = b
          BY <1>12
        <5>2. CASE x = p
          BY <5>1, <5>2, <1>1, <1>8
        <5>3. CASE x # p
          BY <5>1, <5>3, <3>2, <1>10
        <5> QED
          BY <5>2, <5>3
      <4> QED
        BY <4>1, <4>2, <1>12
    <3> QED
      BY <3>1, <3>2
  <2> QED
    BY <2>1, <2>2 DEF Binned
<1>14. Indexed(chunks', owned', streamOf', impl) /\ OwnerMaps(owned', streamOf')
  <2>2. P \in SUBSET Nat /\ P # {}
    BY <1>2, <1>11
  <2>3. ASSUME NEW t \in Stream, NEW x
        PROVE  (x \in DOMAIN chunks' /\ chunks'[x].stream = t)
                 <=> ((x \in DOMAIN cs /\ cs[x].stream = t) \/ (t = s /\ x \in P))
    <3>0. x \in P <=> x = p \/ (x = q /\ split /\ cs[p].stream = s)
      OBVIOUS
    <3> HIDE DEF P
    <3>1. CASE x = p
      <4>1. x \in DOMAIN cs /\ x \in DOMAIN chunks' /\ chunks'[x].stream = s /\ x \in P
        BY <3>0, <3>1, <1>8, <1>10
      <4> QED
        BY <4>1, <3>1, <1>1, <1>3
    <3>2. CASE x # p /\ x \in DOMAIN cs
      BY <3>0, <3>2, <1>10
    <3>3. CASE x \notin DOMAIN cs
      <4>1. x \in DOMAIN chunks' <=> split /\ x = q
        BY <3>3, <1>10
      <4> QED
        BY <3>0, <3>3, <4>1, <1>1, <1>3, <1>10
    <3> QED
      BY <3>1, <3>2, <3>3
  <2> HIDE DEF P
  <2>4. \A t \in Stream :
          OwnedIn(chunks', t) = OwnedIn(cs, t) \cup (IF t = s THEN P ELSE {})
    BY <2>3 DEF OwnedIn
  <2>5. Own(P, s) /\ ChunkMap(chunks')
    BY <1>6, <1>9
  <2> QED
    BY <2>2, <2>4, <2>5, OwnIndexed
<1>15. KeepsInUse(cs, chunks')
  BY <1>3, <1>10 DEF KeepsInUse
<1> QED
  BY <1>9, <1>13, <1>14, <1>15

(* AllocOnStream preserves the invariant when a chunk is at hand ...       *)
LEMMA AllocCachedSound ==
  ASSUME ArenaInv, NEW s \in Stream, NEW n \in Request, AllocCached(s, n)
  PROVE  ArenaInv' /\ KeepsInUse(chunks, chunks')
<1>1. PICK p \in DOMAIN chunks : TakeChunk(chunks, bins, p, n, s)
  BY DEF AllocCached
<1>2. /\ impl[s] # None
      /\ UNCHANGED <<impl, regions, reserved, currRegion>>
  BY DEF AllocCached
<1>3. /\ ChunkMap(chunks') /\ BinMap(bins') /\ Tiled(chunks', regions)
      /\ Binned(chunks', bins')
      /\ Indexed(chunks', owned', streamOf', impl) /\ OwnerMaps(owned', streamOf')
      /\ KeepsInUse(chunks, chunks')
  BY <1>1, <1>2, ArenaParts, TakeChunkSound
<1>4. /\ RegionMap(regions') /\ Apart(regions') /\ Tiled(chunks', regions')
      /\ PartialFunction(reserved', Nat, Nat \ {0}) /\ currRegion' \in Nat /\ impl' = impl
  BY <1>2, <1>3, ArenaParts
<1> QED
  BY <1>3, <1>4, ArenaPartsNext

(* The next growth step is a size.                                         *)
LEMMA GrowthType ==
  ASSUME NEW n \in Nat, currRegion \in Nat
  PROVE  NextRegion(n) \in Nat
<1>1. GrownTo(currRegion, n) \in Nat
  <2> DEFINE fits == {x \in n .. SizeMax : \E k \in 1 .. n : x = currRegion * 2^k}
  <2>1. fits \in SUBSET Nat /\ SizeMax \in Nat
    BY ArenaAssumption
  <2>2. GrownTo(currRegion, n) =
          IF n <= currRegion THEN currRegion ELSE IF fits = {} THEN SizeMax ELSE Min(fits)
    BY DEF GrownTo
  <2> HIDE DEF fits
  <2>3. fits # {} => Min(fits) \in Nat
    BY <2>1, MinNat
  <2> QED
    BY <2>1, <2>2, <2>3
<1> QED
  BY <1>1, ArenaAssumption DEF NextRegion

(* What the arena is like while Extend is under way.                       *)
LEMMA ExtendingType ==
  ASSUME ArenaInv, NEW s \in Stream, NEW n \in Request, Extending(s, n)
  PROVE  /\ currRegion' \in Nat /\ impl' = impl /\ impl[s] # None
         /\ reserved' = reserved /\ PartialFunction(reserved', Nat, Nat \ {0})
         /\ Rounded(n) \in Nat \ {0}
<1>1. Rounded(n) \in Nat \ {0}
  BY RoundedUp, ArenaAssumption
<1> QED
  BY <1>1, ArenaParts, GrowthType DEF Extending

(* ... and when Extend has to obtain a region for it.                      *)
LEMMA AllocExtendedSound ==
  ASSUME ArenaInv, NEW s \in Stream, NEW n \in Request, AllocExtended(s, n)
  PROVE  ArenaInv' /\ KeepsInUse(chunks, chunks')
<1>1. Extending(s, n)
  BY DEF AllocExtended
<1>2. PICK size \in ExtendSizes(Rounded(n)), b \in Base :
        LET cs == [p \in DOMAIN chunks \cup {b} |->
                     IF p = b THEN FreeChunk(size) ELSE chunks[p]]
            bs == InsertInBin(bins, b, BinNumForSize(size))
        IN  /\ DeviceFresh(b, size)
            /\ regions' = [r \in DOMAIN regions \cup {b} |->
                             IF r = b THEN size ELSE regions[r]]
            /\ \E p \in DOMAIN cs : TakeChunk(cs, bs, p, n, s)
  BY DEF AllocExtended
<1> DEFINE cs == [p \in DOMAIN chunks \cup {b} |->
                    IF p = b THEN FreeChunk(size) ELSE chunks[p]]
           bs == InsertInBin(bins, b, BinNumForSize(size))
           ts == [r \in DOMAIN regions \cup {b} |-> IF r = b THEN size ELSE regions[r]]
<1>3. /\ b \in Nat /\ size \in Nat \ {0}
      /\ FreshAt(regions, b, size)
  BY <1>1, <1>2, ExtendingType, ArenaAssumption DEF DeviceFresh, ExtendSizes, FreshAt
<1>4. /\ b \notin DOMAIN chunks
      /\ ChunkMap(cs) /\ RegionMap(ts) /\ Apart(ts) /\ Tiled(cs, ts)
  <2>1. /\ cs = [x \in DOMAIN chunks \cup {b} |-> IF x = b THEN FreeChunk(size) ELSE chunks[x]]
        /\ ts = [r \in DOMAIN regions \cup {b} |-> IF r = b THEN size ELSE regions[r]]
    OBVIOUS
  <2> HIDE DEF cs, ts
  <2>2. ChunkMap(chunks) /\ RegionMap(regions) /\ Apart(regions) /\ Tiled(chunks, regions)
    BY ArenaParts
  <2> QED
    BY <2>1, <2>2, <1>3, RegionAdded
<1>5. PICK p \in DOMAIN cs : TakeChunk(cs, bs, p, n, s)
  BY <1>2
<1>6. /\ DOMAIN cs = DOMAIN chunks \cup {b} /\ cs[b] = FreeChunk(size)
      /\ \A x \in DOMAIN chunks : cs[x] = chunks[x]
  BY <1>4
<1>7. regions' = ts
  BY <1>2
<1> DEFINE c == BinNumForSize(size)
<1>8. /\ BinMap(bs) /\ c \in Bin
      /\ \A d \in Bin : bs[d] = IF d = c THEN bins[d] \cup {b} ELSE bins[d]
  BY <1>3, BinIndex, ArenaParts DEF BinMap, InsertInBin
<1>9. cs[b].bin = c /\ ~cs[b].inUse /\ cs[b].stream = None /\ cs[b].size = size
  BY <1>6 DEF FreeChunk
<1> HIDE DEF cs, bs, ts, c
<1>10. Binned(cs, bs)
  <2>1. \A x \in DOMAIN cs : cs[x].bin = IF cs[x].inUse THEN None ELSE BinNumForSize(cs[x].size)
    BY <1>6, <1>9, ArenaParts DEF Binned, c
  <2>2. ASSUME NEW d \in Bin, NEW x PROVE x \in bs[d] <=> x \in DOMAIN cs /\ cs[x].bin = d
    <3>1. x \in bins[d] <=> x \in DOMAIN chunks /\ chunks[x].bin = d
      BY ArenaParts DEF Binned
    <3>2. CASE x = b
      BY <3>1, <3>2, <1>4, <1>6, <1>8, <1>9
    <3>3. CASE x # b
      <4>1. x \in bs[d] <=> x \in bins[d]
        BY <3>3, <1>8
      <4> QED
        BY <3>1, <3>3, <4>1, <1>6
    <3> QED
      BY <3>2, <3>3
  <2>3. \A d \in Bin : bs[d] = {x \in DOMAIN cs : cs[x].bin = d}
    BY <2>2, <1>8
  <2> QED
    BY <2>1, <2>3 DEF Binned
<1>11. Indexed(cs, owned, streamOf, impl)
  <2>1. \A t \in DOMAIN owned : t # None
    BY ArenaParts, ArenaAssumption DEF OwnerMaps, PartialFunction
  <2>2. \A t \in DOMAIN owned :
          {x \in DOMAIN cs : cs[x].stream = t} = {x \in DOMAIN chunks : chunks[x].stream = t}
    BY <2>1, <1>4, <1>6, <1>9
  <2>3. \A x \in DOMAIN cs : cs[x].stream # None => cs[x].stream \in DOMAIN owned
    BY <1>6, <1>9, ArenaParts DEF Indexed
  <2> QED
    BY <2>2, <2>3, ArenaParts DEF Indexed
<1>12. /\ ChunkMap(chunks') /\ BinMap(bins') /\ Tiled(chunks', ts)
       /\ Binned(chunks', bins')
       /\ Indexed(chunks', owned', streamOf', impl) /\ OwnerMaps(owned', streamOf')
       /\ KeepsInUse(cs, chunks')
  BY <1>1, <1>4, <1>5, <1>8, <1>10, <1>11, ExtendingType, ArenaParts, TakeChunkSound
<1>13. KeepsInUse(chunks, chunks')
  BY <1>6, <1>12 DEF KeepsInUse
<1> QED
  BY <1>1, <1>4, <1>7, <1>12, <1>13, ExtendingType, ArenaPartsNext

-----------------------------------------------------------------------------
(* Free                                                                    *)

(* Coalesce keeps the tiling; the chunk that results is the only loose one *)
(* and no other chunk changes its owner, nor its size if it is in use.     *)
Coalesces(cs, rs, done) ==
  /\ ChunkMap(done.chunks) /\ Tiled(done.chunks, rs)
  /\ BinMap(done.bins) /\ BinnedBut(done.chunks, done.bins, done.at)
  /\ DOMAIN done.chunks \subseteq DOMAIN cs
  /\ \A x \in DOMAIN done.chunks : done.chunks[x].stream = cs[x].stream
  /\ KeepsInUse(cs, done.chunks)

(* A free chunk outside the bins merges with its free neighbours, and what *)
(* is in use stays.                                                        *)
LEMMA CoalesceSound ==
  ASSUME NEW cs, NEW bs, NEW rs, NEW p, ChunkMap(cs), BinMap(bs), RegionMap(rs), Apart(rs),
         Tiled(cs, rs), BinnedBut(cs, bs, p), NEW done, done = Coalesce(cs, bs, p)
  PROVE  Coalesces(cs, rs, done)
<1> DEFINE next     == cs[p].next
           withNext == Mergeable(cs, p, next)
           cs1      == IF withNext THEN Merge(cs, p, next) ELSE cs
           bs1      == IF withNext THEN RemoveFromBin(bs, next, cs[next].bin) ELSE bs
           prev     == cs[p].prev
           withPrev == Mergeable(cs1, prev, p)
<1>1. p \in DOMAIN cs /\ ~cs[p].inUse
  BY DEF BinnedBut
<1>2. /\ ChunkMap(cs1) /\ Tiled(cs1, rs) /\ BinMap(bs1) /\ BinnedBut(cs1, bs1, p)
      /\ p \in DOMAIN cs1 /\ cs1[p].prev = cs[p].prev /\ DOMAIN cs1 \subseteq DOMAIN cs
      /\ \A x \in DOMAIN cs1 : cs1[x].stream = cs[x].stream /\ cs1[x].inUse = cs[x].inUse
      /\ \A x \in DOMAIN cs1 \ {p} : cs1[x].bin = cs[x].bin /\ cs1[x].size = cs[x].size
      /\ \A x \in DOMAIN cs : cs[x].inUse => x \in DOMAIN cs1
  <2>1. CASE withNext
    <3>1. next \in DOMAIN cs /\ ~cs[next].inUse /\ cs[p].next = next /\ p # next
      BY <2>1, <1>1, Links DEF Mergeable
    <3>2. cs1 = Merge(cs, p, next) /\ bs1 = RemoveFromBin(bs, next, cs[next].bin)
      BY <2>1
    <3> HIDE DEF next, withNext, cs1, bs1
    <3>3. ChunkMap(cs1) /\ Tiled(cs1, rs) /\ DOMAIN cs1 = DOMAIN cs \ {next}
      BY <1>1, <3>1, <3>2, MergeTiled
    <3>4. BinMap(bs1) /\ BinnedBut(cs1, bs1, p)
      BY <1>1, <3>1, <3>2, MergeBinned
    <3>5. /\ \A x \in DOMAIN cs \ {next} : cs1[x].stream = cs[x].stream /\ cs1[x].inUse = cs[x].inUse
          /\ cs1[p].prev = cs[p].prev
          /\ \A x \in DOMAIN cs \ {p, next} : cs1[x].size = cs[x].size /\ cs1[x].bin = cs[x].bin
      <4>1. Kept(cs, cs1, p, next)
        BY <1>1, <3>1, <3>2, MergeFields
      <4> QED
        BY <1>1, <3>1, <4>1 DEF Kept
    <3> QED
      BY <1>1, <3>1, <3>3, <3>4, <3>5
  <2>2. CASE ~withNext
    BY <2>2, <1>1
  <2> QED
    BY <2>1, <2>2
<1>3. /\ done.chunks = IF withPrev THEN Merge(cs1, prev, p) ELSE cs1
      /\ done.bins = IF withPrev THEN RemoveFromBin(bs1, prev, cs[prev].bin) ELSE bs1
      /\ done.at = IF withPrev THEN prev ELSE p
  BY DEF Coalesce
<1> HIDE DEF cs1, bs1
<1>4. CASE withPrev
  <2>1. /\ prev \in DOMAIN cs1 /\ cs1[prev].next = p /\ prev # p
        /\ ~cs1[prev].inUse /\ cs1[prev].bin = cs[prev].bin
    BY <1>2, <1>4, Links DEF Mergeable
  <2>2. /\ done.chunks = Merge(cs1, prev, p) /\ done.at = prev
        /\ done.bins = RemoveFromBin(bs1, prev, cs1[prev].bin)
    BY <1>3, <1>4, <2>1
  <2> DEFINE dc == done.chunks
             db == done.bins
  <2> HIDE DEF prev, withPrev, dc, db
  <2>3. dc = Merge(cs1, prev, p) /\ db = RemoveFromBin(bs1, prev, cs1[prev].bin)
    BY <2>2 DEF dc, db
  <2>4. ChunkMap(dc) /\ Tiled(dc, rs) /\ DOMAIN dc = DOMAIN cs1 \ {p}
    BY <1>2, <2>1, <2>3, MergeTiled
  <2>5. BinMap(db) /\ BinnedBut(dc, db, prev)
    BY <1>2, <2>1, <2>3, MergeBinned
  <2>6. /\ \A x \in DOMAIN cs1 \ {p} : dc[x].stream = cs1[x].stream /\ dc[x].inUse = cs1[x].inUse
        /\ \A x \in DOMAIN cs1 \ {prev, p} : dc[x].size = cs1[x].size
    <3>1. Kept(cs1, dc, prev, p)
      BY <1>2, <2>1, <2>3, MergeFields
    <3> QED
      BY <2>1, <3>1 DEF Kept
  <2>7. \A x \in DOMAIN dc : x \in DOMAIN cs /\ dc[x].stream = cs[x].stream
    BY <1>2, <2>4, <2>6
  <2>8. ASSUME NEW x \in DOMAIN cs, cs[x].inUse
        PROVE  x \in DOMAIN dc /\ dc[x].inUse /\ dc[x].size = cs[x].size
    <3>1. x # p /\ x \in DOMAIN cs1 /\ cs1[x].inUse
      BY <1>1, <1>2, <2>8
    <3>2. x # prev
      BY <2>1, <3>1
    <3> QED
      BY <1>2, <2>4, <2>6, <3>1, <3>2
  <2> QED
    BY <2>2, <2>4, <2>5, <2>7, <2>8 DEF dc, db, Coalesces, KeepsInUse
<1>5. CASE ~withPrev
  <2>1. done.chunks = cs1 /\ done.bins = bs1 /\ done.at = p
    BY <1>3, <1>5
  <2>2. ASSUME NEW x \in DOMAIN cs, cs[x].inUse
        PROVE  x \in DOMAIN cs1 /\ cs1[x].inUse /\ cs1[x].size = cs[x].size
    BY <1>1, <1>2, <2>2
  <2> HIDE DEF prev, withPrev
  <2> QED
    BY <1>2, <2>1, <2>2 DEF Coalesces, KeepsInUse
<1> QED
  BY <1>4, <1>5

(* Free of a chunk preserves the invariant.                                *)
LEMMA FreeChunkSound ==
  ASSUME ArenaInv, NEW p, FreeChunkAt(p)
  PROVE  ArenaInv' /\ KeepsInUse([chunks EXCEPT ![p].inUse = FALSE], chunks')
<1> DEFINE freed == [chunks EXCEPT ![p].inUse = FALSE]
           done  == Coalesce(freed, bins, p)
           dc    == done.chunks
           db    == done.bins
           at    == done.at
           bin   == BinNumForSize(dc[at].size)
<1>1. /\ p \in DOMAIN chunks /\ chunks[p].inUse
      /\ chunks' = [dc EXCEPT ![at].bin = bin]
      /\ bins' = InsertInBin(db, at, bin)
      /\ Disown(freed, DOMAIN chunks \ DOMAIN dc)
      /\ UNCHANGED <<impl, regions, reserved, totalAllocated, currRegion>>
  BY DEF FreeChunkAt
<1>2. /\ DOMAIN freed = DOMAIN chunks
      /\ freed[p] = [chunks[p] EXCEPT !.inUse = FALSE]
      /\ \A x \in DOMAIN chunks \ {p} : freed[x] = chunks[x]
  BY <1>1
<1>3. \A x \in DOMAIN chunks : x \in Nat /\ chunks[x] \in Chunk
  BY ArenaParts DEF ChunkMap, PartialFunction
<1> HIDE DEF freed
<1>4. /\ freed[p] \in Chunk /\ ~freed[p].inUse
      /\ \A x \in DOMAIN chunks : /\ freed[x].size = chunks[x].size
                                 /\ freed[x].next = chunks[x].next /\ freed[x].prev = chunks[x].prev
                                 /\ freed[x].stream = chunks[x].stream
  <2>1. chunks[p] \in Chunk /\ freed[p] = [chunks[p] EXCEPT !.inUse = FALSE]
    BY <1>1, <1>2, <1>3
  <2>2. /\ freed[p] \in Chunk /\ ~freed[p].inUse
        /\ freed[p].size = chunks[p].size /\ freed[p].next = chunks[p].next
        /\ freed[p].prev = chunks[p].prev /\ freed[p].stream = chunks[p].stream
    BY <2>1 DEF Chunk
  <2> QED
    BY <2>2, <1>2
<1>5. ChunkMap(freed) /\ Tiled(freed, regions)
  <2>1. Tiled(freed, regions)
    BY <1>2, <1>4, ArenaParts, SameShape
  <2> QED
    BY <2>1, <1>2, <1>3, <1>4 DEF ChunkMap, PartialFunction
<1>6. BinnedBut(freed, bins, p)
  <2>1. chunks[p].bin = None /\ None \notin Bin
    BY <1>1, ArenaParts, ArenaAssumption DEF Binned, Bin
  <2>2. \A x \in DOMAIN freed \ {p} :
          freed[x].bin = IF freed[x].inUse THEN None ELSE BinNumForSize(freed[x].size)
    BY <1>2, ArenaParts DEF Binned
  <2>3. \A b \in Bin : bins[b] = {x \in DOMAIN chunks : chunks[x].bin = b}
    BY ArenaParts DEF Binned
  <2>4. \A b \in Bin : bins[b] = {x \in DOMAIN freed \ {p} : freed[x].bin = b}
    BY <2>1, <2>3, <1>2
  <2> QED
    BY <2>2, <2>4, <1>1, <1>2, <1>4 DEF BinnedBut
<1>7. Indexed(freed, owned, streamOf, impl)
  <2>1. Indexed(chunks, owned, streamOf, impl)
    BY ArenaParts
  <2>2. \A s : OwnedIn(freed, s) = OwnedIn(chunks, s)
    BY <1>2, <1>4 DEF OwnedIn
  <2> QED
    BY <2>1, <2>2, <1>2, <1>4 DEF Indexed, OwnedIn
<1>8. Coalesces(freed, regions, done)
  BY <1>5, <1>6, ArenaParts, CoalesceSound
<1> HIDE DEF done
<1>9. /\ ChunkMap(dc) /\ Tiled(dc, regions) /\ BinMap(db) /\ BinnedBut(dc, db, at)
      /\ DOMAIN dc \subseteq DOMAIN chunks
      /\ \A x \in DOMAIN dc : dc[x].stream = freed[x].stream
  BY <1>2, <1>8 DEF Coalesces
<1> HIDE DEF dc, db, at
<1>10. ChunkMap(chunks') /\ BinMap(bins') /\ Binned(chunks', bins')
  BY <1>1, <1>9, InsertBinned
<1>11. /\ at \in DOMAIN dc /\ DOMAIN chunks' = DOMAIN dc /\ dc[at] \in Chunk
       /\ chunks'[at] = [dc[at] EXCEPT !.bin = bin]
       /\ \A x \in DOMAIN dc \ {at} : chunks'[x] = dc[x]
  BY <1>1, <1>9 DEF BinnedBut, ChunkMap, PartialFunction
<1> HIDE DEF bin
<1>12. \A x \in DOMAIN dc : /\ chunks'[x].size = dc[x].size /\ chunks'[x].stream = dc[x].stream
                            /\ chunks'[x].next = dc[x].next /\ chunks'[x].prev = dc[x].prev
  BY <1>11 DEF Chunk
<1>13. Tiled(chunks', regions)
  BY <1>9, <1>11, <1>12, SameShape
<1>14. Indexed(chunks', owned', streamOf', impl) /\ OwnerMaps(owned', streamOf')
  <2> DEFINE D == DOMAIN chunks \ DOMAIN dc
  <2>1. \A s \in Stream : OwnedIn(chunks', s) = OwnedIn(freed, s) \ D
    BY <1>2, <1>9, <1>11, <1>12 DEF OwnedIn
  <2>2. Disown(freed, D) /\ OwnerMaps(owned, streamOf)
    BY <1>1, ArenaParts
  <2> HIDE DEF D
  <2> QED
    BY <2>1, <2>2, <1>7, <1>10, DisownIndexed
<1>15. KeepsInUse(freed, chunks')
  <2>1. \A x \in DOMAIN dc : chunks'[x].inUse = dc[x].inUse
    BY <1>11 DEF Chunk
  <2>2. KeepsInUse(freed, dc)
    BY <1>8 DEF Coalesces, dc
  <2> QED
    BY <2>1, <2>2, <1>11, <1>12 DEF KeepsInUse
<1>16. ArenaInv'
  BY <1>1, <1>10, <1>13, <1>14, ArenaParts, ArenaPartsNext
<1> QED
  BY <1>15, <1>16 DEF freed

-----------------------------------------------------------------------------
(* Shrink and stream release                                               *)

(* Shrink preserves the invariant: it takes whole regions away.            *)
LEMMA ShrinkSound ==
  ASSUME ArenaInv, Shrink
  PROVE  ArenaInv' /\ KeepsInUse(chunks, chunks')
<1> DEFINE gone == {r \in DOMAIN regions : Idle(r)}
           dead == {p \in DOMAIN chunks : \E r \in gone : InRegion(p, r)}
<1>1. /\ regions' = Restrict(regions, DOMAIN regions \ gone)
      /\ chunks' = Restrict(chunks, DOMAIN chunks \ dead)
      /\ bins' = [b \in Bin |-> bins[b] \ dead]
      /\ Disown(chunks, dead)
      /\ currRegion' = Rounded(InitialGrowth)
      /\ UNCHANGED <<impl, reserved>>
  BY DEF Shrink
<1>2. dead = {p \in DOMAIN chunks : \E r \in gone : Within(p, r, regions)}
  BY DEF InRegion
<1>3. gone \subseteq DOMAIN regions /\ \A p \in dead : ~chunks[p].inUse
  BY DEF Idle
<1> HIDE DEF gone, dead
<1>4. /\ ChunkMap(chunks') /\ RegionMap(regions') /\ Apart(regions')
      /\ Tiled(chunks', regions')
  BY <1>1, <1>2, <1>3, ArenaParts, RegionsDropped, ZenonT(60)
<1>5. /\ DOMAIN chunks' = DOMAIN chunks \ dead
      /\ \A x \in DOMAIN chunks' : chunks'[x] = chunks[x]
  BY <1>1 DEF Restrict
<1>6. BinMap(bins') /\ Binned(chunks', bins')
  <2>1. BinMap(bins') /\ \A b \in Bin : bins'[b] = bins[b] \ dead
    BY <1>1, ArenaParts DEF BinMap
  <2>2. \A b \in Bin : bins[b] = {x \in DOMAIN chunks : chunks[x].bin = b}
    BY ArenaParts DEF Binned
  <2>3. \A b \in Bin : bins'[b] = {x \in DOMAIN chunks' : chunks'[x].bin = b}
    BY <2>1, <2>2, <1>5
  <2>4. \A x \in DOMAIN chunks' :
          chunks'[x].bin = IF chunks'[x].inUse THEN None ELSE BinNumForSize(chunks'[x].size)
    BY <1>5, ArenaParts DEF Binned
  <2> QED
    BY <2>1, <2>3, <2>4 DEF Binned
<1>7. Indexed(chunks', owned', streamOf', impl) /\ OwnerMaps(owned', streamOf')
  <2>1. \A s \in Stream : OwnedIn(chunks', s) = OwnedIn(chunks, s) \ dead
    BY <1>5 DEF OwnedIn
  <2> QED
    BY <2>1, <1>1, <1>4, ArenaParts, DisownIndexed
<1>8. currRegion' \in Nat
  BY <1>1, RoundedUp, ArenaAssumption
<1>9. KeepsInUse(chunks, chunks')
  BY <1>3, <1>5 DEF KeepsInUse
<1>10. ArenaInv'
  BY <1>1, <1>4, <1>6, <1>7, <1>8, ArenaParts, ArenaPartsNext
<1> QED
  BY <1>9, <1>10

(* The walk of a stream's release preserves the invariant.                 *)
LEMMA ResetSound ==
  ASSUME ArenaInv, NEW i, ResetChunksUsingStream(i)
  PROVE  ArenaInv' /\ KeepsInUse(chunks, chunks')
<1> DEFINE mine    == ChunksOf(streamOf[i])
           cleared == Cleared(streamOf[i])
           D       == mine \cup (DOMAIN chunks \ Heads(cleared))
<1>1. /\ chunks' = Coalesced(cleared)
      /\ bins' = [b \in Bin |-> {p \in Heads(cleared) : Coalesced(cleared)[p].bin = b}]
      /\ Disown(chunks, D)
      /\ UNCHANGED <<impl, regions, reserved, currRegion>>
  BY DEF ResetChunksUsingStream
<1>2. \A x \in DOMAIN chunks : x \in Nat /\ chunks[x] \in Chunk
  BY ArenaParts DEF ChunkMap, PartialFunction
<1>3. /\ DOMAIN cleared = DOMAIN chunks
      /\ \A x \in DOMAIN chunks :
           cleared[x] = IF x \in mine THEN [chunks[x] EXCEPT !.stream = None] ELSE chunks[x]
  BY DEF Cleared
<1> HIDE DEF cleared, mine
<1>4. \A x \in DOMAIN chunks :
        /\ cleared[x] \in Chunk
        /\ cleared[x].size = chunks[x].size
        /\ cleared[x].next = chunks[x].next /\ cleared[x].prev = chunks[x].prev
        /\ cleared[x].stream = IF x \in mine THEN None ELSE chunks[x].stream
  <2> SUFFICES ASSUME NEW x \in DOMAIN chunks
               PROVE  /\ cleared[x] \in Chunk
                      /\ cleared[x].size = chunks[x].size
                      /\ cleared[x].next = chunks[x].next /\ cleared[x].prev = chunks[x].prev
                      /\ cleared[x].stream = IF x \in mine THEN None ELSE chunks[x].stream
    BY Zenon
  <2> QED
    BY <1>2, <1>3 DEF Chunk
<1>5. ChunkMap(cleared) /\ Tiled(cleared, regions)
  <2>1. Tiled(cleared, regions)
    BY <1>3, <1>4, ArenaParts, SameShape
  <2> QED
    BY <2>1, <1>2, <1>3, <1>4 DEF ChunkMap, PartialFunction
<1>6. ChunkMap(chunks') /\ Tiled(chunks', regions)
  BY <1>1, <1>5, ArenaParts, CoalescedTiled
<1>7. Walked(cleared, chunks')
  BY <1>1, <1>5, CoalescedFields
<1>8. DOMAIN chunks' = Heads(cleared) /\ Heads(cleared) \subseteq DOMAIN chunks
  BY <1>3, <1>7 DEF Walked, Heads
<1>9. BinMap(bins') /\ Binned(chunks', bins')
  <2>1. bins' = [b \in Bin |-> {p \in DOMAIN chunks' : chunks'[p].bin = b}]
    BY <1>1, <1>8
  <2>2. DOMAIN chunks' \subseteq Nat
    BY <1>2, <1>8
  <2>3. BinMap(bins') /\ \A b \in Bin : bins'[b] = {p \in DOMAIN chunks' : chunks'[p].bin = b}
    BY <2>1, <2>2 DEF BinMap
  <2> QED
    BY <2>3, <1>7, <1>8 DEF Binned, Walked
<1>10. Indexed(chunks', owned', streamOf', impl) /\ OwnerMaps(owned', streamOf')
  <2>1. \A h \in Heads(cleared) : chunks'[h].stream = IF h \in mine THEN None ELSE chunks[h].stream
    BY <1>4, <1>7, <1>8 DEF Walked
  <2>2. ASSUME NEW s \in Stream, NEW x
        PROVE  x \in OwnedIn(chunks', s) <=> x \in OwnedIn(chunks, s) /\ x \notin D
    <3>1. s # None
      BY ArenaAssumption
    <3>2. x \in DOMAIN chunks => (x \notin D <=> x \notin mine /\ x \in Heads(cleared))
      OBVIOUS
    <3> HIDE DEF D
    <3> QED
      BY <2>1, <3>1, <3>2, <1>8 DEF OwnedIn
  <2>3. Disown(chunks, D)
    BY <1>1
  <2> HIDE DEF D
  <2>4. \A s \in Stream : OwnedIn(chunks', s) = OwnedIn(chunks, s) \ D
    BY <2>2
  <2> QED
    BY <2>3, <2>4, <1>6, ArenaParts, DisownIndexed
<1>11. /\ RegionMap(regions') /\ Apart(regions') /\ Tiled(chunks', regions')
       /\ PartialFunction(reserved', Nat, Nat \ {0}) /\ currRegion' \in Nat
  BY <1>1, <1>6, ArenaParts
<1>12. KeepsInUse(chunks, chunks')
  <2>1. KeepsInUse(cleared, chunks')
    BY <1>1, <1>5, ArenaParts, CoalescedInUse
  <2>2. \A x \in DOMAIN chunks : cleared[x].inUse = chunks[x].inUse
    BY <1>2, <1>3 DEF Chunk
  <2> QED
    BY <2>1, <2>2, <1>3, <1>4 DEF KeepsInUse
<1>13. ArenaInv'
  BY <1>1, <1>6, <1>9, <1>10, <1>11, ArenaPartsNext
<1> QED
  BY <1>12, <1>13

-----------------------------------------------------------------------------
(* The invariant                                                           *)

(* The constructor establishes the invariant.                              *)
LEMMA ArenaInvInit == Init => ArenaInv
<1> SUFFICES ASSUME Init PROVE ArenaInv
  OBVIOUS
<1>1. currRegion \in Nat
  <2>1. {MaxMem, InitialChunk} \subseteq Nat \ {0}
    BY ArenaAssumption
  <2>2. Min({MaxMem, InitialChunk}) \in {MaxMem, InitialChunk}
    BY <2>1, MinNat
  <2> QED
    BY <2>1, <2>2, RoundedUp DEF Init
<1>2. TypeOK
  BY <1>1 DEF Init, TypeOK, PartialFunction
<1>3. Apart(regions) /\ RegionsTiled /\ ImplsDistinct
  BY DEF Init, Apart, RegionsTiled, Tiled, ImplsDistinct
<1>4. BinsExact /\ IndexAgrees
  BY DEF Init, BinsExact, Binned, IndexAgrees, Indexed
<1> QED
  BY <1>2, <1>3, <1>4 DEF ArenaInv

(* One step per action.                                                    *)
LEMMA ArenaInvStep == ArenaInv /\ [Next]_vars => ArenaInv'
<1> SUFFICES ASSUME ArenaInv, [Next]_vars PROVE ArenaInv'
  OBVIOUS
<1>1. ASSUME UNCHANGED arenaVars, TypeOK', ImplsDistinct', IndexAgrees' PROVE ArenaInv'
  BY <1>1 DEF arenaVars, chunkVars, ArenaInv, RegionsTiled, BinsExact
<1>2. ASSUME NEW s \in Stream, NEW i \in Impl, CreateStream(s, i) PROVE ArenaInv'
  <2>1. impl' = [impl EXCEPT ![s] = i] /\ UNCHANGED arenaVars
    BY <1>2 DEF CreateStream
  <2>2. TypeOK'
    BY <2>1 DEF ArenaInv, TypeOK, arenaVars, chunkVars
  <2>3. impl'[s] = i /\ \A t \in Stream \ {s} : impl'[t] = impl[t] /\ impl[t] # i
    BY <1>2, <2>1, ArenaParts DEF CreateStream
  <2>4. ImplsDistinct'
    BY <2>3 DEF ArenaInv, ImplsDistinct
  <2>5. IndexAgrees'
    <3>1. s \notin DOMAIN owned
      BY <1>2, ArenaParts, ArenaAssumption DEF CreateStream, Indexed, OwnerMaps, PartialFunction
    <3>2. \A t \in DOMAIN owned : t \in Stream \ {s}
      BY <3>1, ArenaParts DEF OwnerMaps, PartialFunction
    <3>3. \A t \in DOMAIN owned : impl'[t] = impl[t]
      BY <2>3, <3>2
    <3> QED
      BY <2>1, <3>3, ArenaParts DEF IndexAgrees, Indexed, arenaVars, chunkVars
  <2> QED
    BY <2>1, <2>2, <2>4, <2>5, <1>1
<1>3. ASSUME NEW s \in Stream, DestroyStream(s) PROVE ArenaInv'
  <2>1. impl' = [impl EXCEPT ![s] = None] /\ UNCHANGED arenaVars
    BY <1>3 DEF DestroyStream
  <2>2. TypeOK'
    BY <2>1 DEF ArenaInv, TypeOK, arenaVars, chunkVars
  <2>3. impl'[s] = None /\ \A t \in Stream \ {s} : impl'[t] = impl[t]
    BY <2>1, ArenaParts
  <2>4. ImplsDistinct'
    BY <2>3 DEF ArenaInv, ImplsDistinct
  <2>5. IndexAgrees'
    <3>1. s \notin DOMAIN owned
      BY <1>3, ArenaParts DEF DestroyStream, Indexed
    <3>2. \A t \in DOMAIN owned : t \in Stream \ {s}
      BY <3>1, ArenaParts DEF OwnerMaps, PartialFunction
    <3>3. \A t \in DOMAIN owned : impl'[t] = impl[t]
      BY <2>3, <3>2
    <3> QED
      BY <2>1, <3>3, ArenaParts DEF IndexAgrees, Indexed, arenaVars, chunkVars
  <2> QED
    BY <2>1, <2>2, <2>4, <2>5, <1>1
<1>4. ASSUME NEW s \in Stream, NEW n \in Request, AllocCached(s, n) PROVE ArenaInv'
  BY <1>4, AllocCachedSound
<1>6. ASSUME NEW s \in Stream, NEW n \in Request, AllocExtended(s, n) PROVE ArenaInv'
  BY <1>6, AllocExtendedSound
<1>7. ASSUME NEW s \in Stream, NEW n \in Request, AllocRefused(s, n) \/ AllocThrows(s, n)
      PROVE  ArenaInv'
  <2>1. Extending(s, n) /\ UNCHANGED <<regions, chunkVars>>
    BY <1>7 DEF AllocRefused, AllocThrows
  <2>2. UNCHANGED <<regions, chunks, bins, owned, streamOf>>
    BY <2>1 DEF chunkVars
  <2> QED
    BY <2>1, <2>2, ExtendingType, ArenaParts, ArenaPartsNext
<1>8. ASSUME NEW n \in Request, Reserve(n) PROVE ArenaInv'
  <2>1. PICK b \in Base : reserved' = [r \in DOMAIN reserved \cup {b} |->
                                         IF r = b THEN n ELSE reserved[r]]
    BY <1>8 DEF Reserve
  <2>2. UNCHANGED <<impl, regions, chunks, bins, owned, streamOf, currRegion>>
    BY <1>8 DEF Reserve, chunkVars
  <2>3. PartialFunction(reserved', Nat, Nat \ {0})
    BY <2>1, ArenaParts, ArenaAssumption DEF PartialFunction
  <2> QED
    BY <2>2, <2>3, ArenaParts, ArenaPartsNext
<1>9. ASSUME NEW p, FreeReserved(p) PROVE ArenaInv'
  <2>1. reserved' = Restrict(reserved, DOMAIN reserved \ {p})
    BY <1>9 DEF FreeReserved
  <2>2. UNCHANGED <<impl, regions, chunks, bins, owned, streamOf, currRegion>>
    BY <1>9 DEF FreeReserved, chunkVars
  <2>3. PartialFunction(reserved', Nat, Nat \ {0})
    BY <2>1, ArenaParts DEF PartialFunction, Restrict
  <2> QED
    BY <2>2, <2>3, ArenaParts, ArenaPartsNext
<1>10. CASE UNCHANGED vars
  <2>1. UNCHANGED <<impl, regions, chunks, bins, owned, streamOf, reserved, currRegion>>
    BY <1>10 DEF vars, arenaVars, chunkVars
  <2> QED
    BY <2>1, ArenaParts, ArenaPartsNext
<1>11. CASE Next
  <2>1. CASE \E s \in Stream, n \in Request : AllocOnStream(s, n)
    BY <2>1, <1>4, <1>6, <1>7 DEF AllocOnStream
  <2>2. CASE \E p \in DOMAIN reserved \cup DOMAIN chunks : Free(p)
    BY <2>2, <1>9, FreeChunkSound DEF Free
  <2>3. CASE Shrink
    BY <2>3, ShrinkSound
  <2>4. CASE \E i \in Impl : ResetChunksUsingStream(i)
    BY <2>4, ResetSound
  <2> QED
    BY <1>2, <1>3, <1>8, <1>11, <2>1, <2>2, <2>3, <2>4 DEF Next
<1> QED
  BY <1>10, <1>11

(* The invariant of the arena: musa_arena.cc and arena_ownership_index.h   *)
(* keep regions, bins and index consistent through every operation.        *)
THEOREM ArenaInvAlways == Spec => []ArenaInv
<1> QED
  BY ArenaInvInit, ArenaInvStep, PTL DEF Spec

(* Every field has its type: a bin number is that of a bin, a link an      *)
(* address, an owner a stream.                                             *)
THEOREM TypeAlwaysOK == Spec => []TypeOK
<1>1. ArenaInv => TypeOK
  BY DEF ArenaInv
<1> QED
  BY <1>1, ArenaInvAlways, PTL

(* Splitting, merging, extending, shrinking and the walk of a release keep *)
(* every region cut into linked chunks without gap or overlap.             *)
THEOREM RegionsAlwaysTiled == Spec => []RegionsTiled
<1>1. ArenaInv => RegionsTiled
  BY DEF ArenaInv
<1> QED
  BY <1>1, ArenaInvAlways, PTL

(* The bins hold exactly the free chunks, each in the bin of its size.     *)
THEOREM BinsAlwaysExact == Spec => []BinsExact
<1>1. ArenaInv => BinsExact
  BY DEF ArenaInv
<1> QED
  BY <1>1, ArenaInvAlways, PTL

(* The ownership index says of every chunk what the chunk says.            *)
THEOREM IndexAlwaysAgrees == Spec => []IndexAgrees
<1>1. ArenaInv => IndexAgrees
  BY DEF ArenaInv
<1> QED
  BY <1>1, ArenaInvAlways, PTL

(* Assign never throws for a chunk that the search may hand out: no chunk  *)
(* is lost by an allocation that fails after taking it.                    *)
THEOREM AssignIsSafe == Spec => []AssignNeverThrows
<1>1. ArenaInv => AssignNeverThrows
  <2> SUFFICES ASSUME ArenaInv, NEW s \in Stream, NEW p \in DOMAIN chunks,
                      impl[s] # None, chunks[p].stream \in {s, None}
               PROVE  ~AssignThrows(p, s)
    BY DEF AssignNeverThrows
  <2>1. impl[s] \in DOMAIN streamOf => streamOf[impl[s]] = s
    BY ArenaParts DEF Indexed, ImplsDistinct, OwnerMaps, PartialFunction
  <2> QED
    BY <2>1 DEF AssignThrows
<1> QED
  BY <1>1, ArenaInvAlways, PTL

(* An allocation stays where it is, with its size, until it is freed:      *)
(* neither another stream's requests, nor a coalescing Free next to it,    *)
(* nor Shrink, nor its own stream's release touches it.                    *)
THEOREM InUseIsUntouched == Spec => InUseUntouched
<1> DEFINE Untouched ==
      \A p \in DOMAIN chunks : chunks[p].inUse =>
        \/ FreeChunkAt(p)
        \/ /\ p \in DOMAIN chunks' /\ chunks'[p].inUse
           /\ chunks'[p].size = chunks[p].size
<1>1. ASSUME KeepsInUse(chunks, chunks') PROVE Untouched
  BY <1>1 DEF KeepsInUse
<1>2. ASSUME UNCHANGED chunks PROVE Untouched
  BY <1>2
<1>3. ASSUME ArenaInv, NEW q, FreeChunkAt(q) PROVE Untouched
  <2> DEFINE freed == [chunks EXCEPT ![q].inUse = FALSE]
  <2>1. KeepsInUse(freed, chunks')
    BY <1>3, FreeChunkSound
  <2>2. DOMAIN freed = DOMAIN chunks /\ \A x \in DOMAIN chunks \ {q} : freed[x] = chunks[x]
    OBVIOUS
  <2> HIDE DEF freed
  <2>3. ASSUME NEW p \in DOMAIN chunks, chunks[p].inUse, p # q
        PROVE  p \in DOMAIN chunks' /\ chunks'[p].inUse /\ chunks'[p].size = chunks[p].size
    BY <2>1, <2>2, <2>3 DEF KeepsInUse
  <2> QED
    BY <2>3, <1>3
<1>4. ASSUME ArenaInv, NEW s \in Stream, NEW n \in Request, AllocOnStream(s, n) PROVE Untouched
  <2>1. CASE AllocCached(s, n)
    BY <2>1, <1>1, <1>4, AllocCachedSound
  <2>2. CASE AllocExtended(s, n)
    BY <2>2, <1>1, <1>4, AllocExtendedSound
  <2>3. CASE AllocRefused(s, n) \/ AllocThrows(s, n)
    BY <2>3, <1>2 DEF AllocRefused, AllocThrows, chunkVars
  <2> QED
    BY <2>1, <2>2, <2>3, <1>4 DEF AllocOnStream
<1>5. ASSUME ArenaInv, [Next]_vars PROVE Untouched
  <2>1. CASE \E s \in Stream, i \in Impl : CreateStream(s, i)
    BY <2>1, <1>2 DEF CreateStream, arenaVars, chunkVars
  <2>2. CASE \E s \in Stream : DestroyStream(s)
    BY <2>2, <1>2 DEF DestroyStream, arenaVars, chunkVars
  <2>3. CASE \E s \in Stream, n \in Request : AllocOnStream(s, n)
    BY <2>3, <1>4, <1>5
  <2>4. CASE \E n \in Request : Reserve(n)
    BY <2>4, <1>2 DEF Reserve, chunkVars
  <2>5. CASE \E p \in DOMAIN reserved \cup DOMAIN chunks : Free(p)
    <3>1. PICK p : Free(p)
      BY <2>5
    <3>2. CASE FreeReserved(p)
      BY <3>2, <1>2 DEF FreeReserved, chunkVars
    <3>3. CASE FreeChunkAt(p)
      BY <3>3, <1>3, <1>5
    <3> QED
      BY <3>1, <3>2, <3>3 DEF Free
  <2>6. CASE Shrink
    BY <2>6, <1>1, <1>5, ShrinkSound
  <2>7. CASE \E i \in Impl : ResetChunksUsingStream(i)
    BY <2>7, <1>1, <1>5, ResetSound
  <2>8. CASE UNCHANGED vars
    BY <2>8, <1>2 DEF vars, arenaVars, chunkVars
  <2> HIDE DEF Untouched
  <2> QED
    BY <1>5, <2>1, <2>2, <2>3, <2>4, <2>5, <2>6, <2>7, <2>8 DEF Next
<1>6. ArenaInv /\ [Next]_vars => [Untouched]_vars
  BY <1>5
<1> HIDE DEF Untouched
<1>7. Spec => [][Untouched]_vars
  BY <1>6, ArenaInvAlways, PTL DEF Spec
<1> QED
  BY <1>7 DEF Untouched, InUseUntouched

-----------------------------------------------------------------------------
(* What each operation does to the chunks in use                           *)

(* A chunk in use afterwards was in use before, for the same request.      *)
OnlyInUse(cs, ds) ==
  \A x \in DOMAIN ds : ds[x].inUse =>
    /\ x \in DOMAIN cs /\ cs[x].inUse
    /\ ds[x].size = cs[x].size /\ ds[x].requested = cs[x].requested

(* No two neighbours could be one larger free chunk.                       *)
Merged(cs) == \A p \in DOMAIN cs : ~Mergeable(cs, p, cs[p].next)

(* The fields of a chunk that is cut, and of its rest.                     *)
LEMMA CutFields ==
  ASSUME NEW cs, NEW rs, ChunkMap(cs), RegionMap(rs), Apart(rs), Tiled(cs, rs),
         NEW p \in DOMAIN cs, NEW n \in Nat \ {0}, n < cs[p].size,
         NEW ds, ds = SplitChunk(cs, p, n)
  PROVE  /\ \A x \in DOMAIN cs : /\ ds[x].requested = cs[x].requested
                                 /\ x # p => ds[x].next = cs[x].next
         /\ ds[p].next = p + n /\ ds[p + n].next = cs[p].next
<1>1. p + n \notin DOMAIN cs /\ p \in Nat /\ p # p + n /\ \A x \in DOMAIN cs : cs[x] \in Chunk
  <2>1. p + n \notin DOMAIN cs
    BY SplitTiled
  <2>2. p \in Nat /\ \A x \in DOMAIN cs : cs[x] \in Chunk
    BY Links
  <2> QED
    BY <2>1, <2>2
<1>2. /\ ds[p] = [cs[p] EXCEPT !.size = n, !.next = p + n]
      /\ ds[p + n] = [FreeChunk(cs[p].size - n) EXCEPT
                        !.prev = p, !.next = cs[p].next, !.stream = cs[p].stream]
      /\ \A x \in DOMAIN cs : x # p => ds[x] = cs[x] \/ ds[x] = [cs[x] EXCEPT !.prev = p + n]
  BY <1>1 DEF SplitChunk
<1>3. ASSUME NEW x \in DOMAIN cs, x # p
      PROVE  ds[x].requested = cs[x].requested /\ ds[x].next = cs[x].next
  <2>1. cs[x] \in Chunk
    BY <1>1
  <2> DEFINE c == [cs[x] EXCEPT !.prev = p + n]
  <2>2. c.requested = cs[x].requested /\ c.next = cs[x].next
    BY <2>1 DEF Chunk
  <2> HIDE DEF c
  <2>3. ds[x] = cs[x] \/ ds[x] = c
    BY <1>2, <1>3 DEF c
  <2> QED
    BY <2>2, <2>3
<1>4. ds[p].requested = cs[p].requested /\ ds[p].next = p + n
  BY <1>1, <1>2 DEF Chunk
<1>5. ds[p + n].next = cs[p].next
  BY <1>2 DEF FreeChunk
<1> QED
  BY <1>3, <1>4, <1>5

(* The chunk that is taken, and all the others.                            *)
LEMMA TakeChunkGives ==
  ASSUME NEW cs, NEW bs, NEW rs, ChunkMap(cs), BinMap(bs), RegionMap(rs), Apart(rs),
         Tiled(cs, rs), Binned(cs, bs),
         NEW s \in Stream, NEW n \in Request,
         NEW p \in DOMAIN cs, TakeChunk(cs, bs, p, n, s)
  PROVE  /\ ~cs[p].inUse /\ cs[p].size \in Nat /\ Rounded(n) <= cs[p].size
         /\ p \in DOMAIN chunks' /\ chunks'[p].inUse
         /\ chunks'[p].requested = n /\ chunks'[p].stream = s
         /\ chunks'[p].size = IF WorthSplitting(cs[p].size, Rounded(n)) THEN Rounded(n) ELSE cs[p].size
         /\ bytesInUse' = bytesInUse + chunks'[p].size
         /\ \A x \in DOMAIN chunks' \ {p} : chunks'[x].inUse =>
              /\ x \in DOMAIN cs /\ cs[x].inUse
              /\ chunks'[x].size = cs[x].size /\ chunks'[x].requested = cs[x].requested
         /\ Merged(cs) => Merged(chunks')
         /\ IsFiniteSet(DOMAIN cs) => IsFiniteSet(DOMAIN chunks')
<1> DEFINE m     == Rounded(n)
           split == WorthSplitting(cs[p].size, m)
           q     == p + m
           cut   == IF split THEN SplitChunk(cs, p, m) ELSE cs
<1>1. n \in Nat \ {0} /\ m \in Nat \ {0} /\ n <= m /\ None \notin Stream /\ None \notin Bin
  BY RoundedUp, ArenaAssumption DEF Bin
<1>2. /\ p \in Nat /\ cs[p] \in Chunk /\ cs[p].size \in Nat \ {0}
      /\ \A x \in DOMAIN cs : x \in Nat /\ cs[x] \in Chunk
  BY Links
<1>3. /\ m <= cs[p].size /\ cs[p].stream \in {s, None} /\ ~cs[p].inUse
  <2>1. p \in Candidates(cs, bs, m, s)
    BY DEF TakeChunk
  <2>2. PICK b \in BinNumForSize(m) .. NumBins - 1 : p \in bs[b]
    BY <2>1 DEF Candidates
  <2>3. b \in Bin
    BY <2>2, BinIndex, ArenaAssumption DEF Bin
  <2>4. cs[p].bin = b
    BY <2>2, <2>3 DEF Binned
  <2>5. ~cs[p].inUse
    BY <2>3, <2>4, <1>1 DEF Binned
  <2> QED
    BY <2>1, <2>5, <1>1, <1>2 DEF Candidates
<1>4. split => m < cs[p].size
  BY <1>1, <1>2, <1>3, ArenaAssumption DEF WorthSplitting
<1>5. /\ ChunkMap(cut) /\ Tiled(cut, rs) /\ p \in DOMAIN cut
      /\ \A x : x \in DOMAIN cut <=> x \in DOMAIN cs \/ (split /\ x = q)
      /\ \A x \in DOMAIN cs : /\ cut[x].inUse = cs[x].inUse
                              /\ cut[x].stream = cs[x].stream
                              /\ x # p => cut[x].size = cs[x].size
      /\ split => q \notin DOMAIN cs /\ ~cut[q].inUse /\ cut[q].stream = cs[p].stream
  <2>1. split \in BOOLEAN /\ m \in Nat \ {0}
    BY <1>1 DEF WorthSplitting
  <2> HIDE DEF m, split
  <2> QED
    BY <2>1, <1>4, MaybeCutSound
<1>6. /\ \A x \in DOMAIN cs : /\ cut[x].requested = cs[x].requested
                              /\ x # p => cut[x].next = cs[x].next
      /\ cut[p].size = IF split THEN m ELSE cs[p].size
      /\ IF split THEN cut[p].next = q /\ cut[q].next = cs[p].next ELSE cut[p].next = cs[p].next
  <2>1. CASE split
    <3>1. m \in Nat \ {0} /\ m < cs[p].size
      BY <2>1, <1>1, <1>4
    <3>2. cut = SplitChunk(cs, p, m)
      BY <2>1
    <3> HIDE DEF m, split, cut
    <3> QED
      BY <2>1, <3>1, <3>2, CutFields, CutSound DEF q
  <2>2. CASE ~split
    BY <2>2
  <2> QED
    BY <2>1, <2>2
<1>7. /\ chunks' = [cut EXCEPT ![p].requested = n, ![p].inUse = TRUE,
                               ![p].bin = None, ![p].stream = s]
      /\ bytesInUse' = bytesInUse + cut[p].size
  BY DEF TakeChunk
<1> HIDE DEF cut, m, split, q
<1>8. /\ DOMAIN chunks' = DOMAIN cut
      /\ chunks'[p] = [cut[p] EXCEPT !.requested = n, !.inUse = TRUE, !.bin = None, !.stream = s]
      /\ \A x \in DOMAIN cut \ {p} : chunks'[x] = cut[x]
  BY <1>5, <1>7
<1>9. /\ chunks'[p].inUse /\ chunks'[p].stream = s /\ chunks'[p].requested = n
      /\ chunks'[p].size = cut[p].size /\ chunks'[p].next = cut[p].next
  <2>1. cut[p] \in Chunk
    BY <1>5 DEF ChunkMap, PartialFunction
  <2> QED
    BY <2>1, <1>8 DEF Chunk
<1>10. ASSUME NEW x \in DOMAIN chunks' \ {p}, chunks'[x].inUse
       PROVE  /\ x \in DOMAIN cs /\ cs[x].inUse
              /\ chunks'[x].size = cs[x].size /\ chunks'[x].requested = cs[x].requested
  BY <1>10, <1>5, <1>6, <1>8
<1>11. ASSUME Merged(cs), NEW x \in DOMAIN chunks', NEW y, y = chunks'[x].next,
              Mergeable(chunks', x, y)
       PROVE  FALSE
  <2>1. /\ x # None /\ y # None /\ ~chunks'[x].inUse /\ ~chunks'[y].inUse
        /\ chunks'[x].stream = chunks'[y].stream
    BY <1>11 DEF Mergeable
  <2>2. x # p /\ y # p /\ x \in DOMAIN cut /\ chunks'[x] = cut[x] /\ y = cut[x].next
    BY <2>1, <1>8, <1>9, <1>11
  <2>3. y \in DOMAIN cut /\ chunks'[y] = cut[y]
    BY <2>1, <2>2, <1>5, <1>8, Links
  <2>4. CASE x \in DOMAIN cs
    <3>1. cs[x].next = y /\ ~cs[x].inUse /\ cut[x].stream = cs[x].stream
      BY <2>1, <2>2, <2>4, <1>5, <1>6
    <3>2. y \in DOMAIN cs
      BY <2>1, <3>1, <2>4, Links
    <3>3. ~cs[y].inUse /\ cs[y].stream = cs[x].stream
      BY <2>1, <2>2, <2>3, <2>4, <3>1, <3>2, <1>5
    <3>4. Mergeable(cs, x, cs[x].next)
      BY <2>1, <3>1, <3>3 DEF Mergeable
    <3> QED
      BY <2>4, <3>4, <1>11 DEF Merged
  <2>5. CASE x \notin DOMAIN cs
    <3>1. split /\ x = q /\ cut[q].stream = cs[p].stream /\ cs[p].next = y
      BY <2>2, <2>5, <1>5, <1>6
    <3>2. y \in DOMAIN cs /\ p # None
      BY <2>1, <3>1, Links
    <3>3. ~cs[y].inUse /\ cs[y].stream = cs[p].stream
      BY <2>1, <2>2, <2>3, <3>1, <3>2, <1>5
    <3>4. Mergeable(cs, p, cs[p].next)
      BY <2>1, <3>1, <3>2, <3>3, <1>3 DEF Mergeable
    <3> QED
      BY <3>4, <1>11 DEF Merged
  <2> QED
    BY <2>4, <2>5
<1>12. Merged(cs) => Merged(chunks')
  BY <1>11 DEF Merged
<1>13. IsFiniteSet(DOMAIN cs) => IsFiniteSet(DOMAIN chunks')
  <2>1. DOMAIN chunks' \subseteq DOMAIN cs \cup {q}
    BY <1>5, <1>8
  <2> QED
    BY <2>1, FS_AddElement, FS_Subset
<1> QED
  BY <1>2, <1>3, <1>5, <1>6, <1>7, <1>8, <1>9, <1>10, <1>12, <1>13 DEF m, split

(* Merging two neighbours that are alike brings no other two together that *)
(* could be merged: p is to its new neighbour as q was.                    *)
LEMMA MergeGives ==
  ASSUME NEW cs, NEW rs, ChunkMap(cs), Tiled(cs, rs),
         NEW p \in DOMAIN cs, NEW q \in DOMAIN cs, cs[p].next = q, Mergeable(cs, p, q),
         NEW ds, ds = Merge(cs, p, q)
  PROVE  /\ OnlyInUse(cs, ds)
         /\ \A x \in DOMAIN ds :
              /\ x \in DOMAIN cs \ {q}
              /\ ds[x].next = IF x = p THEN cs[q].next ELSE cs[x].next
              /\ Mergeable(ds, x, ds[x].next) =>
                   IF x = p THEN Mergeable(cs, q, cs[q].next) ELSE Mergeable(cs, x, cs[x].next)
<1>1. /\ p # q /\ ~cs[p].inUse /\ ~cs[q].inUse /\ cs[p].stream = cs[q].stream
      /\ \A z \in DOMAIN cs : cs[z] \in Chunk
  BY Links DEF Mergeable
<1>2. DOMAIN ds = DOMAIN cs \ {q} /\ Kept(cs, ds, p, q)
  BY MergeFields
<1>3. /\ ds[p] = [cs[p] EXCEPT !.size = @ + cs[q].size, !.next = cs[q].next]
      /\ \A z \in DOMAIN cs \ {p, q} : ds[z] = cs[z] \/ ds[z] = [cs[z] EXCEPT !.prev = p]
  BY <1>1 DEF Merge
<1>4. ASSUME NEW x \in DOMAIN ds
      PROVE  /\ x \in DOMAIN cs \ {q}
             /\ ds[x].requested = cs[x].requested
             /\ ds[x].next = IF x = p THEN cs[q].next ELSE cs[x].next
  <2>1. CASE x = p
    BY <2>1, <1>1, <1>2, <1>3 DEF Chunk
  <2>2. CASE x # p
    <3> DEFINE c == [cs[x] EXCEPT !.prev = p]
    <3>1. c.requested = cs[x].requested /\ c.next = cs[x].next
      BY <1>1, <1>2 DEF Chunk
    <3>2. ds[x] = cs[x] \/ ds[x] = c
      BY <2>2, <1>2, <1>3
    <3> HIDE DEF c
    <3> QED
      BY <2>2, <3>1, <3>2, <1>2
  <2> QED
    BY <2>1, <2>2
<1>5. OnlyInUse(cs, ds)
  BY <1>1, <1>2, <1>4 DEF OnlyInUse, Kept
<1>6. ASSUME NEW x \in DOMAIN ds, NEW y, y = ds[x].next, Mergeable(ds, x, y)
      PROVE  IF x = p THEN Mergeable(cs, q, cs[q].next) ELSE Mergeable(cs, x, cs[x].next)
  <2>1. /\ x # None /\ y # None /\ ~ds[x].inUse /\ ~ds[y].inUse /\ ds[x].stream = ds[y].stream
    BY <1>6 DEF Mergeable
  <2>2. q \in Nat /\ None \notin Nat
    BY Links
  <2>3. CASE x = p
    <3>1. cs[q].next = y /\ y \in DOMAIN cs /\ y # q
      <4>1. cs[q].next = y
        BY <2>3, <1>4, <1>6
      <4> QED
        BY <4>1, <2>1, <2>2, Links
    <3>2. ~cs[y].inUse /\ cs[y].stream = cs[q].stream
      BY <2>1, <2>3, <3>1, <1>1, <1>2 DEF Kept
    <3>3. Mergeable(cs, q, y)
      BY <2>1, <2>2, <3>2, <1>1 DEF Mergeable
    <3> QED
      BY <2>3, <3>1, <3>3
  <2>4. CASE x # p
    <3>1. x \in DOMAIN cs \ {q} /\ cs[x].next = y /\ y \in DOMAIN cs
      <4>1. x \in DOMAIN cs \ {q} /\ cs[x].next = y
        BY <2>4, <1>4, <1>6
      <4> QED
        BY <4>1, <2>1, Links
    <3>2. y # q
      BY <2>4, <3>1, <2>1, Links
    <3>3. ~cs[x].inUse /\ ~cs[y].inUse /\ cs[x].stream = cs[y].stream
      BY <2>1, <3>1, <3>2, <1>2 DEF Kept
    <3>4. Mergeable(cs, x, y)
      BY <2>1, <3>3 DEF Mergeable
    <3> QED
      BY <2>4, <3>1, <3>4
  <2> QED
    BY <2>3, <2>4
<1> QED
  BY <1>4, <1>5, <1>6

(* Nothing can be merged, but for chunk p, which was just freed.           *)
MergedBut(cs, p) ==
  \A x \in DOMAIN cs : Mergeable(cs, x, cs[x].next) => x = p \/ cs[x].next = p

(* Coalesce merges all that the freed chunk can be merged with.            *)
LEMMA CoalesceGives ==
  ASSUME NEW cs, NEW bs, NEW rs, NEW p, ChunkMap(cs), RegionMap(rs), Apart(rs),
         Tiled(cs, rs), p \in DOMAIN cs, ~cs[p].inUse, NEW done, done = Coalesce(cs, bs, p)
  PROVE  /\ OnlyInUse(cs, done.chunks)
         /\ MergedBut(cs, p) => Merged(done.chunks)
<1> DEFINE next     == cs[p].next
           withNext == Mergeable(cs, p, next)
           cs1      == IF withNext THEN Merge(cs, p, next) ELSE cs
           prev     == cs[p].prev
           withPrev == Mergeable(cs1, prev, p)
<1>1. /\ ChunkMap(cs1) /\ Tiled(cs1, rs) /\ p \in DOMAIN cs1 /\ cs1[p].prev = prev
      /\ ~cs1[p].inUse
      /\ OnlyInUse(cs, cs1)
      /\ MergedBut(cs, p) =>
           \A x \in DOMAIN cs1 : Mergeable(cs1, x, cs1[x].next) => cs1[x].next = p /\ x # p
  <2>1. CASE withNext
    <3>1. next \in DOMAIN cs /\ cs[p].next = next /\ p # next /\ Mergeable(cs, p, next)
      BY <2>1, Links DEF Mergeable
    <3>2. cs1 = Merge(cs, p, next)
      BY <2>1
    <3> HIDE DEF next, withNext, cs1
    <3>3. ChunkMap(cs1) /\ Tiled(cs1, rs) /\ DOMAIN cs1 = DOMAIN cs \ {next}
      BY <3>1, <3>2, MergeTiled
    <3>4. Kept(cs, cs1, p, next)
      BY <3>1, <3>2, MergeFields
    <3>5. /\ OnlyInUse(cs, cs1)
          /\ \A x \in DOMAIN cs1 :
              /\ x \in DOMAIN cs \ {next}
              /\ cs1[x].next = IF x = p THEN cs[next].next ELSE cs[x].next
              /\ Mergeable(cs1, x, cs1[x].next) =>
                   IF x = p THEN Mergeable(cs, next, cs[next].next) ELSE Mergeable(cs, x, cs[x].next)
      BY <3>1, <3>2, MergeGives
    <3>6. p \in DOMAIN cs1 /\ cs1[p].prev = prev /\ ~cs1[p].inUse
      BY <3>1, <3>3, <3>4 DEF Kept
    <3>7. ASSUME MergedBut(cs, p), NEW x \in DOMAIN cs1, Mergeable(cs1, x, cs1[x].next)
          PROVE  cs1[x].next = p /\ x # p
      <4>1. CASE x = p
        <5>1. Mergeable(cs, next, cs[next].next)
          BY <3>5, <3>7, <4>1
        <5>2. cs[next].next = p
          BY <5>1, <3>1, <3>7 DEF MergedBut
        <5> QED
          BY <5>2, <3>1, Links
      <4>2. CASE x # p
        BY <3>5, <3>7, <4>2 DEF MergedBut
      <4> QED
        BY <4>1, <4>2
    <3> QED
      BY <3>3, <3>5, <3>6, <3>7
  <2>2. CASE ~withNext
    <3>1. cs1 = cs
      BY <2>2
    <3>2. OnlyInUse(cs, cs)
      BY DEF OnlyInUse
    <3>3. ASSUME MergedBut(cs, p), NEW x \in DOMAIN cs, Mergeable(cs, x, cs[x].next)
          PROVE  cs[x].next = p /\ x # p
      BY <2>2, <3>3 DEF MergedBut
    <3> QED
      BY <3>1, <3>2, <3>3
  <2> QED
    BY <2>1, <2>2
<1>2. done.chunks = IF withPrev THEN Merge(cs1, prev, p) ELSE cs1
  BY DEF Coalesce
<1> HIDE DEF cs1
<1>3. CASE withPrev
  <2>1. prev \in DOMAIN cs1 /\ cs1[prev].next = p /\ prev # p /\ Mergeable(cs1, prev, p)
    BY <1>1, <1>3, Links DEF Mergeable
  <2> DEFINE dc == done.chunks
  <2>2. dc = Merge(cs1, prev, p)
    BY <1>2, <1>3
  <2> HIDE DEF prev, withPrev, dc
  <2>3. /\ OnlyInUse(cs1, dc)
        /\ \A x \in DOMAIN dc :
             /\ x \in DOMAIN cs1 \ {p}
             /\ Mergeable(dc, x, dc[x].next) =>
                  IF x = prev THEN Mergeable(cs1, p, cs1[p].next) ELSE Mergeable(cs1, x, cs1[x].next)
    BY <1>1, <2>1, <2>2, MergeGives
  <2>4. OnlyInUse(cs, dc)
    BY <1>1, <2>3 DEF OnlyInUse
  <2>5. ASSUME MergedBut(cs, p), NEW x \in DOMAIN dc, Mergeable(dc, x, dc[x].next) PROVE FALSE
    <3>1. CASE x = prev
      BY <3>1, <2>3, <2>5, <1>1
    <3>2. CASE x # prev
      <4>1. x \in DOMAIN cs1 /\ cs1[x].next = p
        BY <3>2, <2>3, <2>5, <1>1
      <4>2. x = cs1[p].prev
        BY <4>1, <1>1, Links
      <4> QED
        BY <4>2, <3>2, <1>1
    <3> QED
      BY <3>1, <3>2
  <2> QED
    BY <2>4, <2>5 DEF Merged, dc
<1>4. CASE ~withPrev
  <2>1. done.chunks = cs1
    BY <1>2, <1>4
  <2>2. ASSUME MergedBut(cs, p), NEW x \in DOMAIN cs1, Mergeable(cs1, x, cs1[x].next) PROVE FALSE
    <3>1. cs1[x].next = p
      BY <2>2, <1>1
    <3>2. x = cs1[p].prev
      BY <3>1, <1>1, Links
    <3> QED
      BY <3>1, <3>2, <2>2, <1>1, <1>4
  <2> HIDE DEF prev, withPrev
  <2> QED
    BY <2>1, <2>2, <1>1 DEF Merged
<1> QED
  BY <1>3, <1>4

(* A chunk that is no head is free, as its run's head is, and of the same  *)
(* stream.                                                                 *)
LEMMA RunAlike ==
  ASSUME NEW cs, NEW rs, ChunkMap(cs), RegionMap(rs), Apart(rs), Tiled(cs, rs),
         NEW h \in Heads(cs), NEW p \in RunOf(cs, h)
  PROVE  p = h \/ (~cs[p].inUse /\ ~cs[h].inUse /\ cs[p].stream = cs[h].stream)
<1> DEFINE Alike(x) == ~cs[x].inUse /\ ~cs[h].inUse /\ cs[x].stream = cs[h].stream
           Bad == {x \in RunOf(cs, h) : x # h /\ ~Alike(x)}
<1>1. SUFFICES ASSUME Bad # {} PROVE FALSE
  OBVIOUS
<1>2. /\ h \in DOMAIN cs
      /\ \A x \in DOMAIN cs : x \in Nat /\ cs[x] \in Chunk /\ cs[x].size \in Nat \ {0}
  BY Links DEF Heads
<1>3. \A x : x \in RunOf(cs, h) <=>
        x \in DOMAIN cs /\ h <= x /\ \A k \in Heads(cs) : k <= h \/ x < k
  BY DEF RunOf
<1>4. Bad \in SUBSET Nat
  BY <1>2, <1>3
<1>5. PICK x \in Bad : \A y \in Bad : x <= y
  <2> HIDE DEF Bad
  <2> QED
    BY <1>1, <1>4, LeastNat
<1>6. x \in DOMAIN cs /\ h < x /\ x \in Nat /\ h \in Nat /\ \A k \in Heads(cs) : k <= h \/ x < k
  BY <1>2, <1>3, <1>5
<1>7. x \notin Heads(cs)
  BY <1>6
<1> DEFINE y == cs[x].prev
<1>8. Mergeable(cs, y, x)
  BY <1>6, <1>7 DEF Heads, IsHead
<1>9. y \in DOMAIN cs /\ x = y + cs[y].size /\ y < x
  BY <1>6, <1>8, Links DEF Mergeable
<1>10. h <= y
  <2>1. y < h => y + cs[y].size <= h
    BY <1>2, <1>9 DEF Tiled
  <2> HIDE DEF y
  <2> QED
    BY <2>1, <1>2, <1>6, <1>9
<1>11. y \in RunOf(cs, h)
  <2> HIDE DEF y, Bad
  <2>1. \A k \in Heads(cs) : k \in Nat
    BY <1>2 DEF Heads
  <2> QED
    BY <2>1, <1>2, <1>3, <1>6, <1>9, <1>10
<1>12. y = h \/ Alike(y)
  <2>1. y \notin Bad
    <3> HIDE DEF y, Bad
    <3> QED
      BY <1>2, <1>5, <1>6, <1>9
  <2> QED
    BY <2>1, <1>11
<1>13. Alike(x)
  BY <1>8, <1>12 DEF Mergeable
<1> QED
  BY <1>5, <1>13

(* After the walk of a release nothing is left to merge, and what is in    *)
(* use is as before.                                                       *)
LEMMA CoalescedGives ==
  ASSUME NEW cs, NEW rs, ChunkMap(cs), RegionMap(rs), Apart(rs), Tiled(cs, rs)
  PROVE  OnlyInUse(cs, Coalesced(cs)) /\ Merged(Coalesced(cs))
<1> DEFINE ds == Coalesced(cs)
<1>1. Walked(cs, ds) /\ KeepsInUse(cs, ds) /\ ChunkMap(ds) /\ Tiled(ds, rs)
  BY CoalescedFields, CoalescedInUse, CoalescedTiled
<1>2. DOMAIN ds = Heads(cs) /\ Heads(cs) \subseteq DOMAIN cs
  BY DEF Coalesced, Heads
<1>3. ASSUME NEW h \in Heads(cs)
      PROVE  ds[h].requested = cs[h].requested /\ ds[h].next = cs[RunEnd(cs, h)].next
  <2> DEFINE size == RunEnd(cs, h) + cs[RunEnd(cs, h)].size - h
             bin  == IF cs[h].inUse THEN None ELSE BinNumForSize(size)
             next == cs[RunEnd(cs, h)].next
             prev == IF cs[h].prev = None THEN None ELSE HeadOf(cs, cs[h].prev)
  <2>1. ds[h] = [cs[h] EXCEPT !.size = size, !.bin = bin, !.next = next, !.prev = prev]
    BY DEF Coalesced
  <2>2. cs[h] \in Chunk
    BY DEF ChunkMap, PartialFunction, Heads
  <2> HIDE DEF size, bin, next, prev, ds
  <2>3. ds[h].requested = cs[h].requested /\ ds[h].next = next
    BY <2>1, <2>2 DEF Chunk
  <2> QED
    BY <2>3 DEF next
<1> HIDE DEF ds
<1>4. OnlyInUse(cs, ds)
  BY <1>1, <1>2, <1>3 DEF OnlyInUse, Walked, KeepsInUse
<1>5. ASSUME NEW h \in DOMAIN ds, NEW q, q = ds[h].next, Mergeable(ds, h, q)
      PROVE  FALSE
  <2> DEFINE l == RunEnd(cs, h)
  <2>1. /\ h \in Heads(cs) /\ l \in RunOf(cs, h) /\ l \in DOMAIN cs /\ h <= l
        /\ \A p \in RunOf(cs, h) : p <= l
        /\ \A k \in Heads(cs) : k <= h \/ l < k
    BY <1>2, Runs DEF RunOf
  <2>2. /\ ~ds[h].inUse /\ ~ds[q].inUse /\ ds[h].stream = ds[q].stream /\ q # None
    BY <1>5 DEF Mergeable
  <2>3. cs[l].next = q
    BY <1>3, <1>5, <2>1
  <2> HIDE DEF l
  <2>4. q \in DOMAIN cs /\ cs[q].prev = l /\ l < q /\ l \in Nat /\ q \in Nat /\ l # None
    BY <2>1, <2>2, <2>3, Links
  <2>5. q \in DOMAIN ds
    BY <1>1, <1>5, <2>2, Links
  <2>6. ~Mergeable(cs, l, q)
    BY <1>2, <2>4, <2>5 DEF Heads, IsHead
  <2>7. ~cs[h].inUse /\ ~cs[q].inUse /\ cs[h].stream = cs[q].stream
    BY <1>1, <1>2, <1>5, <2>2, <2>5 DEF Walked
  <2>8. ~cs[l].inUse /\ cs[l].stream = cs[h].stream
    BY <2>1, <2>7, RunAlike
  <2> QED
    BY <2>2, <2>4, <2>6, <2>7, <2>8 DEF Mergeable
<1> QED
  BY <1>4, <1>5 DEF Merged, ds

-----------------------------------------------------------------------------
(* The effect of each operation on what is in use                          *)

(* Chunk p was taken for stream s's request of n bytes, and no other.      *)
Taken(p, n, s) ==
  /\ p \in DOMAIN chunks' /\ chunks'[p].inUse
  /\ p \in DOMAIN chunks => ~chunks[p].inUse
  /\ chunks'[p].requested = n /\ chunks'[p].stream = s
  /\ n <= Rounded(n) /\ Rounded(n) <= chunks'[p].size
  /\ chunks'[p].size < 2 * Rounded(n) /\ chunks'[p].size - Rounded(n) < MaxDead
  /\ bytesInUse' = bytesInUse + chunks'[p].size
  /\ \A x \in DOMAIN chunks' \ {p} : chunks'[x].inUse =>
       /\ x \in DOMAIN chunks /\ chunks[x].inUse
       /\ chunks'[x].size = chunks[x].size /\ chunks'[x].requested = chunks[x].requested

(* Only what is worth keeping is cut off.                                  *)
LEMMA CutWorthwhile ==
  ASSUME NEW size \in Nat, NEW n \in Request, Rounded(n) <= size,
         NEW got, got = IF WorthSplitting(size, Rounded(n)) THEN Rounded(n) ELSE size
  PROVE  /\ n <= Rounded(n) /\ Rounded(n) <= got
         /\ got < 2 * Rounded(n) /\ got - Rounded(n) < MaxDead
<1>1. Rounded(n) \in Nat \ {0} /\ n <= Rounded(n) /\ MaxDead \in Nat \ {0}
  BY RoundedUp, ArenaAssumption
<1> DEFINE m == Rounded(n)
<1> HIDE DEF m
<1>2. CASE size >= 2 * m \/ size - m >= MaxDead
  <2>1. got = m
    BY <1>2 DEF WorthSplitting, m
  <2> QED
    BY <2>1, <1>1 DEF m
<1>3. CASE ~(size >= 2 * m \/ size - m >= MaxDead)
  <2>1. got = size
    BY <1>3 DEF WorthSplitting, m
  <2> QED
    BY <2>1, <1>1, <1>3 DEF m
<1> QED
  BY <1>2, <1>3

(* A request that finds a chunk.                                           *)
LEMMA AllocCachedGives ==
  ASSUME ArenaInv, NEW s \in Stream, NEW n \in Request, AllocCached(s, n)
  PROVE  /\ \E p \in DOMAIN chunks : Taken(p, n, s) /\ TakeChunk(chunks, bins, p, n, s)
         /\ Merged(chunks) => Merged(chunks')
         /\ IsFiniteSet(DOMAIN chunks) => IsFiniteSet(DOMAIN chunks')
<1>1. PICK p \in DOMAIN chunks : TakeChunk(chunks, bins, p, n, s)
  BY DEF AllocCached
<1>2. /\ ~chunks[p].inUse /\ chunks[p].size \in Nat /\ Rounded(n) <= chunks[p].size
      /\ p \in DOMAIN chunks' /\ chunks'[p].inUse
      /\ chunks'[p].requested = n /\ chunks'[p].stream = s
      /\ chunks'[p].size = IF WorthSplitting(chunks[p].size, Rounded(n))
                           THEN Rounded(n) ELSE chunks[p].size
      /\ bytesInUse' = bytesInUse + chunks'[p].size
      /\ \A x \in DOMAIN chunks' \ {p} : chunks'[x].inUse =>
           /\ x \in DOMAIN chunks /\ chunks[x].inUse
           /\ chunks'[x].size = chunks[x].size /\ chunks'[x].requested = chunks[x].requested
      /\ Merged(chunks) => Merged(chunks')
      /\ IsFiniteSet(DOMAIN chunks) => IsFiniteSet(DOMAIN chunks')
  BY <1>1, ArenaParts, TakeChunkGives
<1>3. /\ n <= Rounded(n) /\ Rounded(n) <= chunks'[p].size
      /\ chunks'[p].size < 2 * Rounded(n) /\ chunks'[p].size - Rounded(n) < MaxDead
  BY <1>2, CutWorthwhile
<1>4. Taken(p, n, s)
  BY <1>2, <1>3 DEF Taken
<1> QED
  BY <1>1, <1>2, <1>4

(* The chunks and bins while Extend repeats the search: a new region at b. *)
LEMMA ExtendedState ==
  ASSUME ArenaInv, NEW b \in Nat, NEW size \in Nat \ {0}, FreshAt(regions, b, size),
         NEW cs, cs = [p \in DOMAIN chunks \cup {b} |->
                         IF p = b THEN FreeChunk(size) ELSE chunks[p]],
         NEW bs, bs = InsertInBin(bins, b, BinNumForSize(size)),
         NEW ts, ts = [r \in DOMAIN regions \cup {b} |-> IF r = b THEN size ELSE regions[r]]
  PROVE  /\ b \notin DOMAIN chunks /\ b \notin DOMAIN regions
         /\ ChunkMap(cs) /\ RegionMap(ts) /\ Apart(ts) /\ Tiled(cs, ts)
         /\ BinMap(bs) /\ Binned(cs, bs)
         /\ cs[b].size = size /\ cs[b].stream = None /\ ~cs[b].inUse
         /\ \A x \in DOMAIN chunks : cs[x] = chunks[x]
<1>1. /\ b \notin DOMAIN chunks
      /\ ChunkMap(cs) /\ RegionMap(ts) /\ Apart(ts) /\ Tiled(cs, ts)
  BY ArenaParts, RegionAdded
<1>2. /\ DOMAIN cs = DOMAIN chunks \cup {b} /\ cs[b] = FreeChunk(size)
      /\ \A x \in DOMAIN chunks : cs[x] = chunks[x]
  BY <1>1
<1> DEFINE c == BinNumForSize(size)
<1>3. /\ BinMap(bs) /\ c \in Bin
      /\ \A d \in Bin : bs[d] = IF d = c THEN bins[d] \cup {b} ELSE bins[d]
  BY BinIndex, ArenaParts DEF BinMap, InsertInBin
<1>4. cs[b].bin = c /\ ~cs[b].inUse /\ cs[b].stream = None /\ cs[b].size = size
  BY <1>2 DEF FreeChunk
<1> HIDE DEF c
<1>5. Binned(cs, bs)
  <2>1. \A x \in DOMAIN cs : cs[x].bin = IF cs[x].inUse THEN None ELSE BinNumForSize(cs[x].size)
    BY <1>2, <1>4, ArenaParts DEF Binned, c
  <2>2. ASSUME NEW d \in Bin, NEW x PROVE x \in bs[d] <=> x \in DOMAIN cs /\ cs[x].bin = d
    <3>1. x \in bins[d] <=> x \in DOMAIN chunks /\ chunks[x].bin = d
      BY ArenaParts DEF Binned
    <3>2. CASE x = b
      BY <3>1, <3>2, <1>1, <1>2, <1>3, <1>4
    <3>3. CASE x # b
      <4>1. x \in bs[d] <=> x \in bins[d]
        BY <3>3, <1>3
      <4> QED
        BY <3>1, <3>3, <4>1, <1>2
    <3> QED
      BY <3>2, <3>3
  <2>3. \A d \in Bin : bs[d] = {x \in DOMAIN cs : cs[x].bin = d}
    BY <2>2, <1>3
  <2> QED
    BY <2>1, <2>3 DEF Binned
<1>6. b \notin DOMAIN regions
  BY <1>1, ArenaParts DEF Tiled
<1> QED
  BY <1>1, <1>2, <1>3, <1>4, <1>5, <1>6

(* A request for which the arena grows.                                    *)
LEMMA AllocExtendedGives ==
  ASSUME ArenaInv, NEW s \in Stream, NEW n \in Request, AllocExtended(s, n)
  PROVE  /\ \E size \in ExtendSizes(Rounded(n)) : \E b \in Base :
              /\ size \in Nat \ {0} /\ size % Granule = 0
              /\ DeviceFresh(b, size) /\ b \notin DOMAIN chunks /\ b \notin DOMAIN regions
              /\ regions' = [r \in DOMAIN regions \cup {b} |-> IF r = b THEN size ELSE regions[r]]
              /\ totalAllocated' = totalAllocated + size
              /\ Taken(b, n, s)
              /\ TakeChunk([p \in DOMAIN chunks \cup {b} |->
                              IF p = b THEN FreeChunk(size) ELSE chunks[p]],
                           InsertInBin(bins, b, BinNumForSize(size)), b, n, s)
         /\ Merged(chunks) => Merged(chunks')
         /\ IsFiniteSet(DOMAIN chunks) => IsFiniteSet(DOMAIN chunks')
<1>1. Extending(s, n)
  BY DEF AllocExtended
<1>2. PICK size \in ExtendSizes(Rounded(n)), b \in Base :
        LET cs == [p \in DOMAIN chunks \cup {b} |->
                     IF p = b THEN FreeChunk(size) ELSE chunks[p]]
            bs == InsertInBin(bins, b, BinNumForSize(size))
        IN  /\ size % Granule = 0
            /\ DeviceFresh(b, size)
            /\ regions' = [r \in DOMAIN regions \cup {b} |->
                             IF r = b THEN size ELSE regions[r]]
            /\ totalAllocated' = totalAllocated + size
            /\ \E p \in DOMAIN cs : TakeChunk(cs, bs, p, n, s)
  BY DEF AllocExtended
<1> DEFINE cs == [p \in DOMAIN chunks \cup {b} |->
                    IF p = b THEN FreeChunk(size) ELSE chunks[p]]
           bs == InsertInBin(bins, b, BinNumForSize(size))
           ts == [r \in DOMAIN regions \cup {b} |-> IF r = b THEN size ELSE regions[r]]
<1>3. PICK p \in DOMAIN cs : TakeChunk(cs, bs, p, n, s)
  BY <1>2
<1>4. /\ b \in Nat /\ size \in Nat \ {0} /\ FreshAt(regions, b, size)
  BY <1>1, <1>2, ExtendingType, ArenaAssumption DEF DeviceFresh, ExtendSizes, FreshAt
<1>5. /\ DOMAIN cs = DOMAIN chunks \cup {b} /\ cs[b].next = None
      /\ bs = InsertInBin(bins, b, BinNumForSize(size))
  BY DEF FreeChunk
<1>6. /\ b \notin DOMAIN chunks /\ b \notin DOMAIN regions
      /\ ChunkMap(cs) /\ RegionMap(ts) /\ Apart(ts) /\ Tiled(cs, ts)
      /\ BinMap(bs) /\ Binned(cs, bs)
      /\ cs[b].size = size /\ cs[b].stream = None /\ ~cs[b].inUse
      /\ \A x \in DOMAIN chunks : cs[x] = chunks[x]
  <2>1. /\ cs = [x \in DOMAIN chunks \cup {b} |-> IF x = b THEN FreeChunk(size) ELSE chunks[x]]
        /\ bs = InsertInBin(bins, b, BinNumForSize(size))
        /\ ts = [r \in DOMAIN regions \cup {b} |-> IF r = b THEN size ELSE regions[r]]
    OBVIOUS
  <2> HIDE DEF cs, bs, ts
  <2> QED
    BY <2>1, <1>4, ExtendedState
<1> HIDE DEF cs, ts
<1>7. p = b
  <2>1. p \in Candidates(cs, bs, Rounded(n), s)
    BY <1>3 DEF TakeChunk
  <2>2. PICK d \in BinNumForSize(Rounded(n)) .. NumBins - 1 : p \in bs[d]
    BY <2>1 DEF Candidates
  <2>3. d \in Bin
    BY <2>2, BinIndex, ArenaAssumption DEF Bin
  <2>4. bs[d] \subseteq bins[d] \cup {b}
    BY <1>5, <2>3, ArenaParts DEF InsertInBin, BinMap
  <2>5. CASE p # b
    <3>1. p \in bins[d] /\ p \in DOMAIN chunks /\ cs[p] = chunks[p]
      BY <1>5, <1>6, <2>2, <2>4, <2>5
    <3>2. p \in Candidates(chunks, bins, Rounded(n), s)
      BY <2>1, <2>2, <3>1 DEF Candidates
    <3> QED
      BY <3>2, <1>1 DEF Extending
  <2> QED
    BY <2>5
<1> HIDE DEF bs
<1>8. /\ ~cs[b].inUse /\ cs[b].size \in Nat /\ Rounded(n) <= cs[b].size
      /\ b \in DOMAIN chunks' /\ chunks'[b].inUse
      /\ chunks'[b].requested = n /\ chunks'[b].stream = s
      /\ chunks'[b].size = IF WorthSplitting(cs[b].size, Rounded(n))
                           THEN Rounded(n) ELSE cs[b].size
      /\ bytesInUse' = bytesInUse + chunks'[b].size
      /\ \A x \in DOMAIN chunks' \ {b} : chunks'[x].inUse =>
           /\ x \in DOMAIN cs /\ cs[x].inUse
           /\ chunks'[x].size = cs[x].size /\ chunks'[x].requested = cs[x].requested
      /\ Merged(cs) => Merged(chunks')
      /\ IsFiniteSet(DOMAIN cs) => IsFiniteSet(DOMAIN chunks')
  BY <1>3, <1>6, <1>7, TakeChunkGives
<1>9. /\ n <= Rounded(n) /\ Rounded(n) <= chunks'[b].size
      /\ chunks'[b].size < 2 * Rounded(n) /\ chunks'[b].size - Rounded(n) < MaxDead
  BY <1>8, CutWorthwhile
<1>10. Taken(b, n, s)
  <2>1. \A x \in DOMAIN chunks' \ {b} : chunks'[x].inUse =>
           /\ x \in DOMAIN chunks /\ chunks[x].inUse
           /\ chunks'[x].size = chunks[x].size /\ chunks'[x].requested = chunks[x].requested
    BY <1>5, <1>6, <1>8
  <2> QED
    BY <2>1, <1>6, <1>8, <1>9 DEF Taken
<1>11. Merged(chunks) => Merged(cs)
  <2> SUFFICES ASSUME Merged(chunks), NEW x \in DOMAIN cs, Mergeable(cs, x, cs[x].next)
               PROVE  FALSE
    BY DEF Merged
  <2>1. /\ x # None /\ cs[x].next # None /\ ~cs[x].inUse /\ ~cs[cs[x].next].inUse
        /\ cs[x].stream = cs[cs[x].next].stream
    BY DEF Mergeable
  <2>2. x \in DOMAIN chunks /\ cs[x] = chunks[x]
    BY <2>1, <1>5, <1>6
  <2>3. cs[x].next \in DOMAIN chunks
    BY <2>1, <2>2, ArenaParts, Links
  <2>4. Mergeable(chunks, x, chunks[x].next)
    BY <2>1, <2>2, <2>3, <1>6 DEF Mergeable
  <2> QED
    BY <2>2, <2>4 DEF Merged
<1>12. IsFiniteSet(DOMAIN chunks) => IsFiniteSet(DOMAIN chunks')
  BY <1>5, <1>8, FS_AddElement
<1>13. TakeChunk([x \in DOMAIN chunks \cup {b} |->
                    IF x = b THEN FreeChunk(size) ELSE chunks[x]],
                 InsertInBin(bins, b, BinNumForSize(size)), b, n, s)
  BY <1>3, <1>7 DEF cs, bs
<1>14. size % Granule = 0 /\ DeviceFresh(b, size) /\ totalAllocated' = totalAllocated + size
       /\ regions' = [r \in DOMAIN regions \cup {b} |-> IF r = b THEN size ELSE regions[r]]
  BY <1>2
<1> QED
  BY <1>4, <1>6, <1>8, <1>10, <1>11, <1>12, <1>13, <1>14, Zenon

(* What is in use in ds was in use in cs, and is not chunk p.              *)
OnlyInUseBut(cs, ds, p) ==
  \A x \in DOMAIN ds : ds[x].inUse =>
    /\ x \in DOMAIN cs \ {p} /\ cs[x].inUse
    /\ ds[x].size = cs[x].size /\ ds[x].requested = cs[x].requested

(* Being merged is a matter of links, owners and use alone.                *)
LEMMA SameMerged ==
  ASSUME NEW cs, NEW rs, ChunkMap(cs), Tiled(cs, rs), NEW ds, Merged(cs),
         DOMAIN ds \subseteq DOMAIN cs,
         \A x \in DOMAIN ds : /\ ds[x].inUse = cs[x].inUse /\ ds[x].next = cs[x].next
                              /\ ds[x].stream = cs[x].stream
                              /\ ds[x].next # None => ds[x].next \in DOMAIN ds
  PROVE  Merged(ds)
<1> SUFFICES ASSUME NEW x \in DOMAIN ds, Mergeable(ds, x, ds[x].next) PROVE FALSE
  BY DEF Merged
<1>1. ds[x].next # None /\ ds[x].next \in DOMAIN ds /\ x \in DOMAIN cs
  BY DEF Mergeable
<1>2. Mergeable(cs, x, cs[x].next)
  BY <1>1 DEF Mergeable
<1> QED
  BY <1>1, <1>2 DEF Merged

(* Free of a chunk.                                                        *)
LEMMA FreeChunkGives ==
  ASSUME ArenaInv, NEW p, FreeChunkAt(p)
  PROVE  /\ p \in DOMAIN chunks /\ chunks[p].inUse
         /\ bytesInUse' = bytesInUse - chunks[p].size
         /\ OnlyInUseBut(chunks, chunks', p)
         /\ DOMAIN chunks' \subseteq DOMAIN chunks
         /\ Merged(chunks) => Merged(chunks')
<1> DEFINE freed == [chunks EXCEPT ![p].inUse = FALSE]
           done  == Coalesce(freed, bins, p)
           dc    == done.chunks
           at    == done.at
           bin   == BinNumForSize(dc[at].size)
<1>1. /\ p \in DOMAIN chunks /\ chunks[p].inUse
      /\ chunks' = [dc EXCEPT ![at].bin = bin]
      /\ bytesInUse' = bytesInUse - chunks[p].size
  BY DEF FreeChunkAt
<1>2. /\ DOMAIN freed = DOMAIN chunks
      /\ freed[p] = [chunks[p] EXCEPT !.inUse = FALSE]
      /\ \A x \in DOMAIN chunks \ {p} : freed[x] = chunks[x]
      /\ \A x \in DOMAIN chunks : x \in Nat /\ chunks[x] \in Chunk
  BY <1>1, ArenaParts DEF ChunkMap, PartialFunction
<1> HIDE DEF freed
<1>3. /\ freed[p] \in Chunk /\ ~freed[p].inUse
      /\ freed[p].size = chunks[p].size /\ freed[p].next = chunks[p].next
      /\ freed[p].prev = chunks[p].prev /\ freed[p].stream = chunks[p].stream
  <2>1. chunks[p] \in Chunk /\ freed[p] = [chunks[p] EXCEPT !.inUse = FALSE]
    BY <1>1, <1>2
  <2> QED
    BY <2>1 DEF Chunk
<1>4. ChunkMap(freed) /\ Tiled(freed, regions)
  <2>1. \A x \in DOMAIN chunks : /\ freed[x].size = chunks[x].size
                                 /\ freed[x].next = chunks[x].next /\ freed[x].prev = chunks[x].prev
    BY <1>2, <1>3
  <2>2. Tiled(freed, regions)
    BY <1>2, <2>1, ArenaParts, SameShape
  <2> QED
    BY <2>2, <1>2, <1>3 DEF ChunkMap, PartialFunction
<1>5. BinnedBut(freed, bins, p)
  <2>1. chunks[p].bin = None /\ None \notin Bin
    BY <1>1, ArenaParts, ArenaAssumption DEF Binned, Bin
  <2>2. \A x \in DOMAIN freed \ {p} :
          freed[x].bin = IF freed[x].inUse THEN None ELSE BinNumForSize(freed[x].size)
    BY <1>2, ArenaParts DEF Binned
  <2>3. \A b \in Bin : bins[b] = {x \in DOMAIN chunks : chunks[x].bin = b}
    BY ArenaParts DEF Binned
  <2>4. \A b \in Bin : bins[b] = {x \in DOMAIN freed \ {p} : freed[x].bin = b}
    BY <2>1, <2>3, <1>2
  <2> QED
    BY <2>2, <2>4, <1>1, <1>2, <1>3 DEF BinnedBut
<1>6. /\ OnlyInUse(freed, dc)
      /\ MergedBut(freed, p) => Merged(dc)
  BY <1>1, <1>2, <1>3, <1>4, ArenaParts, CoalesceGives
<1>7. Coalesces(freed, regions, done)
  BY <1>4, <1>5, ArenaParts, CoalesceSound
<1> HIDE DEF done
<1>8. /\ ChunkMap(dc) /\ Tiled(dc, regions) /\ at \in DOMAIN dc
      /\ DOMAIN dc \subseteq DOMAIN chunks
  BY <1>2, <1>7 DEF Coalesces, BinnedBut
<1> HIDE DEF dc, at, bin
<1>9. /\ DOMAIN chunks' = DOMAIN dc
      /\ \A x \in DOMAIN dc :
           /\ chunks'[x].inUse = dc[x].inUse /\ chunks'[x].next = dc[x].next
           /\ chunks'[x].stream = dc[x].stream /\ chunks'[x].size = dc[x].size
           /\ chunks'[x].requested = dc[x].requested
  <2>1. /\ DOMAIN chunks' = DOMAIN dc /\ dc[at] \in Chunk
        /\ chunks'[at] = [dc[at] EXCEPT !.bin = bin]
        /\ \A x \in DOMAIN dc \ {at} : chunks'[x] = dc[x]
    BY <1>1, <1>8 DEF ChunkMap, PartialFunction
  <2> QED
    BY <2>1 DEF Chunk
<1>10. OnlyInUseBut(chunks, chunks', p)
  <2> SUFFICES ASSUME NEW x \in DOMAIN chunks', chunks'[x].inUse
               PROVE  /\ x \in DOMAIN chunks \ {p} /\ chunks[x].inUse
                      /\ chunks'[x].size = chunks[x].size
                      /\ chunks'[x].requested = chunks[x].requested
    BY DEF OnlyInUseBut
  <2>1. /\ x \in DOMAIN freed /\ freed[x].inUse
        /\ chunks'[x].size = freed[x].size /\ chunks'[x].requested = freed[x].requested
    BY <1>6, <1>9 DEF OnlyInUse
  <2> QED
    BY <2>1, <1>2, <1>3
<1>11. Merged(chunks) => Merged(chunks')
  <2> HAVE Merged(chunks)
  <2>1. MergedBut(freed, p)
    <3> SUFFICES ASSUME NEW x \in DOMAIN freed, NEW y, y = freed[x].next,
                        x # p, y # p, Mergeable(freed, x, y)
                 PROVE  FALSE
      BY DEF MergedBut
    <3>1. y # None /\ x \in DOMAIN chunks /\ chunks[x].next = y /\ freed[x] = chunks[x]
      BY <1>2 DEF Mergeable
    <3>2. y \in DOMAIN chunks /\ freed[y] = chunks[y]
      BY <3>1, <1>2, ArenaParts, Links
    <3>3. Mergeable(chunks, x, y)
      BY <3>1, <3>2 DEF Mergeable
    <3> QED
      BY <3>1, <3>3 DEF Merged
  <2>2. Merged(dc)
    BY <2>1, <1>6
  <2>3. \A x \in DOMAIN dc : dc[x].next # None => dc[x].next \in DOMAIN dc
    BY <1>8, Links
  <2> QED
    BY <2>2, <2>3, <1>8, <1>9, SameMerged
<1> QED
  BY <1>1, <1>8, <1>9, <1>10, <1>11

(* Shrink.                                                                 *)
LEMMA ShrinkGives ==
  ASSUME ArenaInv, Shrink
  PROVE  /\ OnlyInUse(chunks, chunks') /\ KeepsInUse(chunks, chunks')
         /\ DOMAIN chunks' \subseteq DOMAIN chunks
         /\ Merged(chunks) => Merged(chunks')
<1>1. ArenaInv' /\ KeepsInUse(chunks, chunks')
  BY ShrinkSound
<1>2. DOMAIN chunks' \subseteq DOMAIN chunks /\ \A x \in DOMAIN chunks' : chunks'[x] = chunks[x]
  BY DEF Shrink, Restrict
<1>3. \A x \in DOMAIN chunks' : chunks'[x].next # None => chunks'[x].next \in DOMAIN chunks'
  BY <1>1 DEF ArenaInv, RegionsTiled, Tiled
<1>4. Merged(chunks) => Merged(chunks')
  BY <1>2, <1>3, ArenaParts, SameMerged
<1> QED
  BY <1>1, <1>2, <1>4 DEF OnlyInUse

(* The walk of a stream's release merges whatever it can.                  *)
LEMMA ResetGives ==
  ASSUME ArenaInv, NEW i, ResetChunksUsingStream(i)
  PROVE  /\ OnlyInUse(chunks, chunks') /\ KeepsInUse(chunks, chunks')
         /\ DOMAIN chunks' \subseteq DOMAIN chunks
         /\ Merged(chunks')
<1> DEFINE mine    == ChunksOf(streamOf[i])
           cleared == Cleared(streamOf[i])
<1>1. chunks' = Coalesced(cleared)
  BY DEF ResetChunksUsingStream
<1>2. /\ DOMAIN cleared = DOMAIN chunks
      /\ \A x \in DOMAIN chunks :
           /\ cleared[x] = IF x \in mine THEN [chunks[x] EXCEPT !.stream = None] ELSE chunks[x]
           /\ x \in Nat /\ chunks[x] \in Chunk
  BY ArenaParts DEF Cleared, ChunkMap, PartialFunction
<1> HIDE DEF cleared, mine
<1>3. \A x \in DOMAIN chunks :
        /\ cleared[x] \in Chunk
        /\ cleared[x].size = chunks[x].size
        /\ cleared[x].next = chunks[x].next /\ cleared[x].prev = chunks[x].prev
        /\ cleared[x].inUse = chunks[x].inUse /\ cleared[x].requested = chunks[x].requested
  <2> SUFFICES ASSUME NEW x \in DOMAIN chunks
               PROVE  /\ cleared[x] \in Chunk
                      /\ cleared[x].size = chunks[x].size
                      /\ cleared[x].next = chunks[x].next /\ cleared[x].prev = chunks[x].prev
                      /\ cleared[x].inUse = chunks[x].inUse
                      /\ cleared[x].requested = chunks[x].requested
    BY Zenon
  <2> QED
    BY <1>2 DEF Chunk
<1>4. ChunkMap(cleared) /\ Tiled(cleared, regions)
  <2>1. Tiled(cleared, regions)
    BY <1>2, <1>3, ArenaParts, SameShape
  <2> QED
    BY <2>1, <1>2, <1>3 DEF ChunkMap, PartialFunction
<1>5. OnlyInUse(cleared, chunks') /\ Merged(chunks')
  BY <1>1, <1>4, ArenaParts, CoalescedGives
<1>6. OnlyInUse(chunks, chunks')
  BY <1>2, <1>3, <1>5 DEF OnlyInUse
<1>7. DOMAIN chunks' \subseteq DOMAIN chunks
  BY <1>1, <1>2 DEF Coalesced, Heads
<1> QED
  BY <1>5, <1>6, <1>7, ResetSound

(* The bytes of each chunk in use.                                         *)
InUseSize(cs) == [p \in DOMAIN cs |-> IF cs[p].inUse THEN cs[p].size ELSE 0]

(* The sum that InUseExact speaks of.                                      *)
LEMMA InUseTotal ==
  ASSUME NEW cs, IsFiniteSet(DOMAIN cs)
  PROVE  MapThenSumSet(LAMBDA p : IF cs[p].inUse THEN cs[p].size ELSE 0, DOMAIN cs)
           = Total(InUseSize(cs), DOMAIN cs)
<1> DEFINE S == DOMAIN cs
           w == InUseSize(cs)
           P(g) == g = [s \in SUBSET S |->
                          IF s = {} THEN 0
                          ELSE (IF cs[Pick(s)].inUse THEN cs[Pick(s)].size ELSE 0) + g[s \ {Pick(s)}]]
<1>1. MapThenSumSet(LAMBDA p : IF cs[p].inUse THEN cs[p].size ELSE 0, S) = (CHOOSE g : P(g))[S]
  BY DEF MapThenSumSet, MapThenFoldSet, Pick
<1>2. \A g : P(g) <=> Summing(w, S, g)
  <2> SUFFICES ASSUME NEW g
               PROVE  [s \in SUBSET S |->
                         IF s = {} THEN 0
                         ELSE (IF cs[Pick(s)].inUse THEN cs[Pick(s)].size ELSE 0) + g[s \ {Pick(s)}]]
                       = [s \in SUBSET S |-> IF s = {} THEN 0 ELSE w[Pick(s)] + g[s \ {Pick(s)}]]
    BY DEF Summing
  <2>1. \A s \in SUBSET S : s # {} =>
          w[Pick(s)] = IF cs[Pick(s)].inUse THEN cs[Pick(s)].size ELSE 0
    BY DEF Pick, InUseSize
  <2> HIDE DEF w
  <2> QED
    BY <2>1
<1> DEFINE f == CHOOSE g : P(g)
<1>3. P(f)
  <2>1. \E g : P(g)
    <3> HIDE DEF P
    <3> QED
      BY <1>2, SummingExists
  <2> HIDE DEF P
  <2> QED
    BY <2>1
<1>4. Summing(w, S, f)
  <2> HIDE DEF P, f
  <2> QED
    BY <1>2, <1>3
<1>5. Total(w, S) = f[S]
  <2> HIDE DEF P, f, w
  <2> QED
    BY <1>4, TotalIs
<1> QED
  BY <1>1, <1>5

(* The chunks in use.                                                      *)
UsedIn(cs) == {x \in DOMAIN cs : cs[x].inUse}

(* Only the chunks in use count.                                           *)
LEMMA UsedTotal ==
  ASSUME NEW cs, ChunkMap(cs), IsFiniteSet(DOMAIN cs)
  PROVE  /\ Total(InUseSize(cs), DOMAIN cs) = Total(InUseSize(cs), UsedIn(cs))
         /\ Total(InUseSize(cs), DOMAIN cs) \in Int
         /\ IsFiniteSet(UsedIn(cs))
         /\ \A x \in UsedIn(cs) : InUseSize(cs)[x] = cs[x].size /\ cs[x].size \in Int
<1> DEFINE w == InUseSize(cs)
           U == UsedIn(cs)
<1>1. \A x \in DOMAIN cs : /\ w[x] = IF cs[x].inUse THEN cs[x].size ELSE 0
                           /\ cs[x].size \in Int /\ w[x] \in Int
  BY DEF InUseSize, ChunkMap, PartialFunction, Chunk
<1>2. U \subseteq DOMAIN cs /\ \A x \in DOMAIN cs : x \in U <=> cs[x].inUse
  BY DEF UsedIn
<1> HIDE DEF w, U
<1>3. IsFiniteSet(U) /\ IsFiniteSet(DOMAIN cs \ U) /\ Weights(w, DOMAIN cs) /\ Weights(w, U)
  BY <1>1, <1>2, FS_Subset DEF Weights
<1>4. Total(w, DOMAIN cs) = Total(w, DOMAIN cs \ U) + Total(w, U)
  BY <1>2, <1>3, TotalUnion
<1>5. Total(w, DOMAIN cs \ U) = 0
  BY <1>1, <1>2, <1>3, TotalZero
<1>6. Total(w, U) \in Int
  BY <1>3, TotalType
<1> QED
  BY <1>1, <1>2, <1>3, <1>4, <1>5, <1>6 DEF w, U

(* The same chunks in use have the same size together, and one more has    *)
(* its own size more.                                                      *)
LEMMA UsedChange ==
  ASSUME NEW cs, NEW ds, ChunkMap(cs), ChunkMap(ds), IsFiniteSet(DOMAIN cs), IsFiniteSet(DOMAIN ds),
         \A x \in UsedIn(cs) : ds[x].size = cs[x].size
  PROVE  /\ UsedIn(ds) = UsedIn(cs) =>
              Total(InUseSize(ds), DOMAIN ds) = Total(InUseSize(cs), DOMAIN cs)
         /\ \A p : p \notin UsedIn(cs) /\ UsedIn(ds) = UsedIn(cs) \cup {p} =>
              Total(InUseSize(ds), DOMAIN ds) = Total(InUseSize(cs), DOMAIN cs) + ds[p].size
<1> DEFINE w == InUseSize(cs)
           v == InUseSize(ds)
           U == UsedIn(cs)
<1>1. /\ Total(w, DOMAIN cs) = Total(w, U) /\ Total(w, DOMAIN cs) \in Int
      /\ IsFiniteSet(U) /\ \A x \in U : w[x] = cs[x].size
  BY UsedTotal
<1>2. /\ Total(v, DOMAIN ds) = Total(v, UsedIn(ds))
      /\ \A x \in UsedIn(ds) : v[x] = ds[x].size /\ ds[x].size \in Int
  BY UsedTotal
<1> HIDE DEF w, v, U
<1>3. ASSUME U \subseteq UsedIn(ds) PROVE Total(v, U) = Total(w, U)
  <2>1. \A x \in U : w[x] = v[x]
    BY <1>1, <1>2, <1>3 DEF U
  <2> QED
    BY <2>1, <1>1, TotalCongruent
<1>4. ASSUME NEW p, p \notin U, UsedIn(ds) = U \cup {p}
      PROVE  Total(v, DOMAIN ds) = Total(w, DOMAIN cs) + ds[p].size
  <2>1. \A x \in U \cup {p} : v[x] \in Int
    BY <1>2, <1>4
  <2>2. Total(v, U \cup {p}) = v[p] + Total(v, U)
    BY <2>1, <1>1, <1>4, TotalAdd
  <2>3. Total(v, DOMAIN ds) = v[p] + Total(v, U) /\ v[p] = ds[p].size /\ v[p] \in Int
    BY <2>1, <2>2, <1>2, <1>4
  <2> QED
    BY <2>3, <1>1, <1>3, <1>4
<1>5. ASSUME UsedIn(ds) = U PROVE Total(v, DOMAIN ds) = Total(w, DOMAIN cs)
  BY <1>1, <1>2, <1>3, <1>5
<1> QED
  BY <1>4, <1>5 DEF w, v, U

-----------------------------------------------------------------------------
(* bytes_in_use, waste and coalescing                                      *)

(* What InUseExact, WasteBounded and FullyCoalesced need to be inductive.  *)
InUseInv ==
  /\ IsFiniteSet(DOMAIN chunks) /\ IsFiniteSet(DOMAIN reserved)
  /\ bytesInUse = Total(InUseSize(chunks), DOMAIN chunks) + Total(reserved, DOMAIN reserved)
  /\ WasteBounded
  /\ Merged(chunks)

(* Sizes have sums.                                                        *)
LEMMA SizesAreWeights ==
  ASSUME NEW f, PartialFunction(f, Nat, Nat \ {0}), IsFiniteSet(DOMAIN f)
  PROVE  Weights(f, DOMAIN f) /\ Total(f, DOMAIN f) \in Nat
<1>1. Weights(f, DOMAIN f) /\ \A x \in DOMAIN f : f[x] \in Nat
  BY DEF PartialFunction, Weights
<1> QED
  BY <1>1, TotalNat

(* A step that takes one chunk.                                            *)
LEMMA TakenCounts ==
  ASSUME ArenaInv, ArenaInv', InUseInv, NEW p, NEW n \in Request, NEW s, Taken(p, n, s),
         KeepsInUse(chunks, chunks'), IsFiniteSet(DOMAIN chunks'), reserved' = reserved,
         Merged(chunks')
  PROVE  InUseInv'
<1>1. WasteBounded'
  <2> SUFFICES ASSUME NEW x \in DOMAIN chunks', chunks'[x].inUse
               PROVE  /\ chunks'[x].requested <= chunks'[x].size
                      /\ chunks'[x].size < 2 * Rounded(chunks'[x].requested)
                      /\ chunks'[x].size - Rounded(chunks'[x].requested) < MaxDead
    BY DEF WasteBounded
  <2>1. CASE x = p
    <3>1. /\ chunks'[p].requested = n /\ n <= Rounded(n) /\ Rounded(n) <= chunks'[p].size
          /\ chunks'[p].size < 2 * Rounded(n) /\ chunks'[p].size - Rounded(n) < MaxDead
      BY DEF Taken
    <3>2. n \in Int /\ Rounded(n) \in Int
      BY RoundedUp, ArenaAssumption
    <3>3. chunks'[p].size \in Int
      BY <2>1 DEF ArenaInv, TypeOK, PartialFunction, Chunk
    <3> QED
      BY <2>1, <3>1, <3>2, <3>3
  <2>2. CASE x # p
    <3>1. /\ x \in DOMAIN chunks /\ chunks[x].inUse
          /\ chunks'[x].size = chunks[x].size /\ chunks'[x].requested = chunks[x].requested
      BY <2>2 DEF Taken
    <3> QED
      BY <3>1 DEF InUseInv, WasteBounded
  <2> QED
    BY <2>1, <2>2
<1>2. bytesInUse' = Total(InUseSize(chunks'), DOMAIN chunks') + Total(reserved', DOMAIN reserved')
  <2>1. p \notin UsedIn(chunks) /\ UsedIn(chunks') = UsedIn(chunks) \cup {p}
    BY DEF Taken, KeepsInUse, UsedIn
  <2>2. \A x \in UsedIn(chunks) : chunks'[x].size = chunks[x].size
    BY DEF KeepsInUse, UsedIn
  <2>3. ChunkMap(chunks) /\ ChunkMap(chunks')
    BY DEF ArenaInv, TypeOK, ChunkMap
  <2>4. Total(InUseSize(chunks'), DOMAIN chunks')
          = Total(InUseSize(chunks), DOMAIN chunks) + chunks'[p].size
    BY <2>1, <2>2, <2>3, UsedChange DEF InUseInv
  <2>5. /\ Total(InUseSize(chunks), DOMAIN chunks) \in Int
        /\ Total(reserved, DOMAIN reserved) \in Int
        /\ chunks'[p].size \in Int
    BY <2>3, UsedTotal, SizesAreWeights DEF InUseInv, ArenaInv, TypeOK, Taken, ChunkMap,
       PartialFunction, Chunk
  <2>6. bytesInUse' = bytesInUse + chunks'[p].size
    BY DEF Taken
  <2> QED
    BY <2>4, <2>5, <2>6 DEF InUseInv
<1> QED
  BY <1>1, <1>2 DEF InUseInv

(* A step that leaves the chunks in use alone.                             *)
LEMMA SameCounts ==
  ASSUME ArenaInv, ArenaInv', InUseInv, KeepsInUse(chunks, chunks'), OnlyInUse(chunks, chunks'),
         DOMAIN chunks' \subseteq DOMAIN chunks, reserved' = reserved,
         bytesInUse' = bytesInUse, Merged(chunks')
  PROVE  InUseInv'
<1>1. WasteBounded'
  BY DEF WasteBounded, InUseInv, OnlyInUse
<1>2. IsFiniteSet(DOMAIN chunks')
  BY FS_Subset DEF InUseInv
<1>3. UsedIn(chunks') = UsedIn(chunks) /\ \A x \in UsedIn(chunks) : chunks'[x].size = chunks[x].size
  BY DEF KeepsInUse, OnlyInUse, UsedIn
<1>4. ChunkMap(chunks) /\ ChunkMap(chunks')
  BY DEF ArenaInv, TypeOK, ChunkMap
<1>5. Total(InUseSize(chunks'), DOMAIN chunks') = Total(InUseSize(chunks), DOMAIN chunks)
  BY <1>2, <1>3, <1>4, UsedChange DEF InUseInv
<1> QED
  BY <1>1, <1>2, <1>5 DEF InUseInv

(* Free of a chunk.                                                        *)
LEMMA FreeCounts ==
  ASSUME ArenaInv, ArenaInv', InUseInv, NEW p, FreeChunkAt(p)
  PROVE  InUseInv'
<1>1. /\ p \in DOMAIN chunks /\ chunks[p].inUse
      /\ bytesInUse' = bytesInUse - chunks[p].size
      /\ OnlyInUseBut(chunks, chunks', p)
      /\ DOMAIN chunks' \subseteq DOMAIN chunks
      /\ Merged(chunks')
  BY FreeChunkGives DEF InUseInv
<1>2. reserved' = reserved
  BY DEF FreeChunkAt
<1>3. WasteBounded'
  BY <1>1 DEF WasteBounded, InUseInv, OnlyInUseBut
<1>4. IsFiniteSet(DOMAIN chunks')
  BY <1>1, FS_Subset DEF InUseInv
<1>5. \A x \in DOMAIN chunks \ {p} : chunks[x].inUse =>
        x \in DOMAIN chunks' /\ chunks'[x].inUse /\ chunks'[x].size = chunks[x].size
  <2> DEFINE freed == [chunks EXCEPT ![p].inUse = FALSE]
  <2>1. KeepsInUse(freed, chunks')
    BY FreeChunkSound
  <2>2. DOMAIN freed = DOMAIN chunks /\ \A x \in DOMAIN chunks \ {p} : freed[x] = chunks[x]
    OBVIOUS
  <2> HIDE DEF freed
  <2> QED
    BY <2>1, <2>2 DEF KeepsInUse
<1>6. p \notin UsedIn(chunks') /\ UsedIn(chunks) = UsedIn(chunks') \cup {p}
  BY <1>1, <1>5 DEF OnlyInUseBut, UsedIn
<1>7. \A x \in UsedIn(chunks') : chunks[x].size = chunks'[x].size
  BY <1>1 DEF OnlyInUseBut, UsedIn
<1>8. ChunkMap(chunks) /\ ChunkMap(chunks')
  BY DEF ArenaInv, TypeOK, ChunkMap
<1>9. Total(InUseSize(chunks), DOMAIN chunks)
        = Total(InUseSize(chunks'), DOMAIN chunks') + chunks[p].size
  BY <1>4, <1>6, <1>7, <1>8, UsedChange DEF InUseInv
<1>10. /\ Total(InUseSize(chunks'), DOMAIN chunks') \in Int
       /\ Total(reserved, DOMAIN reserved) \in Int
       /\ chunks[p].size \in Int
  BY <1>1, <1>4, <1>8, UsedTotal, SizesAreWeights DEF InUseInv, ArenaInv, TypeOK, ChunkMap,
     PartialFunction, Chunk
<1>11. bytesInUse' = Total(InUseSize(chunks'), DOMAIN chunks') + Total(reserved', DOMAIN reserved')
  BY <1>1, <1>2, <1>9, <1>10 DEF InUseInv
<1> QED
  BY <1>1, <1>2, <1>3, <1>4, <1>11 DEF InUseInv

(* The direct allocations: Alloc ...                                       *)
LEMMA ReserveCounts ==
  ASSUME ArenaInv, InUseInv, NEW n \in Request, Reserve(n)
  PROVE  InUseInv'
<1>1. PartialFunction(reserved, Nat, Nat \ {0}) /\ IsFiniteSet(DOMAIN reserved)
  BY DEF ArenaInv, TypeOK, InUseInv
<1>2. Weights(reserved, DOMAIN reserved) /\ Total(reserved, DOMAIN reserved) \in Int
  BY <1>1, SizesAreWeights
<1>3. Total(InUseSize(chunks), DOMAIN chunks) \in Int
  BY UsedTotal DEF ArenaInv, TypeOK, ChunkMap, InUseInv
<1>4. chunks' = chunks
  BY DEF Reserve, chunkVars
<1>5. WasteBounded' /\ Merged(chunks')
  BY <1>4 DEF WasteBounded, InUseInv
<1>6. PICK b \in Base : /\ DeviceFresh(b, n)
                        /\ reserved' = [r \in DOMAIN reserved \cup {b} |->
                                          IF r = b THEN n ELSE reserved[r]]
  BY DEF Reserve
<1>7. b \notin DOMAIN reserved /\ n \in Int
  BY <1>6, <1>1, ArenaAssumption DEF DeviceFresh, PartialFunction
<1>8. /\ Total(reserved', DOMAIN reserved') = Total(reserved, DOMAIN reserved) + n
      /\ IsFiniteSet(DOMAIN reserved')
  BY <1>6, <1>7, <1>2, TotalExtend
<1>9. bytesInUse' = bytesInUse + n
  BY DEF Reserve
<1> QED
  BY <1>7, <1>8, <1>9, <1>2, <1>3, <1>4, <1>5 DEF InUseInv

(* What is taken from the direct allocations.                              *)
LEMMA ReservedTotal ==
  ASSUME NEW f, PartialFunction(f, Nat, Nat \ {0}), IsFiniteSet(DOMAIN f), NEW p \in DOMAIN f,
         NEW g, g = Restrict(f, DOMAIN f \ {p})
  PROVE  /\ Total(g, DOMAIN g) = Total(f, DOMAIN f) - f[p]
         /\ IsFiniteSet(DOMAIN g) /\ f[p] \in Nat
<1>1. f[p] \in Nat
  BY DEF PartialFunction
<1>2. Total(f, {} \cup {p}) = f[p] + Total(f, {})
  BY <1>1, TotalAdd, FS_EmptySet
<1>3. {} \cup {p} = {p} /\ Total(f, {}) = 0
  BY TotalEmpty
<1>4. Total(f, {p}) = f[p]
  BY <1>1, <1>2, <1>3
<1> QED
  BY <1>1, <1>4, SizesAreWeights, TotalRestrict

(* ... and Free of one.                                                    *)
LEMMA FreeReservedCounts ==
  ASSUME ArenaInv, InUseInv, NEW p, FreeReserved(p)
  PROVE  InUseInv'
<1>1. PartialFunction(reserved, Nat, Nat \ {0}) /\ IsFiniteSet(DOMAIN reserved)
  BY DEF ArenaInv, TypeOK, InUseInv
<1>2. Total(reserved, DOMAIN reserved) \in Int
  BY <1>1, SizesAreWeights
<1>3. Total(InUseSize(chunks), DOMAIN chunks) \in Int
  BY UsedTotal DEF ArenaInv, TypeOK, ChunkMap, InUseInv
<1>4. chunks' = chunks
  BY DEF FreeReserved, chunkVars
<1>5. WasteBounded' /\ Merged(chunks')
  BY <1>4 DEF WasteBounded, InUseInv
<1>6. /\ p \in DOMAIN reserved /\ reserved' = Restrict(reserved, DOMAIN reserved \ {p})
      /\ bytesInUse' = bytesInUse - reserved[p]
  BY DEF FreeReserved
<1>7. /\ Total(reserved', DOMAIN reserved') = Total(reserved, DOMAIN reserved) - reserved[p]
      /\ IsFiniteSet(DOMAIN reserved') /\ reserved[p] \in Nat
  BY <1>1, <1>6, ReservedTotal
<1> QED
  BY <1>2, <1>3, <1>4, <1>5, <1>6, <1>7 DEF InUseInv

(* The constructor.                                                        *)
LEMMA InUseInit == Init => InUseInv
<1> SUFFICES ASSUME Init PROVE InUseInv
  OBVIOUS
<1>1. DOMAIN chunks = {} /\ DOMAIN reserved = {} /\ bytesInUse = 0
  BY DEF Init
<1>2. IsFiniteSet(DOMAIN chunks) /\ IsFiniteSet(DOMAIN reserved)
  BY <1>1, FS_EmptySet
<1>3. Total(InUseSize(chunks), DOMAIN chunks) = 0 /\ Total(reserved, DOMAIN reserved) = 0
  BY <1>1, TotalEmpty
<1>4. WasteBounded /\ Merged(chunks)
  BY <1>1 DEF WasteBounded, Merged
<1> QED
  BY <1>1, <1>2, <1>3, <1>4 DEF InUseInv

(* One step per action.                                                    *)
LEMMA InUseStep == ArenaInv /\ ArenaInv' /\ InUseInv /\ [Next]_vars => InUseInv'
<1> SUFFICES ASSUME ArenaInv, ArenaInv', InUseInv, [Next]_vars PROVE InUseInv'
  OBVIOUS
<1>1. ASSUME UNCHANGED <<chunks, reserved, bytesInUse>> PROVE InUseInv'
  BY <1>1 DEF InUseInv, WasteBounded
<1>2. CASE UNCHANGED vars
  BY <1>1, <1>2 DEF vars, arenaVars, chunkVars
<1>3. CASE \E s \in Stream, i \in Impl : CreateStream(s, i)
  BY <1>1, <1>3 DEF CreateStream, arenaVars, chunkVars
<1>4. CASE \E s \in Stream : DestroyStream(s)
  BY <1>1, <1>4 DEF DestroyStream, arenaVars, chunkVars
<1>5. CASE \E s \in Stream, n \in Request : AllocOnStream(s, n)
  <2>1. PICK s \in Stream, n \in Request : AllocOnStream(s, n)
    BY <1>5
  <2>2. CASE AllocCached(s, n)
    <3>1. /\ \E p \in DOMAIN chunks : Taken(p, n, s)
          /\ Merged(chunks') /\ IsFiniteSet(DOMAIN chunks')
      BY <2>2, AllocCachedGives DEF InUseInv
    <3>2. KeepsInUse(chunks, chunks') /\ reserved' = reserved
      BY <2>2, AllocCachedSound DEF AllocCached
    <3> QED
      BY <3>1, <3>2, TakenCounts
  <2>3. CASE AllocExtended(s, n)
    <3>1. /\ \E p : Taken(p, n, s)
          /\ Merged(chunks') /\ IsFiniteSet(DOMAIN chunks')
      BY <2>3, AllocExtendedGives DEF InUseInv
    <3>2. KeepsInUse(chunks, chunks') /\ reserved' = reserved
      BY <2>3, AllocExtendedSound DEF AllocExtended, Extending
    <3> QED
      BY <3>1, <3>2, TakenCounts
  <2>4. CASE AllocRefused(s, n) \/ AllocThrows(s, n)
    BY <1>1, <2>4 DEF AllocRefused, AllocThrows, Extending, chunkVars
  <2> QED
    BY <2>1, <2>2, <2>3, <2>4 DEF AllocOnStream
<1>6. CASE \E n \in Request : Reserve(n)
  BY <1>6, ReserveCounts
<1>7. CASE \E p \in DOMAIN reserved \cup DOMAIN chunks : Free(p)
  BY <1>7, FreeCounts, FreeReservedCounts DEF Free
<1>8. CASE Shrink
  BY <1>8, ShrinkGives, SameCounts DEF InUseInv, Shrink
<1>9. CASE \E i \in Impl : ResetChunksUsingStream(i)
  BY <1>9, ResetGives, SameCounts DEF ResetChunksUsingStream
<1> QED
  BY <1>2, <1>3, <1>4, <1>5, <1>6, <1>7, <1>8, <1>9 DEF Next

(* The counter of bytes in use, the merging and the waste bound hold       *)
(* together in every state.                                                *)
THEOREM InUseInvAlways == Spec => []InUseInv
<1>1. ArenaInv /\ InUseInv /\ [Next]_vars => InUseInv'
  BY ArenaInvStep, InUseStep
<1> QED
  BY <1>1, InUseInit, ArenaInvAlways, PTL DEF Spec

(* bytes_in_use is the size of the chunks in use and of the direct         *)
(* allocations, through every split, merge, walk and shrink.               *)
THEOREM InUseAlwaysExact == Spec => []InUseExact
<1>1. InUseInv => InUseExact
  <2> SUFFICES ASSUME InUseInv PROVE InUseExact
    OBVIOUS
  <2>1. MapThenSumSet(LAMBDA p : IF chunks[p].inUse THEN chunks[p].size ELSE 0, DOMAIN chunks)
          = Total(InUseSize(chunks), DOMAIN chunks)
    BY InUseTotal DEF InUseInv
  <2>2. SumFunction(reserved) = Total(reserved, DOMAIN reserved)
    BY SumIsTotal
  <2> QED
    BY <2>1, <2>2 DEF InUseInv, InUseExact
<1> QED
  BY <1>1, InUseInvAlways, PTL

(* No caller holds a chunk that could have been split for it.              *)
THEOREM WasteAlwaysBounded == Spec => []WasteBounded
<1>1. InUseInv => WasteBounded
  BY DEF InUseInv
<1> QED
  BY <1>1, InUseInvAlways, PTL

(* Free merges a chunk with both neighbours it can, the walk of a release  *)
(* every run, and no split leaves two free parts of one owner apart.       *)
THEOREM AlwaysFullyCoalesced == Spec => []FullyCoalesced
<1>1. InUseInv => FullyCoalesced
  BY DEF InUseInv, Merged, FullyCoalesced
<1> QED
  BY <1>1, InUseInvAlways, PTL

-----------------------------------------------------------------------------
(* The budget                                                              *)

(* What is held from the device.                                           *)
Held == Total(regions, DOMAIN regions) + Total(reserved, DOMAIN reserved)

(* What WithinBudget needs to be inductive: everything held is counted.    *)
BudgetInv ==
  /\ IsFiniteSet(DOMAIN regions) /\ IsFiniteSet(DOMAIN reserved)
  /\ totalAllocated \in Int /\ Held <= totalAllocated /\ totalAllocated <= MaxMem

(* A step that adds a to what is held and counts c more bytes.             *)
Accounts(a, c) ==
  /\ IsFiniteSet(DOMAIN regions') /\ IsFiniteSet(DOMAIN reserved')
  /\ a \in Int /\ c \in Int
  /\ Held' = Held + a /\ totalAllocated' = totalAllocated + c

(* What is held is a number of bytes.                                      *)
LEMMA HeldType ==
  ASSUME ArenaInv, IsFiniteSet(DOMAIN regions), IsFiniteSet(DOMAIN reserved)
  PROVE  /\ Weights(regions, DOMAIN regions) /\ Total(regions, DOMAIN regions) \in Nat
         /\ Weights(reserved, DOMAIN reserved) /\ Total(reserved, DOMAIN reserved) \in Nat
         /\ Held \in Nat
<1>1. /\ PartialFunction(regions, Nat, Nat \ {0}) /\ PartialFunction(reserved, Nat, Nat \ {0})
  BY DEF ArenaInv, TypeOK
<1> QED
  BY <1>1, SizesAreWeights DEF Held

(* What Extend asks for first, and what the budget leaves.                 *)
LEMMA ExtendWithin ==
  ASSUME ArenaInv, totalAllocated \in Int, totalAllocated <= MaxMem,
         NEW s \in Stream, NEW n \in Request, Extending(s, n)
  PROVE  /\ ExtendBytes(Rounded(n)) \in Nat
         /\ totalAllocated + ExtendBytes(Rounded(n)) <= MaxMem
         /\ \A b \in ExtendSizes(Rounded(n)) : b \in Nat /\ totalAllocated + b <= MaxMem
<1> DEFINE m == Rounded(n)
<1>1. m \in Nat /\ m <= Available /\ currRegion \in Nat
  BY RoundedUp, ArenaAssumption DEF Extending, ArenaInv, TypeOK
<1>2. Granule \in Nat \ {0} /\ MaxMem \in Nat
  BY ArenaAssumption
<1>3. Available \in Int /\ Available <= MaxMem - totalAllocated
  <2> DEFINE q == (MaxMem - totalAllocated) \div Granule
  <2>1. q \in Int /\ q * Granule <= MaxMem - totalAllocated
    BY <1>2
  <2> QED
    BY <2>1, <1>2 DEF Available
<1> HIDE DEF m
<1>4. ExtendBytes(m) \in Nat /\ ExtendBytes(m) <= Available
  <2>1. CASE NextPowerOfTwo
    <3>1. GrownTo(currRegion, m) \in Nat
      <4> DEFINE fits == {x \in m .. SizeMax : \E k \in 1 .. m : x = currRegion * 2^k}
      <4>1. fits \in SUBSET Nat /\ SizeMax \in Nat
        BY <1>1, ArenaAssumption
      <4>2. GrownTo(currRegion, m) =
              IF m <= currRegion THEN currRegion ELSE IF fits = {} THEN SizeMax ELSE Min(fits)
        BY DEF GrownTo
      <4> HIDE DEF fits
      <4>3. fits # {} => Min(fits) \in Nat
        BY <4>1, MinNat
      <4> QED
        BY <4>1, <4>2, <4>3, <1>1
    <3> DEFINE T == {GrownTo(currRegion, m), Available}
    <3>2. T \in SUBSET Nat /\ T # {} /\ Available \in T
      BY <3>1, <1>1, <1>3
    <3> HIDE DEF T
    <3>3. Min(T) \in Nat /\ Min(T) <= Available
      BY <3>2, MinNat
    <3> QED
      BY <2>1, <3>3 DEF ExtendBytes, T
  <2>2. CASE ~NextPowerOfTwo
    BY <2>2, <1>1 DEF ExtendBytes
  <2> QED
    BY <2>1, <2>2
<1>5. totalAllocated + ExtendBytes(m) <= MaxMem
  BY <1>2, <1>3, <1>4
<1>6. ASSUME NEW b \in ExtendSizes(m) PROVE b \in Nat /\ totalAllocated + b <= MaxMem
  <2>1. b \in Nat /\ b <= ExtendBytes(m)
    BY <1>1, <1>2, <1>4 DEF ExtendSizes
  <2> QED
    BY <2>1, <1>2, <1>4, <1>5
<1> QED
  BY <1>4, <1>5, <1>6 DEF m

(* Every step accounts for what it takes from the device or gives back,    *)
(* within the budget; only the Extend that throws counts what it does not  *)
(* hold.                                                                   *)
LEMMA BudgetAccounts ==
  ASSUME ArenaInv, BudgetInv, [Next]_vars
  PROVE  \E a, c : /\ Accounts(a, c) /\ a <= c /\ totalAllocated + c <= MaxMem
                   /\ \/ a = c
                      \/ \E s \in Stream, n \in Request :
                           AllocThrows(s, n) /\ c = ExtendBytes(Rounded(n)) /\ a = 0
<1>0. /\ Weights(regions, DOMAIN regions) /\ Total(regions, DOMAIN regions) \in Nat
      /\ Weights(reserved, DOMAIN reserved) /\ Total(reserved, DOMAIN reserved) \in Nat
      /\ Held \in Nat /\ totalAllocated \in Int /\ totalAllocated <= MaxMem /\ MaxMem \in Nat
      /\ IsFiniteSet(DOMAIN regions) /\ IsFiniteSet(DOMAIN reserved)
      /\ PartialFunction(regions, Nat, Nat \ {0}) /\ PartialFunction(reserved, Nat, Nat \ {0})
  BY HeldType, ArenaAssumption DEF BudgetInv, ArenaInv, TypeOK
<1>1. ASSUME UNCHANGED <<regions, reserved, totalAllocated>>
      PROVE  Accounts(0, 0) /\ totalAllocated + 0 <= MaxMem
  BY <1>0, <1>1 DEF Accounts, Held
<1>2. CASE UNCHANGED vars
  BY <1>1, <1>2 DEF vars, arenaVars
<1>3. CASE \E s \in Stream, i \in Impl : CreateStream(s, i)
  BY <1>1, <1>3 DEF CreateStream, arenaVars
<1>4. CASE \E s \in Stream : DestroyStream(s)
  BY <1>1, <1>4 DEF DestroyStream, arenaVars
<1>5. CASE \E s \in Stream, n \in Request : AllocOnStream(s, n)
  <2>1. PICK s \in Stream, n \in Request : AllocOnStream(s, n)
    BY <1>5
  <2>2. CASE AllocCached(s, n)
    BY <1>1, <2>2 DEF AllocCached
  <2>3. CASE AllocExtended(s, n)
    <3>1. Extending(s, n) /\ reserved' = reserved
      BY <2>3 DEF AllocExtended, Extending
    <3>2. PICK size \in ExtendSizes(Rounded(n)), b \in Base :
            /\ b \notin DOMAIN regions
            /\ regions' = [r \in DOMAIN regions \cup {b} |-> IF r = b THEN size ELSE regions[r]]
            /\ totalAllocated' = totalAllocated + size
      BY <2>3, AllocExtendedGives
    <3>3. size \in Int /\ totalAllocated + size <= MaxMem
      BY <3>1, <1>0, ExtendWithin
    <3>4. /\ Total(regions', DOMAIN regions') = Total(regions, DOMAIN regions) + size
          /\ IsFiniteSet(DOMAIN regions')
      <4>1. Weights(regions, DOMAIN regions) /\ b \notin DOMAIN regions /\ size \in Int
        BY <3>2, <3>3, <1>0
      <4>2. regions' = [r \in DOMAIN regions \cup {b} |-> IF r = b THEN size ELSE regions[r]]
        BY <3>2
      <4> QED
        BY <4>1, <4>2, TotalExtend
    <3>5. Accounts(size, size)
      BY <3>1, <3>2, <3>3, <3>4, <1>0 DEF Accounts, Held
    <3> QED
      BY <3>3, <3>5
  <2>4. CASE AllocRefused(s, n)
    BY <1>1, <2>4 DEF AllocRefused, Extending
  <2>5. CASE AllocThrows(s, n)
    <3> DEFINE c == ExtendBytes(Rounded(n))
    <3>1. Extending(s, n) /\ UNCHANGED <<regions, reserved>> /\ totalAllocated' = totalAllocated + c
      BY <2>5 DEF AllocThrows, Extending
    <3>2. c \in Nat /\ totalAllocated + c <= MaxMem
      BY <3>1, <1>0, ExtendWithin
    <3>3. Accounts(0, c)
      BY <3>1, <3>2, <1>0 DEF Accounts, Held
    <3>4. c = ExtendBytes(Rounded(n)) /\ 0 <= c
      BY <3>2
    <3> HIDE DEF c
    <3> QED
      BY <2>5, <3>2, <3>3, <3>4
  <2> QED
    BY <2>1, <2>2, <2>3, <2>4, <2>5 DEF AllocOnStream
<1>6. CASE \E n \in Request : Reserve(n)
  <2>1. PICK n \in Request : Reserve(n)
    BY <1>6
  <2>2. PICK b \in Base : /\ DeviceFresh(b, n)
                          /\ reserved' = [r \in DOMAIN reserved \cup {b} |->
                                            IF r = b THEN n ELSE reserved[r]]
    BY <2>1 DEF Reserve
  <2>3. b \notin DOMAIN reserved /\ n \in Int
    BY <2>2, <1>0, ArenaAssumption DEF DeviceFresh, PartialFunction
  <2>4. /\ Total(reserved', DOMAIN reserved') = Total(reserved, DOMAIN reserved) + n
        /\ IsFiniteSet(DOMAIN reserved')
    BY <2>2, <2>3, <1>0, TotalExtend
  <2>5. /\ totalAllocated' = totalAllocated + n /\ regions' = regions
        /\ n <= MaxMem - totalAllocated
    BY <2>1 DEF Reserve
  <2>6. Accounts(n, n) /\ totalAllocated + n <= MaxMem
    BY <2>3, <2>4, <2>5, <1>0 DEF Accounts, Held
  <2> QED
    BY <2>3, <2>6
<1>7. CASE \E p \in DOMAIN reserved \cup DOMAIN chunks : Free(p)
  <2>1. PICK p : Free(p)
    BY <1>7
  <2>2. CASE FreeChunkAt(p)
    BY <1>1, <2>2 DEF FreeChunkAt
  <2>3. CASE FreeReserved(p)
    <3>1. /\ p \in DOMAIN reserved /\ reserved' = Restrict(reserved, DOMAIN reserved \ {p})
          /\ totalAllocated' = totalAllocated - reserved[p] /\ regions' = regions
      BY <2>3 DEF FreeReserved
    <3>2. /\ Total(reserved', DOMAIN reserved') = Total(reserved, DOMAIN reserved) - reserved[p]
          /\ IsFiniteSet(DOMAIN reserved') /\ reserved[p] \in Nat
      BY <3>1, <1>0, ReservedTotal
    <3> DEFINE a == 0 - reserved[p]
    <3>3. Accounts(a, a) /\ totalAllocated + a <= MaxMem /\ a <= a
      BY <3>1, <3>2, <1>0 DEF Accounts, Held
    <3> HIDE DEF a
    <3> QED
      BY <3>3
  <2> QED
    BY <2>1, <2>2, <2>3 DEF Free
<1>8. CASE Shrink
  <2> DEFINE gone == {r \in DOMAIN regions : Idle(r)}
  <2>1. /\ regions' = Restrict(regions, DOMAIN regions \ gone) /\ reserved' = reserved
        /\ totalAllocated' = totalAllocated - SumFunctionOnSet(regions, gone)
    BY <1>8 DEF Shrink
  <2>2. gone \subseteq DOMAIN regions
    OBVIOUS
  <2> HIDE DEF gone
  <2>3. /\ Total(regions', DOMAIN regions') = Total(regions, DOMAIN regions) - Total(regions, gone)
        /\ IsFiniteSet(DOMAIN regions')
    BY <2>1, <2>2, <1>0, TotalRestrict
  <2>4. Total(regions, gone) \in Nat
    <3>1. IsFiniteSet(gone) /\ \A r \in gone : regions[r] \in Nat
      BY <2>2, <1>0, FS_Subset DEF PartialFunction
    <3> QED
      BY <3>1, TotalNat
  <2>5. totalAllocated' = totalAllocated - Total(regions, gone)
    BY <2>1, SumIsTotal
  <2> DEFINE a == 0 - Total(regions, gone)
  <2>6. Accounts(a, a) /\ totalAllocated + a <= MaxMem /\ a <= a
    BY <2>1, <2>3, <2>4, <2>5, <1>0 DEF Accounts, Held
  <2> HIDE DEF a
  <2> QED
    BY <2>6
<1>9. CASE \E i \in Impl : ResetChunksUsingStream(i)
  BY <1>1, <1>9 DEF ResetChunksUsingStream
<1> QED
  BY <1>2, <1>3, <1>4, <1>5, <1>6, <1>7, <1>8, <1>9 DEF Next

(* The constructor.                                                        *)
LEMMA BudgetInit == Init => BudgetInv /\ Held = totalAllocated
<1> SUFFICES ASSUME Init PROVE BudgetInv /\ Held = totalAllocated
  OBVIOUS
<1>1. DOMAIN regions = {} /\ DOMAIN reserved = {} /\ totalAllocated = 0
  BY DEF Init
<1>2. IsFiniteSet(DOMAIN regions) /\ IsFiniteSet(DOMAIN reserved)
  BY <1>1, FS_EmptySet
<1>3. Total(regions, DOMAIN regions) = 0 /\ Total(reserved, DOMAIN reserved) = 0
  BY <1>1, TotalEmpty
<1> QED
  BY <1>1, <1>2, <1>3, ArenaAssumption DEF BudgetInv, Held

(* Each action preserves the invariant of the budget.                      *)
LEMMA BudgetStep == ArenaInv /\ BudgetInv /\ [Next]_vars => BudgetInv'
<1> SUFFICES ASSUME ArenaInv, BudgetInv, [Next]_vars PROVE BudgetInv'
  OBVIOUS
<1>1. PICK a, c : Accounts(a, c) /\ a <= c /\ totalAllocated + c <= MaxMem
  BY BudgetAccounts
<1>2. Held \in Nat
  BY HeldType DEF BudgetInv
<1>3. /\ IsFiniteSet(DOMAIN regions') /\ IsFiniteSet(DOMAIN reserved')
      /\ Held' = Held + a /\ totalAllocated' = totalAllocated + c /\ a \in Int /\ c \in Int
  BY <1>1 DEF Accounts
<1> QED
  BY <1>1, <1>2, <1>3 DEF BudgetInv

(* The invariant of the budget holds in every state.                       *)
THEOREM BudgetInvAlways == Spec => []BudgetInv
<1> QED
  BY BudgetInit, BudgetStep, ArenaInvAlways, PTL DEF Spec

(* Neither the growth of Extend nor the back-off after a refusal nor a     *)
(* direct allocation takes more from the device than max_mem, whatever was *)
(* given back in between.                                                  *)
THEOREM AlwaysWithinBudget == Spec => []WithinBudget
<1>1. BudgetInv => WithinBudget
  BY DEF BudgetInv, WithinBudget
<1> QED
  BY <1>1, BudgetInvAlways, PTL

-----------------------------------------------------------------------------
(* Best fit                                                                *)

(* A larger size is in no lower bin.                                       *)
LEMMA BinMonotone ==
  ASSUME NEW m \in Nat, NEW n \in Nat, m <= n
  PROVE  BinNumForSize(m) <= BinNumForSize(n)
<1> DEFINE B(x) == {b \in 1 .. NumBins - 1 : Granule * 2^b <= x}
<1>1. NumBins \in Nat \ {0} /\ Granule \in Nat
  BY ArenaAssumption
<1>2. B(m) \subseteq B(n)
  <2> SUFFICES ASSUME NEW b \in 1 .. NumBins - 1, Granule * 2^b <= m
               PROVE  Granule * 2^b <= n
    OBVIOUS
  <2>1. b \in Nat
    BY <1>1
  <2>2. 2^b \in Int
    BY <2>1, SMT
  <2>3. Granule * 2^b \in Int
    BY <1>1, <2>2
  <2> QED
    BY <2>3
<1>3. IsFiniteSet(B(n))
  <2>1. IsFiniteSet(1 .. NumBins - 1)
    BY <1>1, FS_Interval
  <2> QED
    BY <2>1, FS_Subset
<1> HIDE DEF B
<1>4. Cardinality(B(m)) <= Cardinality(B(n))
  BY <1>2, <1>3, FS_Subset
<1> QED
  BY <1>4 DEF BinNumForSize, B

(* The search through the bins comes upon every chunk that would do.       *)
LEMMA CandidatesAreFit ==
  ASSUME NEW cs, NEW bs, ChunkMap(cs), Binned(cs, bs), NEW m \in Nat, NEW s
  PROVE  Candidates(cs, bs, m, s) =
           {q \in DOMAIN cs : ~cs[q].inUse /\ cs[q].size >= m /\ cs[q].stream \in {s, None}}
<1> DEFINE fit == {q \in DOMAIN cs : ~cs[q].inUse /\ cs[q].size >= m /\ cs[q].stream \in {s, None}}
<1>0. NumBins \in Nat \ {0} /\ None \notin Int
  BY ArenaAssumption
<1>1. ASSUME NEW q \in Candidates(cs, bs, m, s) PROVE q \in fit
  <2>1. PICK b \in BinNumForSize(m) .. NumBins - 1 : q \in bs[b]
    BY DEF Candidates
  <2>2. b \in Bin /\ b # None
    BY <2>1, <1>0, BinIndex DEF Bin
  <2>3. q \in DOMAIN cs /\ cs[q].bin = b
    BY <2>1, <2>2 DEF Binned
  <2>4. ~cs[q].inUse
    BY <2>2, <2>3 DEF Binned
  <2> QED
    BY <2>3, <2>4 DEF Candidates
<1>2. ASSUME NEW q \in fit PROVE q \in Candidates(cs, bs, m, s)
  <2>1. cs[q].size \in Nat
    BY DEF ChunkMap, PartialFunction, Chunk
  <2> DEFINE b == BinNumForSize(cs[q].size)
  <2>2. b \in Bin /\ BinNumForSize(m) \in Bin /\ BinNumForSize(m) <= b
    BY <2>1, BinIndex, BinMonotone
  <2>3. q \in bs[b]
    BY <2>2 DEF Binned
  <2> HIDE DEF b
  <2>4. b \in BinNumForSize(m) .. NumBins - 1
    BY <2>2, <1>0 DEF Bin
  <2> QED
    BY <2>3, <2>4 DEF Candidates
<1> QED
  BY <1>1, <1>2

(* Whatever the arena holds, a request gets the smallest free chunk that   *)
(* is large enough and may be the stream's, and the arena grows only when  *)
(* there is none.                                                          *)
THEOREM AlwaysBestFit == Spec => BestFit
<1> DEFINE need(p) == Rounded(chunks'[p].requested)
           for(p) == chunks'[p].stream
           suits(p) == {q \in DOMAIN chunks :
                        /\ ~chunks[q].inUse /\ chunks[q].size >= need(p)
                        /\ chunks[q].stream \in {for(p), None}}
           Best(p) == IF suits(p) = {} THEN p \in DOMAIN regions' \ DOMAIN regions
                      ELSE p \in suits(p) /\ \A q \in suits(p) : chunks[p].size <= chunks[q].size
           Fits == \A p \in Nat \cap DOMAIN chunks' : NewlyInUse(p) => Best(p)
           BestTaken ==
             \A p \in Nat \cap DOMAIN chunks' : NewlyInUse(p) =>
               LET n   == Rounded(chunks'[p].requested)
                   s   == chunks'[p].stream
                   fit == {q \in DOMAIN chunks :
                             /\ ~chunks[q].inUse /\ chunks[q].size >= n
                             /\ chunks[q].stream \in {s, None}}
               IN  IF fit = {} THEN p \in DOMAIN regions' \ DOMAIN regions
                   ELSE p \in fit /\ \A q \in fit : chunks[p].size <= chunks[q].size
<1>0. Fits => BestTaken
  OBVIOUS
<1>1. ASSUME OnlyInUse(chunks, chunks') PROVE Fits
  BY <1>1 DEF OnlyInUse, NewlyInUse
<1>2. ASSUME UNCHANGED chunks PROVE Fits
  BY <1>2 DEF NewlyInUse
<1>3. ASSUME ArenaInv, NEW t \in Stream, NEW k \in Request, AllocOnStream(t, k) PROVE Fits
  <2>1. Rounded(k) \in Nat
    BY RoundedUp, ArenaAssumption
  <2>2. Candidates(chunks, bins, Rounded(k), t) =
          {q \in DOMAIN chunks : ~chunks[q].inUse /\ chunks[q].size >= Rounded(k)
                                 /\ chunks[q].stream \in {t, None}}
    BY <1>3, <2>1, ArenaParts, CandidatesAreFit
  <2>3. ASSUME NEW p, Taken(p, k, t)
        PROVE  /\ suits(p) = Candidates(chunks, bins, Rounded(k), t)
               /\ \A x : NewlyInUse(x) => x = p
    BY <2>2, <2>3 DEF Taken, NewlyInUse
  <2>4. CASE AllocCached(t, k)
    <3>1. PICK p \in DOMAIN chunks : Taken(p, k, t) /\ TakeChunk(chunks, bins, p, k, t)
      BY <1>3, <2>4, AllocCachedGives
    <3>2. suits(p) = Candidates(chunks, bins, Rounded(k), t) /\ \A x : NewlyInUse(x) => x = p
      BY <2>3, <3>1
    <3>3. p \in suits(p) /\ \A q \in suits(p) \ {p} : Before(chunks, p, q)
      BY <3>1, <3>2 DEF TakeChunk
    <3>4. \A q \in suits(p) : /\ q \in DOMAIN chunks /\ chunks[q].size \in Nat
                            /\ chunks[q].bin = BinNumForSize(chunks[q].size)
                            /\ chunks[q].bin \in Int
      <4>1. \A q \in suits(p) : q \in DOMAIN chunks /\ ~chunks[q].inUse
        OBVIOUS
      <4>2. \A q \in DOMAIN chunks : ~chunks[q].inUse => chunks[q].bin = BinNumForSize(chunks[q].size)
        BY <1>3, ArenaParts DEF Binned
      <4>3. \A q \in DOMAIN chunks : chunks[q].size \in Nat
        BY <1>3, ArenaParts DEF ChunkMap, PartialFunction, Chunk
      <4>4. \A x : BinNumForSize(x) \in Int
        BY BinIndex, ArenaAssumption DEF Bin
      <4> HIDE DEF suits
      <4> QED
        BY <4>1, <4>2, <4>3, <4>4
    <3> HIDE DEF suits
    <3>5. ASSUME NEW q \in suits(p) PROVE chunks[p].size <= chunks[q].size
      <4>1. CASE q = p
        BY <4>1, <3>3, <3>4
      <4>2. CASE q # p /\ ~(chunks[p].size <= chunks[q].size)
        <5>1. chunks[q].bin <= chunks[p].bin
          BY <4>2, <3>3, <3>4, BinMonotone
        <5>2. Before(chunks, p, q)
          BY <4>2, <3>3
        <5> QED
          BY <4>2, <5>1, <5>2, <3>3, <3>4 DEF Before
      <4> QED
        BY <4>1, <4>2
    <3> QED
      BY <3>2, <3>3, <3>5
  <2>5. CASE AllocExtended(t, k)
    <3> HIDE DEF suits, BestTaken, Fits
    <3>1. PICK size \in ExtendSizes(Rounded(k)), b \in Base :
             /\ Taken(b, k, t) /\ b \notin DOMAIN regions
             /\ regions' = [r \in DOMAIN regions \cup {b} |->
                              IF r = b THEN size ELSE regions[r]]
      <4>1. PICK size \in ExtendSizes(Rounded(k)) : \E b \in Base :
              /\ size \in Nat \ {0} /\ size % Granule = 0
              /\ DeviceFresh(b, size) /\ b \notin DOMAIN chunks /\ b \notin DOMAIN regions
              /\ regions' = [r \in DOMAIN regions \cup {b} |-> IF r = b THEN size ELSE regions[r]]
              /\ totalAllocated' = totalAllocated + size
              /\ Taken(b, k, t)
        BY <1>3, <2>5, AllocExtendedGives, Zenon
      <4> QED
        BY <4>1, Zenon
    <3> USE DEF Fits
    <3>2. suits(b) = {} /\ \A x : NewlyInUse(x) => x = b
      BY <2>3, <3>1, <2>5 DEF AllocExtended, Extending
    <3>3. b \in DOMAIN regions' \ DOMAIN regions
      BY <3>1
    <3> HIDE DEF suits
    <3> QED
      BY <3>2, <3>3
  <2>6. CASE AllocRefused(t, k) \/ AllocThrows(t, k)
    BY <2>6, <1>2 DEF AllocRefused, AllocThrows, chunkVars
  <2> HIDE DEF Fits
  <2> QED
    BY <1>3, <2>4, <2>5, <2>6 DEF AllocOnStream
<1>4. ASSUME ArenaInv, NEW q, FreeChunkAt(q) PROVE Fits
  BY <1>1, <1>4, FreeChunkGives DEF OnlyInUse, OnlyInUseBut
<1> HIDE DEF Fits, BestTaken
<1>5. ASSUME ArenaInv, [Next]_vars PROVE Fits
  <2>1. CASE \E t \in Stream, i \in Impl : CreateStream(t, i)
    BY <2>1, <1>2 DEF CreateStream, arenaVars, chunkVars
  <2>2. CASE \E t \in Stream : DestroyStream(t)
    BY <2>2, <1>2 DEF DestroyStream, arenaVars, chunkVars
  <2>3. CASE \E t \in Stream, k \in Request : AllocOnStream(t, k)
    BY <2>3, <1>3, <1>5
  <2>4. CASE \E k \in Request : Reserve(k)
    BY <2>4, <1>2 DEF Reserve, chunkVars
  <2>5. CASE \E p \in DOMAIN reserved \cup DOMAIN chunks : Free(p)
    <3>1. PICK p : Free(p)
      BY <2>5
    <3>2. CASE FreeReserved(p)
      BY <3>2, <1>2 DEF FreeReserved, chunkVars
    <3>3. CASE FreeChunkAt(p)
      BY <3>3, <1>4, <1>5
    <3> QED
      BY <3>1, <3>2, <3>3 DEF Free
  <2>6. CASE Shrink
    BY <2>6, <1>1, <1>5, ShrinkGives
  <2>7. CASE \E i \in Impl : ResetChunksUsingStream(i)
    BY <2>7, <1>1, <1>5, ResetGives
  <2>8. CASE UNCHANGED vars
    BY <2>8, <1>2 DEF vars, arenaVars, chunkVars
  <2> QED
    BY <1>5, <2>1, <2>2, <2>3, <2>4, <2>5, <2>6, <2>7, <2>8 DEF Next
<1>6. ArenaInv /\ [Next]_vars => [BestTaken]_vars
  BY <1>0, <1>5
<1>7. Spec => [][BestTaken]_vars
  BY <1>6, ArenaInvAlways, PTL DEF Spec
<1> QED
  BY <1>7, PTL DEF BestTaken, BestFit

-----------------------------------------------------------------------------
(* Alignment                                                               *)

(* x is a number of granules.                                              *)
Aligned(x) == \E q \in Int : x = Granule * q

(* The multiples of the granule are closed under sum, difference, product. *)
LEMMA AlignedSum ==
  ASSUME NEW x, NEW y, Aligned(x), Aligned(y)
  PROVE  x \in Int /\ y \in Int /\ Aligned(x + y) /\ Aligned(x - y)
<1>1. PICK q \in Int, r \in Int : x = Granule * q /\ y = Granule * r
  BY DEF Aligned
<1>2. Granule \in Int
  BY ArenaAssumption
<1>3. x + y = Granule * (q + r) /\ x - y = Granule * (q - r)
  BY <1>1, <1>2
<1>4. q + r \in Int /\ q - r \in Int
  OBVIOUS
<1>5. Aligned(x + y) /\ Aligned(x - y)
  BY <1>3, <1>4, Zenon DEF Aligned
<1> QED
  BY <1>1, <1>2, <1>5

(* A multiple of an aligned size is aligned.                               *)
LEMMA AlignedTimes ==
  ASSUME NEW x, NEW k \in Int, Aligned(x)
  PROVE  Aligned(x * k) /\ Aligned(k * x)
<1>1. PICK q \in Int : x = Granule * q
  BY DEF Aligned
<1>2. Granule \in Int
  BY ArenaAssumption
<1>3. x * k = Granule * (q * k) /\ k * x = Granule * (k * q)
  BY <1>1, <1>2
<1> QED
  BY <1>1, <1>2, <1>3 DEF Aligned

(* They are what leaves no rest.                                           *)
LEMMA AlignedMod ==
  ASSUME NEW x \in Int
  PROVE  Aligned(x) <=> x % Granule = 0
<1>1. Granule \in Nat \ {0}
  BY ArenaAssumption
<1> DEFINE d == x \div Granule
           m == x % Granule
<1>2. d \in Int /\ m \in 0 .. Granule - 1 /\ x = Granule * d + m
  BY <1>1
<1> HIDE DEF d, m
<1>3. ASSUME m = 0 PROVE Aligned(x)
  BY <1>1, <1>2, <1>3 DEF Aligned
<1>4. ASSUME NEW q \in Int, x = Granule * q PROVE m = 0
  <2>1. Granule * (q - d) = m /\ q - d \in Int
    BY <1>1, <1>2, <1>4
  <2> DEFINE e == q - d
  <2>2. e \in Int /\ Granule * e = m
    BY <2>1
  <2> HIDE DEF e
  <2>3. ~(e >= 1)
    BY <1>1, <1>2, <2>2
  <2>4. ~(e <= -1)
    BY <1>1, <1>2, <2>2
  <2> QED
    BY <2>2, <2>3, <2>4, <1>1
<1> QED
  BY <1>3, <1>4 DEF Aligned, m

(* Rounding up gives an aligned size.                                      *)
LEMMA RoundedAligned ==
  ASSUME NEW n \in Nat
  PROVE  Aligned(Rounded(n))
<1>1. Granule \in Nat \ {0}
  BY ArenaAssumption
<1>2. (n + Granule - 1) \div Granule \in Int
  BY <1>1
<1> QED
  BY <1>2 DEF Rounded, Aligned

-----------------------------------------------------------------------------
(* The exact budget                                                        *)

(* What an arena is configured with that never sees Extend throw: the      *)
(* limits are values of a size_t, and the largest growth step is a         *)
(* multiple of the allocation granule, as the default of 1 GiB is.         *)
AlignedGrowth ==
  /\ MaxMem <= SizeMax /\ MaxExtend <= SizeMax
  /\ NextPowerOfTwo => MaxExtend % Granule = 0

(* The budget counts exactly what is held, and the next growth step is     *)
(* aligned, or the largest size that doubling stops at.                    *)
GrowthInv ==
  /\ AlignedGrowth /\ BudgetInv
  /\ Held = totalAllocated
  /\ currRegion \in Nat
  /\ NextPowerOfTwo => Aligned(currRegion) \/ currRegion = SizeMax

(* Doubling ends between the size and the largest one.                     *)
LEMMA GrownType ==
  ASSUME NEW n \in Nat, currRegion \in Nat
  PROVE  /\ GrownTo(currRegion, n) \in Nat
         /\ n > currRegion => GrownTo(currRegion, n) <= SizeMax
<1> DEFINE fits == {x \in n .. SizeMax : \E k \in 1 .. n : x = currRegion * 2^k}
<1>1. fits \in SUBSET Nat /\ SizeMax \in Nat /\ \A x \in fits : x <= SizeMax
  BY ArenaAssumption
<1>2. GrownTo(currRegion, n) =
        IF n <= currRegion THEN currRegion ELSE IF fits = {} THEN SizeMax ELSE Min(fits)
  BY DEF GrownTo
<1> HIDE DEF fits
<1>3. fits # {} => Min(fits) \in Nat /\ Min(fits) <= SizeMax
  BY <1>1, MinNat
<1> QED
  BY <1>1, <1>2, <1>3

(* Doubling keeps an aligned step aligned unless it stops at the largest   *)
(* size.                                                                   *)
LEMMA GrownAligned ==
  ASSUME NEW n \in Nat, currRegion \in Nat, Aligned(currRegion) \/ currRegion = SizeMax
  PROVE  Aligned(GrownTo(currRegion, n)) \/ GrownTo(currRegion, n) >= SizeMax
<1> DEFINE fits == {x \in n .. SizeMax : \E k \in 1 .. n : x = currRegion * 2^k}
<1>1. fits \in SUBSET Nat /\ SizeMax \in Nat
  BY ArenaAssumption
<1>2. GrownTo(currRegion, n) =
        IF n <= currRegion THEN currRegion ELSE IF fits = {} THEN SizeMax ELSE Min(fits)
  BY DEF GrownTo
<1>3. ASSUME NEW x \in fits PROVE Aligned(x) \/ currRegion = SizeMax
  <2>1. PICK k \in 1 .. n : x = currRegion * 2^k
    OBVIOUS
  <2>2. 2^k \in Int
    BY SMT
  <2> HIDE DEF fits
  <2> QED
    BY <2>1, <2>2, AlignedTimes
<1>4. n > currRegion /\ currRegion = SizeMax => fits = {}
  BY <1>1
<1> HIDE DEF fits
<1>5. fits # {} => Min(fits) \in fits
  BY <1>1, MinNat
<1>6. CASE currRegion = SizeMax
  BY <1>1, <1>2, <1>4, <1>6
<1>7. CASE currRegion # SizeMax
  <2>1. fits # {} => Aligned(Min(fits))
    BY <1>3, <1>5, <1>7
  <2>2. CASE n <= currRegion
    BY <2>2, <1>2, <1>7
  <2>3. CASE ~(n <= currRegion) /\ fits = {}
    BY <2>3, <1>1, <1>2
  <2>4. CASE ~(n <= currRegion) /\ fits # {}
    <3>1. GrownTo(currRegion, n) = Min(fits)
      BY <2>4, <1>2
    <3> QED
      BY <3>1, <2>1, <2>4
  <2> QED
    BY <2>2, <2>3, <2>4
<1> QED
  BY <1>6, <1>7

(* Extend then asks the device for multiples of the granule only ...       *)
LEMMA ExtendAligned ==
  ASSUME ArenaInv, GrowthInv, NEW s \in Stream, NEW n \in Request, Extending(s, n)
  PROVE  ExtendBytes(Rounded(n)) % Granule = 0
<1> DEFINE m == Rounded(n)
<1>1. m \in Nat /\ Aligned(m)
  BY RoundedUp, RoundedAligned, ArenaAssumption
<1> HIDE DEF m
<1>2. totalAllocated \in Nat /\ MaxMem \in Nat /\ MaxMem <= SizeMax /\ SizeMax \in Nat
  BY HeldType, ArenaAssumption DEF GrowthInv, BudgetInv, AlignedGrowth
<1>3. Available \in Int /\ Available <= SizeMax /\ Aligned(Available)
  <2>1. Granule \in Nat \ {0}
    BY ArenaAssumption
  <2> DEFINE q == (MaxMem - totalAllocated) \div Granule
  <2>2. q \in Int /\ q * Granule <= MaxMem - totalAllocated
    BY <1>2, <2>1
  <2>3. Available = q * Granule
    BY DEF Available
  <2> HIDE DEF q
  <2>4. Aligned(Available)
    BY <2>1, <2>2, <2>3 DEF Aligned
  <2> QED
    BY <1>2, <2>1, <2>2, <2>3, <2>4
<1>4. m <= Available
  BY DEF Extending, m
<1>5. CASE NextPowerOfTwo
  <2> DEFINE g == GrownTo(currRegion, m)
             T == {g, Available}
  <2>1. Aligned(g) \/ g >= SizeMax
    BY <1>1, <1>5, GrownAligned DEF GrowthInv
  <2>2. g \in Nat
    BY <1>1, GrownType DEF GrowthInv
  <2> HIDE DEF g
  <2>3. T \in SUBSET Nat /\ T # {}
    BY <2>2, <1>1, <1>3, <1>4
  <2>4. Min(T) \in {g, Available} /\ Min(T) <= g /\ Min(T) <= Available
    BY <2>3, MinNat
  <2>5. Aligned(Min(T)) /\ Min(T) \in Int
    BY <2>1, <2>2, <2>4, <1>2, <1>3
  <2> QED
    BY <2>5, <1>5, AlignedMod DEF ExtendBytes, m, g
<1>6. CASE ~NextPowerOfTwo
  BY <1>1, <1>6, AlignedMod DEF ExtendBytes, m
<1> QED
  BY <1>5, <1>6

(* ... and its growth steps stay multiples of it.                          *)
LEMMA NextRegionAligned ==
  ASSUME GrowthInv, NEW n \in Nat, n <= SizeMax, NextPowerOfTwo
  PROVE  Aligned(NextRegion(n)) \/ NextRegion(n) = SizeMax
<1>1. /\ currRegion \in Nat /\ (Aligned(currRegion) \/ currRegion = SizeMax)
      /\ MaxExtend <= SizeMax /\ MaxExtend % Granule = 0
      /\ MaxExtend \in Nat /\ SizeMax \in Nat
  BY ArenaAssumption DEF GrowthInv, AlignedGrowth
<1>2. CASE n > currRegion
  <2>1. Aligned(GrownTo(currRegion, n)) \/ GrownTo(currRegion, n) >= SizeMax
    BY <1>1, GrownAligned
  <2>2. GrownTo(currRegion, n) <= SizeMax /\ GrownTo(currRegion, n) \in Nat
    BY <1>1, <1>2, GrownType
  <2>3. NextRegion(n) = GrownTo(currRegion, n)
    BY <1>2 DEF NextRegion
  <2> QED
    BY <1>1, <2>1, <2>2, <2>3
<1>3. CASE n <= currRegion /\ currRegion < MaxExtend \div 2
  <2>0. currRegion # SizeMax
    BY <1>1, <1>3
  <2>1. Aligned(2 * currRegion)
    <3>1. Aligned(currRegion) /\ 2 \in Int
      BY <2>0, <1>1
    <3> QED
      BY <3>1, AlignedTimes, Zenon
  <2>2. NextRegion(n) = 2 * currRegion
    BY <1>1, <1>3 DEF NextRegion
  <2> QED
    BY <2>1, <2>2
<1>4. CASE n <= currRegion /\ ~(currRegion < MaxExtend \div 2)
  BY <1>1, <1>4, AlignedMod DEF NextRegion
<1> QED
  BY <1>1, <1>2, <1>3, <1>4

(* Each action preserves the invariant of growth.                          *)
LEMMA GrowthStep == ArenaInv /\ GrowthInv /\ [Next]_vars => GrowthInv'
<1> SUFFICES ASSUME ArenaInv, GrowthInv, [Next]_vars PROVE GrowthInv'
  OBVIOUS
<1>1. ASSUME NEW s \in Stream, NEW n \in Request PROVE ~AllocThrows(s, n)
  BY ExtendAligned DEF AllocThrows
<1>2. PICK a, c : Accounts(a, c) /\ a = c
  BY <1>1, BudgetAccounts DEF GrowthInv
<1>3. Held' = totalAllocated'
  BY <1>2 DEF Accounts, GrowthInv
<1>4. BudgetInv'
  BY BudgetStep DEF GrowthInv
<1>5. MaxMem <= SizeMax /\ MaxMem \in Nat /\ SizeMax \in Nat
  BY ArenaAssumption DEF GrowthInv, AlignedGrowth
<1> DEFINE Grows == currRegion' \in Nat /\ (NextPowerOfTwo => Aligned(currRegion') \/ currRegion' = SizeMax)
<1>6. ASSUME currRegion' = currRegion PROVE Grows
  BY <1>6 DEF GrowthInv
<1>7. ASSUME NEW s \in Stream, NEW n \in Request, AllocOnStream(s, n) PROVE Grows
  <2>1. CASE AllocCached(s, n)
    BY <2>1, <1>6 DEF AllocCached
  <2>2. CASE Extending(s, n)
    <3>1. Rounded(n) \in Nat /\ Rounded(n) <= Available /\ currRegion' = NextRegion(Rounded(n))
      BY <2>2, RoundedUp, ArenaAssumption DEF Extending
    <3>2. Rounded(n) <= SizeMax
      <4>1. ExtendBytes(Rounded(n)) \in Nat /\ totalAllocated + Rounded(n) <= MaxMem
        <5>1. Granule \in Nat \ {0} /\ totalAllocated \in Int /\ MaxMem \in Int
          BY ArenaAssumption DEF GrowthInv, BudgetInv
        <5> DEFINE q == (MaxMem - totalAllocated) \div Granule
        <5>2. q \in Int /\ q * Granule <= MaxMem - totalAllocated
          BY <5>1
        <5>3. Available = q * Granule
          BY DEF Available
        <5> HIDE DEF q
        <5> QED
          BY <5>1, <5>2, <5>3, <3>1, <2>2, ExtendWithin DEF GrowthInv, BudgetInv
      <4>2. totalAllocated \in Nat
        BY HeldType DEF GrowthInv, BudgetInv
      <4> QED
        BY <4>1, <4>2, <3>1, <1>5
    <3>3. NextPowerOfTwo => Aligned(currRegion') \/ currRegion' = SizeMax
      BY <3>1, <3>2, NextRegionAligned
    <3>4. currRegion' \in Nat
      BY <3>1, GrowthType DEF GrowthInv
    <3> QED
      BY <3>3, <3>4
  <2> QED
    BY <2>1, <2>2, <1>7 DEF AllocOnStream, AllocExtended, AllocRefused, AllocThrows
<1>8. ASSUME Shrink PROVE Grows
  <2>1. currRegion' = Rounded(InitialGrowth) /\ InitialGrowth \in Nat \ {0}
    BY <1>8, ArenaAssumption DEF Shrink
  <2> QED
    BY <2>1, RoundedUp, RoundedAligned
<1> HIDE DEF Grows
<1>9. Grows
  <2>1. CASE \E s \in Stream, i \in Impl : CreateStream(s, i)
    BY <2>1, <1>6 DEF CreateStream, arenaVars
  <2>2. CASE \E s \in Stream : DestroyStream(s)
    BY <2>2, <1>6 DEF DestroyStream, arenaVars
  <2>3. CASE \E s \in Stream, n \in Request : AllocOnStream(s, n)
    BY <2>3, <1>7
  <2>4. CASE \E n \in Request : Reserve(n)
    BY <2>4, <1>6 DEF Reserve
  <2>5. CASE \E p \in DOMAIN reserved \cup DOMAIN chunks : Free(p)
    BY <2>5, <1>6 DEF Free, FreeReserved, FreeChunkAt
  <2>6. CASE Shrink
    BY <2>6, <1>8
  <2>7. CASE \E i \in Impl : ResetChunksUsingStream(i)
    BY <2>7, <1>6 DEF ResetChunksUsingStream
  <2>8. CASE UNCHANGED vars
    BY <2>8, <1>6 DEF vars, arenaVars
  <2> QED
    BY <2>1, <2>2, <2>3, <2>4, <2>5, <2>6, <2>7, <2>8 DEF Next
<1>10. AlignedGrowth'
  BY DEF GrowthInv, AlignedGrowth
<1> QED
  BY <1>3, <1>4, <1>9, <1>10 DEF GrowthInv, Grows

(* Initially it holds: the first step is rounded up.                       *)
LEMMA GrowthInit == AlignedGrowth /\ Init => GrowthInv
<1> SUFFICES ASSUME AlignedGrowth, Init PROVE GrowthInv
  OBVIOUS
<1>1. BudgetInv /\ Held = totalAllocated
  BY BudgetInit
<1> DEFINE T == {MaxMem, InitialChunk}
<1>2. T \in SUBSET Nat /\ T # {} /\ 0 \notin T
  BY ArenaAssumption
<1>3. currRegion = Rounded(Min(T))
  BY DEF Init
<1> HIDE DEF T
<1>4. Min(T) \in Nat \ {0}
  BY <1>2, MinNat
<1>5. currRegion \in Nat /\ Aligned(currRegion)
  BY <1>3, <1>4, RoundedUp, RoundedAligned
<1> QED
  BY <1>1, <1>5 DEF GrowthInv

(* Where no growth step can be odd, total_allocated_bytes is at all times  *)
(* the size of the regions and of the direct allocations: no path through  *)
(* Extend, Shrink or Free forgets bytes that the device holds, or counts   *)
(* bytes that it does not.                                                 *)
THEOREM BudgetAlwaysExact == AlignedGrowth /\ Spec => []BudgetExact
<1>1. GrowthInv => BudgetExact
  BY SumIsTotal DEF GrowthInv, BudgetExact, Held
<1> QED
  BY <1>1, GrowthInit, GrowthStep, ArenaInvAlways, PTL DEF Spec

-----------------------------------------------------------------------------
(* Tilings                                                                 *)

(* Of two tilings by the same chunks, none is finer than the other.        *)
LEMMA TilingNotFiner ==
  ASSUME NEW cs, NEW ds, NEW rs, ChunkMap(cs), ChunkMap(ds), RegionMap(rs),
         Tiled(cs, rs), Tiled(ds, rs), DOMAIN cs = DOMAIN ds, NEW p \in DOMAIN cs
  PROVE  ds[p].size <= cs[p].size
<1>1. /\ p \in Nat /\ cs[p].size \in Nat \ {0} /\ ds[p].size \in Nat \ {0}
      /\ None \notin Nat
  BY Links
<1>2. PICK r \in DOMAIN rs : Within(p, r, rs)
  BY DEF Tiled
<1>3. r \in Nat /\ rs[r] \in Nat
  BY DEF RegionMap, PartialFunction
<1>4. /\ p + ds[p].size <= r + rs[r]
      /\ cs[p].next = IF p + cs[p].size = r + rs[r] THEN None ELSE p + cs[p].size
  BY <1>2 DEF Tiled
<1>5. CASE p + cs[p].size = r + rs[r]
  BY <1>1, <1>3, <1>4, <1>5
<1>6. CASE p + cs[p].size # r + rs[r]
  <2> DEFINE q == cs[p].next
  <2>1. q = p + cs[p].size /\ q # None
    BY <1>1, <1>4, <1>6
  <2>2. q \in DOMAIN ds /\ q \in Nat /\ p < q
    BY <2>1, <1>1, Links
  <2>3. p + ds[p].size <= q
    BY <2>2 DEF Tiled
  <2> HIDE DEF q
  <2> QED
    BY <2>1, <2>3, <1>1
<1> QED
  BY <1>5, <1>6

(* Which chunks there are decides of what size they are and how they are   *)
(* linked.                                                                 *)
LEMMA TilingUnique ==
  ASSUME NEW cs, NEW ds, NEW rs, ChunkMap(cs), ChunkMap(ds), RegionMap(rs),
         Tiled(cs, rs), Tiled(ds, rs), DOMAIN cs = DOMAIN ds
  PROVE  \A p \in DOMAIN cs : /\ ds[p].size = cs[p].size
                              /\ ds[p].next = cs[p].next /\ ds[p].prev = cs[p].prev
<1>1. ASSUME NEW p \in DOMAIN cs
      PROVE  ds[p].size = cs[p].size /\ ds[p].next = cs[p].next
  <2>1. p \in Nat /\ cs[p].size \in Nat /\ ds[p].size \in Nat
    BY Links
  <2>2. ds[p].size <= cs[p].size /\ cs[p].size <= ds[p].size
    BY TilingNotFiner
  <2>3. ds[p].size = cs[p].size
    BY <2>1, <2>2
  <2>4. PICK r \in DOMAIN rs : Within(p, r, rs)
    BY DEF Tiled
  <2>5. /\ cs[p].next = IF p + cs[p].size = r + rs[r] THEN None ELSE p + cs[p].size
        /\ ds[p].next = IF p + ds[p].size = r + rs[r] THEN None ELSE p + ds[p].size
    BY <2>4 DEF Tiled
  <2> QED
    BY <2>3, <2>5
<1>2. ASSUME NEW p \in DOMAIN cs
      PROVE  ds[p].prev = cs[p].prev
  <2>1. PICK r \in DOMAIN rs : Within(p, r, rs)
    BY DEF Tiled
  <2>2. (cs[p].prev = None <=> p = r) /\ (ds[p].prev = None <=> p = r)
    BY <2>1 DEF Tiled
  <2>3. CASE cs[p].prev = None
    BY <2>2, <2>3
  <2>4. CASE cs[p].prev # None
    <3> DEFINE a == cs[p].prev
    <3>1. a \in DOMAIN cs /\ cs[a].next = p
      BY <2>4, Links
    <3>2. ds[a].next = p /\ p # None
      BY <3>1, <1>1, Links
    <3>3. ds[p].prev = a
      BY <3>1, <3>2, Links
    <3> QED
      BY <3>3
  <2> QED
    BY <2>3, <2>4
<1> QED
  BY <1>1, <1>2

-----------------------------------------------------------------------------
(* The walk of a release                                                   *)

(* A state of the walk that began with cs0: chunks were merged only into   *)
(* the head of their run, and a chunk that is left is a head if and only if*)
(* it was one.                                                             *)
Coarser(cs, cs0, rs) ==
  /\ cs = [p \in DOMAIN cs |-> cs[p]] /\ ChunkMap(cs) /\ Tiled(cs, rs)
  /\ DOMAIN cs \subseteq DOMAIN cs0 /\ Heads(cs0) \subseteq DOMAIN cs
  /\ \A p \in DOMAIN cs : /\ cs[p].inUse = cs0[p].inUse /\ cs[p].stream = cs0[p].stream
                          /\ cs[p].requested = cs0[p].requested
                          /\ IsHead(cs, p) <=> IsHead(cs0, p)

(* Merging two neighbours that may be merged is a step of the walk.        *)
LEMMA MergeCoarser ==
  ASSUME NEW cs0, NEW cs, NEW rs, RegionMap(rs), Apart(rs), Coarser(cs, cs0, rs),
         NEW p \in DOMAIN cs, NEW q \in DOMAIN cs, cs[p].next = q, Mergeable(cs, p, q),
         NEW ds, ds = Merge(cs, p, q)
  PROVE  /\ Coarser(ds, cs0, rs) /\ DOMAIN ds = DOMAIN cs \ {q} /\ p \in DOMAIN ds
         /\ ds[p].size = cs[p].size + cs[q].size /\ ds[p].prev = cs[p].prev
<1>1. ChunkMap(cs) /\ Tiled(cs, rs)
  BY DEF Coarser
<1>2. /\ p # q /\ DOMAIN ds = DOMAIN cs \ {q} /\ ChunkMap(ds) /\ Tiled(ds, rs)
      /\ Kept(cs, ds, p, q)
  BY <1>1, MergeTiled, MergeFields
<1>3. /\ \A z \in DOMAIN cs : cs[z] \in Chunk
      /\ cs[q].next # p /\ cs[q].next # q /\ q \in Nat /\ None \notin Nat /\ cs[q].prev = p
  BY <1>1, Links
<1>4. /\ ds[p] = [cs[p] EXCEPT !.size = @ + cs[q].size, !.next = cs[q].next]
      /\ \A z \in DOMAIN cs \ {p, q} :
           ds[z] = IF z = cs[q].next THEN [cs[z] EXCEPT !.prev = p] ELSE cs[z]
  BY <1>2 DEF Merge
<1>5. ASSUME NEW z \in DOMAIN ds
      PROVE  /\ ds[z].requested = cs[z].requested
             /\ ds[z].prev = IF z = cs[q].next THEN p ELSE cs[z].prev
  <2>1. CASE z = p
    BY <2>1, <1>2, <1>3, <1>4 DEF Chunk
  <2>2. CASE z # p
    <3> DEFINE c == [cs[z] EXCEPT !.prev = p]
    <3>1. c.requested = cs[z].requested /\ c.prev = p
      BY <1>2, <1>3 DEF Chunk
    <3>2. ds[z] = IF z = cs[q].next THEN c ELSE cs[z]
      BY <2>2, <1>2, <1>4
    <3> HIDE DEF c
    <3> QED
      BY <3>1, <3>2
  <2> QED
    BY <2>1, <2>2
<1>6. ds[p].size = cs[p].size + cs[q].size /\ ds[p].prev = cs[p].prev
  BY <1>2, <1>3, <1>4 DEF Chunk, Kept
<1>7. \A z \in DOMAIN ds : ds[z].inUse = cs[z].inUse /\ ds[z].stream = cs[z].stream
  BY <1>2 DEF Kept
<1>8. ~cs[p].inUse /\ ~cs[q].inUse /\ cs[p].stream = cs[q].stream
  BY DEF Mergeable
<1>9. ASSUME NEW z \in DOMAIN ds
      PROVE  IsHead(ds, z) <=> IsHead(cs, z)
  <2>1. CASE z = cs[q].next
    <3>1. cs[z].prev = q /\ ds[z].prev = p
      BY <2>1, <1>1, <1>2, <1>5, Links
    <3>2. Mergeable(ds, p, z) <=> Mergeable(cs, q, z)
      <4>1. p # None /\ q # None
        BY <1>1, Links
      <4> QED
        BY <4>1, <1>2, <1>7, <1>8 DEF Mergeable
    <3> QED
      BY <3>1, <3>2 DEF IsHead
  <2>2. CASE z # cs[q].next
    <3> DEFINE a == cs[z].prev
    <3>1. ds[z].prev = a /\ (a # None => a \in DOMAIN ds)
      BY <2>2, <1>1, <1>2, <1>5, Links
    <3>2. Mergeable(ds, a, z) <=> Mergeable(cs, a, z)
      <4> HIDE DEF a
      <4> QED
        BY <3>1, <1>7 DEF Mergeable
    <3> QED
      BY <3>1, <3>2 DEF IsHead
  <2> QED
    BY <2>1, <2>2
<1>10. ~IsHead(cs, q)
  BY <1>3 DEF IsHead
<1>11. /\ DOMAIN ds \subseteq DOMAIN cs0
       /\ \A z \in DOMAIN ds : /\ ds[z].inUse = cs0[z].inUse /\ ds[z].stream = cs0[z].stream
                               /\ ds[z].requested = cs0[z].requested
                               /\ IsHead(ds, z) <=> IsHead(cs0, z)
  BY <1>2, <1>5, <1>7, <1>9 DEF Coarser
<1>12. Heads(cs0) \subseteq DOMAIN ds
  BY <1>2, <1>10 DEF Coarser, Heads
<1>13. ds = [z \in DOMAIN ds |-> ds[z]]
  BY DEF Merge
<1> QED
  BY <1>2, <1>6, <1>11, <1>12, <1>13 DEF Coarser

(* In which bin a chunk is does not matter to that.                        *)
LEMMA SameCoarser ==
  ASSUME NEW cs0, NEW cs, NEW rs, Coarser(cs, cs0, rs), NEW ds, DOMAIN ds = DOMAIN cs,
         ds = [x \in DOMAIN ds |-> ds[x]],
         \A x \in DOMAIN cs : /\ ds[x] \in Chunk
                              /\ ds[x].size = cs[x].size /\ ds[x].inUse = cs[x].inUse
                              /\ ds[x].next = cs[x].next /\ ds[x].prev = cs[x].prev
                              /\ ds[x].stream = cs[x].stream
                              /\ ds[x].requested = cs[x].requested
  PROVE  Coarser(ds, cs0, rs)
<1>1. ChunkMap(cs) /\ Tiled(cs, rs)
  BY DEF Coarser
<1>2. ChunkMap(ds)
  BY <1>1 DEF ChunkMap, PartialFunction
<1>3. Tiled(ds, rs)
  BY <1>1, SameShape
<1>4. ASSUME NEW x \in DOMAIN cs
      PROVE  IsHead(ds, x) <=> IsHead(cs, x)
  <2> DEFINE a == cs[x].prev
  <2>1. ds[x].prev = a /\ (a # None => a \in DOMAIN cs)
    BY <1>1, Links
  <2>2. Mergeable(ds, a, x) <=> Mergeable(cs, a, x)
    <3> HIDE DEF a
    <3> QED
      BY <2>1 DEF Mergeable
  <2> QED
    BY <2>1, <2>2 DEF IsHead
<1>5. \A x \in DOMAIN ds : /\ ds[x].inUse = cs0[x].inUse /\ ds[x].stream = cs0[x].stream
                           /\ ds[x].requested = cs0[x].requested
                           /\ IsHead(ds, x) <=> IsHead(cs0, x)
  BY <1>4 DEF Coarser
<1>6. DOMAIN ds \subseteq DOMAIN cs0 /\ Heads(cs0) \subseteq DOMAIN ds
  BY DEF Coarser
<1> QED
  BY <1>2, <1>3, <1>5, <1>6 DEF Coarser

(* A chunk is given another bin.                                           *)
WithBin(cs, p, b) == [cs EXCEPT ![p].bin = b]

(* What that leaves as it was.                                             *)
LEMMA BinCoarser ==
  ASSUME NEW cs0, NEW cs, NEW rs, Coarser(cs, cs0, rs), NEW p \in DOMAIN cs,
         NEW b \in Bin \cup {None}
  PROVE  /\ Coarser(WithBin(cs, p, b), cs0, rs) /\ DOMAIN WithBin(cs, p, b) = DOMAIN cs
         /\ \A x \in DOMAIN cs : /\ WithBin(cs, p, b)[x].size = cs[x].size
                                 /\ WithBin(cs, p, b)[x].inUse = cs[x].inUse
                                 /\ WithBin(cs, p, b)[x].next = cs[x].next
                                 /\ x # p => WithBin(cs, p, b)[x] = cs[x]
<1> DEFINE ds == WithBin(cs, p, b)
<1>1. \A x \in DOMAIN cs : x \in Nat /\ cs[x] \in Chunk
  BY DEF Coarser, ChunkMap, PartialFunction
<1>2. /\ DOMAIN ds = DOMAIN cs /\ ds[p] = [cs[p] EXCEPT !.bin = b]
      /\ \A x \in DOMAIN cs \ {p} : ds[x] = cs[x]
      /\ ds = [x \in DOMAIN ds |-> ds[x]]
  BY DEF WithBin
<1> HIDE DEF ds
<1>3. /\ ds[p] \in Chunk /\ ds[p].bin = b
      /\ ds[p].size = cs[p].size /\ ds[p].inUse = cs[p].inUse
      /\ ds[p].next = cs[p].next /\ ds[p].prev = cs[p].prev
      /\ ds[p].stream = cs[p].stream /\ ds[p].requested = cs[p].requested
  BY <1>1, <1>2 DEF Chunk
<1>4. \A x \in DOMAIN cs : /\ ds[x] \in Chunk
                           /\ ds[x].size = cs[x].size /\ ds[x].inUse = cs[x].inUse
                           /\ ds[x].next = cs[x].next /\ ds[x].prev = cs[x].prev
                           /\ ds[x].stream = cs[x].stream
                           /\ ds[x].requested = cs[x].requested
  BY <1>1, <1>2, <1>3
<1>5. Coarser(ds, cs0, rs)
  BY <1>2, <1>4, SameCoarser, Zenon
<1> QED
  BY <1>2, <1>3, <1>4, <1>5 DEF ds

(* A free chunk that leaves its bin is the only one that is in none.       *)
LEMMA UnbinBinned ==
  ASSUME NEW cs, NEW bs, NEW p \in DOMAIN cs, ChunkMap(cs), BinMap(bs), Binned(cs, bs),
         ~cs[p].inUse, NEW ds, DOMAIN ds = DOMAIN cs, ~ds[p].inUse,
         \A x \in DOMAIN cs \ {p} : ds[x] = cs[x]
  PROVE  /\ BinMap(RemoveFromBin(bs, p, cs[p].bin))
         /\ BinnedBut(ds, RemoveFromBin(bs, p, cs[p].bin), p)
<1> DEFINE c  == cs[p].bin
           ts == RemoveFromBin(bs, p, c)
<1>1. c \in Bin
  BY BinIndex DEF Binned
<1>2. /\ BinMap(ts)
      /\ \A b \in Bin : ts[b] = IF b = c THEN bs[b] \ {p} ELSE bs[b]
  BY <1>1 DEF BinMap, RemoveFromBin
<1> HIDE DEF ts
<1>3. \A x \in DOMAIN ds \ {p} :
        ds[x].bin = IF ds[x].inUse THEN None ELSE BinNumForSize(ds[x].size)
  BY DEF Binned
<1>4. \A b \in Bin : ts[b] = {x \in DOMAIN ds \ {p} : ds[x].bin = b}
  <2> SUFFICES ASSUME NEW b \in Bin, NEW z
               PROVE  z \in ts[b] <=> z \in DOMAIN ds \ {p} /\ ds[z].bin = b
    BY <1>2 DEF BinMap
  <2>1. z \in bs[b] <=> z \in DOMAIN cs /\ cs[z].bin = b
    BY DEF Binned
  <2>2. CASE z = p
    BY <2>1, <2>2, <1>2
  <2>3. CASE z # p
    BY <2>1, <2>3, <1>2
  <2> QED
    BY <2>2, <2>3
<1> QED
  BY <1>2, <1>3, <1>4 DEF BinnedBut, ts

(* Coalesce is a step of the walk: the chunk that results holds the one it *)
(* began at, and is a head if it is that one.                              *)
LEMMA CoalesceCoarser ==
  ASSUME NEW cs0, NEW cs, NEW bs, NEW rs, NEW p, RegionMap(rs), Apart(rs),
         Coarser(cs, cs0, rs), p \in DOMAIN cs, ~cs[p].inUse,
         NEW done, done = Coalesce(cs, bs, p)
  PROVE  /\ Coarser(done.chunks, cs0, rs) /\ DOMAIN done.chunks \subseteq DOMAIN cs
         /\ done.at \in DOMAIN done.chunks
         /\ (done.at = p /\ p \in Heads(cs0)) \/ done.at < p
         /\ p < done.at + done.chunks[done.at].size
<1> DEFINE next     == cs[p].next
           withNext == Mergeable(cs, p, next)
           cs1      == IF withNext THEN Merge(cs, p, next) ELSE cs
           prev     == cs[p].prev
           withPrev == Mergeable(cs1, prev, p)
<1>1. Coarser(cs1, cs0, rs) /\ DOMAIN cs1 \subseteq DOMAIN cs /\ p \in DOMAIN cs1 /\ cs1[p].prev = prev
  <2>1. CASE withNext
    <3>1. next \in DOMAIN cs /\ cs[p].next = next /\ Mergeable(cs, p, next)
      BY <2>1, Links DEF Mergeable, Coarser
    <3>2. cs1 = Merge(cs, p, next)
      BY <2>1
    <3> HIDE DEF next, withNext, cs1, prev
    <3>3. /\ Coarser(cs1, cs0, rs) /\ DOMAIN cs1 = DOMAIN cs \ {next} /\ p \in DOMAIN cs1
          /\ cs1[p].prev = cs[p].prev
      BY <3>1, <3>2, MergeCoarser
    <3> QED
      BY <3>3 DEF prev
  <2>2. CASE ~withNext
    BY <2>2
  <2> QED
    BY <2>1, <2>2
<1>2. /\ done.chunks = IF withPrev THEN Merge(cs1, prev, p) ELSE cs1
      /\ done.at = IF withPrev THEN prev ELSE p
  BY DEF Coalesce
<1> HIDE DEF cs1
<1>3. p \in Nat /\ cs1[p].size \in Nat \ {0} /\ None \notin Nat
  BY <1>1, Links DEF Coarser
<1>4. CASE withPrev
  <2>1. /\ prev \in DOMAIN cs1 /\ cs1[prev].next = p /\ prev < p /\ Mergeable(cs1, prev, p)
        /\ p = prev + cs1[prev].size /\ prev \in Nat /\ cs1[prev].size \in Nat
    <3>1. prev \in DOMAIN cs1 /\ cs1[prev].next = p /\ prev < p /\ p = prev + cs1[prev].size
      BY <1>1, <1>4, Links DEF Mergeable, Coarser
    <3> HIDE DEF prev
    <3> QED
      BY <3>1, <1>1, <1>4, Links DEF Coarser
  <2> DEFINE dc == done.chunks
  <2>2. dc = Merge(cs1, prev, p) /\ done.at = prev
    BY <1>2, <1>4
  <2> HIDE DEF prev, withPrev, dc
  <2>3. /\ Coarser(dc, cs0, rs) /\ DOMAIN dc = DOMAIN cs1 \ {p} /\ prev \in DOMAIN dc
        /\ dc[prev].size = cs1[prev].size + cs1[p].size
    BY <1>1, <2>1, <2>2, MergeCoarser
  <2>4. p < prev + dc[prev].size
    BY <1>3, <2>1, <2>3
  <2> QED
    BY <1>1, <2>1, <2>2, <2>3, <2>4 DEF dc
<1>5. CASE ~withPrev
  <2>1. done.chunks = cs1 /\ done.at = p
    BY <1>2, <1>5
  <2>2. IsHead(cs1, p)
    BY <1>1, <1>5 DEF IsHead
  <2>3. p \in Heads(cs0)
    BY <1>1, <2>2 DEF Coarser, Heads
  <2>4. p < p + cs1[p].size
    BY <1>3
  <2> HIDE DEF prev, withPrev
  <2> QED
    BY <1>1, <2>1, <2>3, <2>4
<1> QED
  BY <1>4, <1>5

(* What the walk has still to look at: the chunks of the regions that are  *)
(* not begun, and of its own region those from where it is.                *)
Ahead(st, cs0, rs) ==
  {p \in DOMAIN cs0 :
     \/ \E r \in st.left : Within(p, r, rs)
     \/ /\ st.at # None /\ st.at <= p
        /\ \E r \in DOMAIN rs : Within(st.at, r, rs) /\ Within(p, r, rs)}

(* What every turn of the walk preserves: what lies behind is done.        *)
WalkInv(st, cs0, rs) ==
  /\ st = [chunks |-> st.chunks, bins |-> st.bins, at |-> st.at, left |-> st.left]
  /\ Coarser(st.chunks, cs0, rs) /\ BinMap(st.bins) /\ Binned(st.chunks, st.bins)
  /\ st.left \subseteq DOMAIN rs
  /\ st.at # None => st.at \in DOMAIN st.chunks /\ \A r \in st.left : ~Within(st.at, r, rs)
  /\ \A p \in DOMAIN st.chunks : p \in Ahead(st, cs0, rs) \/ p \in Heads(cs0)

(* The walk goes on behind chunk h, which holds the one it had come to.    *)
LEMMA WalkAdvances ==
  ASSUME NEW cs0, NEW rs, ChunkMap(cs0), RegionMap(rs), Apart(rs),
         NEW st, WalkInv(st, cs0, rs), st.at # None,
         NEW cs, NEW bs, Coarser(cs, cs0, rs), BinMap(bs), Binned(cs, bs),
         DOMAIN cs \subseteq DOMAIN st.chunks,
         NEW h \in DOMAIN cs, (h = st.at /\ h \in Heads(cs0)) \/ h < st.at,
         st.at < h + cs[h].size,
         NEW su, su = [chunks |-> cs, bins |-> bs, at |-> cs[h].next, left |-> st.left]
  PROVE  /\ WalkInv(su, cs0, rs) /\ su.left = st.left
         /\ st.at \in Ahead(st, cs0, rs) /\ Ahead(su, cs0, rs) \subseteq Ahead(st, cs0, rs) \ {st.at}
<1> DEFINE a == st.at
           b == cs[h].next
           e == h + cs[h].size
<1>1. /\ su.chunks = cs /\ su.bins = bs /\ su.at = b /\ su.left = st.left
      /\ su = [chunks |-> su.chunks, bins |-> su.bins, at |-> su.at, left |-> su.left]
  OBVIOUS
<1>2. /\ ChunkMap(cs) /\ Tiled(cs, rs)
      /\ a \in DOMAIN st.chunks /\ DOMAIN st.chunks \subseteq DOMAIN cs0
      /\ st.left \subseteq DOMAIN rs /\ \A r \in st.left : ~Within(a, r, rs)
      /\ ChunkMap(st.chunks) /\ Tiled(st.chunks, rs)
      /\ \A x \in DOMAIN st.chunks : x \in Ahead(st, cs0, rs) \/ x \in Heads(cs0)
  BY DEF WalkInv, Coarser
<1>3. h \in Nat /\ cs[h].size \in Nat \ {0} /\ None \notin Nat /\ a \in Nat /\ e \in Nat
  BY <1>2, Links
<1>4. \A x \in DOMAIN st.chunks : x \in Nat
  BY <1>2, Links
<1>5. PICK r \in DOMAIN rs : Within(h, r, rs)
  BY <1>2 DEF Tiled
<1>6. /\ r \in Nat /\ rs[r] \in Nat /\ r <= h /\ e <= r + rs[r]
      /\ b = IF e = r + rs[r] THEN None ELSE e
  BY <1>2, <1>5 DEF Tiled, RegionMap, PartialFunction, Within
<1>7. b # None => b \in DOMAIN cs /\ b = e /\ b \in Nat /\ b < r + rs[r]
  <2>1. b # None => b \in DOMAIN cs /\ b = e /\ e # r + rs[r]
    BY <1>2, <1>6, Links
  <2> HIDE DEF b, e
  <2> QED
    BY <2>1, <1>3, <1>6
<1>8. \A x \in DOMAIN cs : x \in Nat /\ (h < x => e <= x) /\ (x < h => x + cs[x].size <= h)
  BY <1>2, Links DEF Tiled
<1> HIDE DEF a, b, e
<1>9. h <= a /\ a < e
  BY <1>3 DEF a, e
<1>10. Within(a, r, rs)
  BY <1>3, <1>6, <1>9 DEF Within
<1>11. b # None => Within(b, r, rs) /\ a < b
  BY <1>3, <1>6, <1>7, <1>9 DEF Within
<1>12. \A t \in DOMAIN rs : Within(a, t, rs) => t = r
  BY <1>3, <1>10, OneRegion
<1>13. b # None => \A t \in DOMAIN rs : Within(b, t, rs) => t = r
  BY <1>7, <1>11, OneRegion
<1>14. r \notin st.left
  BY <1>2, <1>10
<1>15. /\ \A x : x \in Ahead(st, cs0, rs) <=>
             x \in DOMAIN cs0 /\ ((\E t \in st.left : Within(x, t, rs)) \/ (a <= x /\ Within(x, r, rs)))
       /\ \A x : x \in Ahead(su, cs0, rs) <=>
             /\ x \in DOMAIN cs0
             /\ (\E t \in st.left : Within(x, t, rs)) \/ (b # None /\ b <= x /\ Within(x, r, rs))
  <2>1. a # None
    BY DEF a
  <2>2. /\ (\E t \in DOMAIN rs : Within(a, t, rs)) <=> Within(a, r, rs)
        /\ \A x : (\E t \in DOMAIN rs : Within(a, t, rs) /\ Within(x, t, rs)) <=> Within(x, r, rs)
    BY <1>5, <1>10, <1>12
  <2>3. b # None =>
          \A x : (\E t \in DOMAIN rs : Within(b, t, rs) /\ Within(x, t, rs)) <=> Within(x, r, rs)
    BY <1>5, <1>11, <1>13
  <2>4. \A x : x \in Ahead(st, cs0, rs) <=>
          x \in DOMAIN cs0 /\ ((\E t \in st.left : Within(x, t, rs)) \/ (a <= x /\ Within(x, r, rs)))
    BY <2>1, <2>2 DEF Ahead, a
  <2>5. \A x : x \in Ahead(su, cs0, rs) <=>
          /\ x \in DOMAIN cs0
          /\ (\E t \in st.left : Within(x, t, rs)) \/ (b # None /\ b <= x /\ Within(x, r, rs))
    <3>1. Ahead(su, cs0, rs) =
            {x \in DOMAIN cs0 :
               \/ \E t \in st.left : Within(x, t, rs)
               \/ /\ b # None /\ b <= x
                  /\ \E t \in DOMAIN rs : Within(b, t, rs) /\ Within(x, t, rs)}
      BY <1>1 DEF Ahead
    <3> QED
      BY <3>1, <2>3
  <2> QED
    BY <2>4, <2>5
<1>16. a \in Ahead(st, cs0, rs)
  BY <1>2, <1>3, <1>10, <1>15
<1>17. Ahead(su, cs0, rs) \subseteq Ahead(st, cs0, rs) \ {a}
  <2> SUFFICES ASSUME NEW x \in Ahead(su, cs0, rs)
               PROVE  x \in Ahead(st, cs0, rs) /\ x # a
    OBVIOUS
  <2>1. CASE \E t \in st.left : Within(x, t, rs)
    BY <2>1, <1>2, <1>15
  <2>2. CASE b # None /\ b <= x /\ Within(x, r, rs)
    <3>1. x \in DOMAIN cs0 /\ x \in Nat
      BY <1>15 DEF ChunkMap, PartialFunction
    <3> QED
      BY <3>1, <2>2, <1>3, <1>7, <1>11, <1>15
  <2> QED
    BY <2>1, <2>2, <1>15
<1>18. ASSUME NEW x \in DOMAIN cs
       PROVE  x \in Ahead(su, cs0, rs) \/ x \in Heads(cs0)
  <2>1. x \in Ahead(st, cs0, rs) \/ x \in Heads(cs0)
    BY <1>2
  <2>2. CASE a <= x /\ Within(x, r, rs)
    <3>1. CASE x = a
      <4>1. h = a
        BY <3>1, <1>3, <1>8, <1>9
      <4> QED
        BY <3>1, <4>1, <1>3 DEF a
    <3>2. CASE x # a
      <4>1. h < x /\ e <= x /\ x < r + rs[r]
        BY <2>2, <3>2, <1>3, <1>8, <1>9 DEF Within
      <4>2. b = e /\ b # None
        BY <4>1, <1>3, <1>6, <1>8
      <4> QED
        BY <2>2, <4>1, <4>2, <1>2, <1>15
    <3> QED
      BY <3>1, <3>2
  <2> QED
    BY <2>1, <2>2, <1>15
<1>19. WalkInv(su, cs0, rs)
  <2>1. b # None => b \in DOMAIN cs /\ \A t \in st.left : ~Within(b, t, rs)
    BY <1>2, <1>7, <1>13, <1>14
  <2> QED
    BY <2>1, <1>1, <1>2, <1>18 DEF WalkInv
<1> QED
  BY <1>1, <1>16, <1>17, <1>19 DEF a

(* A turn of the walk either has nothing to do, or looks at one chunk, or  *)
(* begins one region.                                                      *)
TurnDone(st, su, cs0, rs) ==
  \/ st.at = None /\ st.left = {} /\ su = st
  \/ /\ su.left = st.left
     /\ \E a \in Ahead(st, cs0, rs) : Ahead(su, cs0, rs) \subseteq Ahead(st, cs0, rs) \ {a}
  \/ /\ Ahead(su, cs0, rs) \subseteq Ahead(st, cs0, rs)
     /\ \E r \in st.left : su.left = st.left \ {r}

(* The next region has all its chunks ahead.                               *)
LEMMA EnterSound ==
  ASSUME NEW cs0, NEW rs, ChunkMap(cs0), RegionMap(rs), Apart(rs),
         NEW st, WalkInv(st, cs0, rs), st.at = None,
         NEW su, su = EnterRegion(st)
  PROVE  WalkInv(su, cs0, rs) /\ TurnDone(st, su, cs0, rs)
<1>1. CASE st.left = {}
  BY <1>1 DEF EnterRegion, TurnDone
<1>2. CASE st.left # {}
  <2> DEFINE r == Min(st.left)
  <2>1. r \in st.left /\ st.left \subseteq DOMAIN rs /\ \A t \in DOMAIN rs : t \in Nat /\ rs[t] \in Nat \ {0}
    <3>1. st.left \in SUBSET Nat /\ st.left \subseteq DOMAIN rs
      BY DEF WalkInv, RegionMap, PartialFunction
    <3>2. r \in st.left
      BY <1>2, <3>1, MinNat
    <3> HIDE DEF r
    <3> QED
      BY <3>1, <3>2 DEF RegionMap, PartialFunction
  <2>2. su = [st EXCEPT !.at = r, !.left = @ \ {r}]
    BY <1>2 DEF EnterRegion
  <2> HIDE DEF r
  <2>3. /\ su.chunks = st.chunks /\ su.bins = st.bins /\ su.at = r /\ su.left = st.left \ {r}
        /\ su = [chunks |-> su.chunks, bins |-> su.bins, at |-> su.at, left |-> su.left]
    <3>1. st = [chunks |-> st.chunks, bins |-> st.bins, at |-> st.at, left |-> st.left]
      BY DEF WalkInv
    <3> QED
      BY <2>2, <3>1
  <2>4. Within(r, r, rs)
    BY <2>1 DEF Within
  <2>5. \A t \in DOMAIN rs : Within(r, t, rs) => t = r
    BY <2>1, <2>4, OneRegion
  <2>6. r \in DOMAIN st.chunks /\ r # None
    <3>1. r \in DOMAIN st.chunks
      BY <2>1 DEF WalkInv, Coarser, Tiled
    <3> QED
      BY <3>1, Links DEF WalkInv, Coarser
  <2>7. \A x : x \in Ahead(su, cs0, rs) <=> x \in Ahead(st, cs0, rs)
    <3> SUFFICES ASSUME NEW x \in DOMAIN cs0
                 PROVE  x \in Ahead(su, cs0, rs) <=> x \in Ahead(st, cs0, rs)
      BY DEF Ahead
    <3>1. x \in Ahead(st, cs0, rs) <=> \E t \in st.left : Within(x, t, rs)
      BY DEF Ahead
    <3>2. x \in Ahead(su, cs0, rs) <=>
            \/ \E t \in st.left \ {r} : Within(x, t, rs)
            \/ r <= x /\ \E t \in DOMAIN rs : Within(r, t, rs) /\ Within(x, t, rs)
      BY <2>3, <2>6 DEF Ahead
    <3>3. (r <= x /\ \E t \in DOMAIN rs : Within(r, t, rs) /\ Within(x, t, rs)) <=> Within(x, r, rs)
      BY <2>1, <2>4, <2>5 DEF Within
    <3> QED
      BY <3>1, <3>2, <3>3, <2>1
  <2>8. \A t \in su.left : ~Within(su.at, t, rs)
    BY <2>1, <2>3, <2>5
  <2>9. WalkInv(su, cs0, rs)
    BY <2>3, <2>6, <2>7, <2>8 DEF WalkInv
  <2> QED
    BY <2>1, <2>3, <2>7, <2>9 DEF TurnDone
<1> QED
  BY <1>1, <1>2

(* What the walk does at a free chunk: it leaves a larger one, which holds *)
(* it and is in the bin of its size.                                       *)
LEMMA VisitSound ==
  ASSUME NEW cs0, NEW rs, NEW st, RegionMap(rs), Apart(rs),
         Coarser(st.chunks, cs0, rs), BinMap(st.bins), Binned(st.chunks, st.bins),
         st.at \in DOMAIN st.chunks, ~st.chunks[st.at].inUse
  PROVE  \E es, us : \E h \in DOMAIN es :
           /\ VisitFree(st) = [chunks |-> es, bins |-> us, at |-> es[h].next, left |-> st.left]
           /\ Coarser(es, cs0, rs) /\ DOMAIN es \subseteq DOMAIN st.chunks
           /\ Binned(es, us) /\ BinMap(us)
           /\ (h = st.at /\ h \in Heads(cs0)) \/ h < st.at
           /\ st.at < h + es[h].size
<1> DEFINE cs   == st.chunks
           a    == st.at
           ds   == WithBin(cs, a, None)
           ts   == RemoveFromBin(st.bins, a, cs[a].bin)
           done == Coalesce(ds, ts, a)
           dc   == done.chunks
           at   == done.at
           bin  == BinNumForSize(dc[at].size)
           es   == WithBin(dc, at, bin)
           us   == InsertInBin(done.bins, at, bin)
<1>1. VisitFree(st) = [chunks |-> es, bins |-> us, at |-> dc[at].next, left |-> st.left]
  BY DEF VisitFree, WithBin
<1>2. Coarser(cs, cs0, rs) /\ BinMap(st.bins) /\ Binned(cs, st.bins) /\ a \in DOMAIN cs /\ ~cs[a].inUse
  OBVIOUS
<1> HIDE DEF cs, a
<1>3. /\ Coarser(ds, cs0, rs) /\ DOMAIN ds = DOMAIN cs /\ ~ds[a].inUse
      /\ \A x \in DOMAIN cs \ {a} : ds[x] = cs[x]
  BY <1>2, BinCoarser
<1> HIDE DEF ds
<1>4. BinMap(ts) /\ BinnedBut(ds, ts, a)
  <2>1. ChunkMap(cs)
    BY <1>2 DEF Coarser
  <2> QED
    BY <1>2, <1>3, <2>1, UnbinBinned
<1> HIDE DEF ts
<1>5. /\ Coarser(dc, cs0, rs) /\ DOMAIN dc \subseteq DOMAIN ds
      /\ at \in DOMAIN dc
      /\ (at = a /\ a \in Heads(cs0)) \/ at < a
      /\ a < at + dc[at].size
  BY <1>2, <1>3, CoalesceCoarser
<1>6. Coalesces(ds, rs, done)
  <2>1. ChunkMap(ds) /\ Tiled(ds, rs)
    BY <1>3 DEF Coarser
  <2> QED
    BY <1>4, <2>1, CoalesceSound
<1>7. ChunkMap(dc) /\ BinMap(done.bins) /\ BinnedBut(dc, done.bins, at)
  BY <1>6 DEF Coalesces
<1> HIDE DEF done, dc, at
<1>8. bin \in Bin
  BY BinIndex
<1>9. Binned(es, us) /\ BinMap(us)
  BY <1>7, InsertBinned DEF WithBin
<1> HIDE DEF bin, us
<1>10. /\ Coarser(es, cs0, rs) /\ DOMAIN es = DOMAIN dc
       /\ es[at].size = dc[at].size /\ es[at].next = dc[at].next
  BY <1>5, <1>8, BinCoarser
<1> HIDE DEF es
<1>11. /\ at \in DOMAIN es
       /\ VisitFree(st) = [chunks |-> es, bins |-> us, at |-> es[at].next, left |-> st.left]
       /\ Coarser(es, cs0, rs) /\ DOMAIN es \subseteq DOMAIN st.chunks
       /\ Binned(es, us) /\ BinMap(us)
       /\ (at = st.at /\ at \in Heads(cs0)) \/ at < st.at
       /\ st.at < at + es[at].size
  BY <1>1, <1>3, <1>5, <1>9, <1>10 DEF cs, a
<1> QED
  BY <1>11

(* Every turn preserves the invariant.                                     *)
LEMMA TurnSound ==
  ASSUME NEW cs0, NEW rs, ChunkMap(cs0), RegionMap(rs), Apart(rs),
         NEW st, WalkInv(st, cs0, rs), NEW su, su = Turn(st)
  PROVE  WalkInv(su, cs0, rs) /\ TurnDone(st, su, cs0, rs)
<1>1. CASE st.at = None
  <2>1. su = EnterRegion(st)
    BY <1>1 DEF Turn
  <2> QED
    BY <1>1, <2>1, EnterSound
<1> DEFINE a  == st.at
           cs == st.chunks
<1>2. a # None => /\ a \in DOMAIN cs /\ Coarser(cs, cs0, rs) /\ BinMap(st.bins) /\ Binned(cs, st.bins)
                  /\ ChunkMap(cs) /\ Tiled(cs, rs)
                  /\ a \in Nat /\ cs[a].size \in Nat \ {0}
  <2>1. /\ a # None => a \in DOMAIN cs
        /\ Coarser(cs, cs0, rs) /\ BinMap(st.bins) /\ Binned(cs, st.bins)
        /\ ChunkMap(cs) /\ Tiled(cs, rs)
    BY DEF WalkInv, Coarser
  <2> HIDE DEF cs, a
  <2> QED
    BY <2>1, Links
<1>3. CASE a # None /\ cs[a].inUse
  <2>1. su = [chunks |-> cs, bins |-> st.bins, at |-> cs[a].next, left |-> st.left]
    <3>1. su = [st EXCEPT !.at = cs[a].next]
      BY <1>3 DEF Turn
    <3>2. st = [chunks |-> st.chunks, bins |-> st.bins, at |-> st.at, left |-> st.left]
      BY DEF WalkInv
    <3> QED
      BY <3>1, <3>2
  <2>2. a \in Heads(cs0)
    <3>1. IsHead(cs, a)
      BY <1>3 DEF IsHead, Mergeable
    <3> QED
      BY <1>2, <1>3, <3>1 DEF Coarser, Heads
  <2>3. a < a + cs[a].size
    BY <1>2, <1>3
  <2>4. /\ WalkInv(su, cs0, rs) /\ su.left = st.left
        /\ a \in Ahead(st, cs0, rs) /\ Ahead(su, cs0, rs) \subseteq Ahead(st, cs0, rs) \ {a}
    BY <1>2, <1>3, <2>1, <2>2, <2>3, WalkAdvances
  <2> QED
    BY <2>4 DEF TurnDone
<1>4. CASE a # None /\ ~cs[a].inUse
  <2>1. su = VisitFree(st)
    BY <1>4 DEF Turn
  <2>2. PICK es, us : \E h \in DOMAIN es :
           /\ VisitFree(st) = [chunks |-> es, bins |-> us, at |-> es[h].next, left |-> st.left]
           /\ Coarser(es, cs0, rs) /\ DOMAIN es \subseteq DOMAIN st.chunks
           /\ Binned(es, us) /\ BinMap(us)
           /\ (h = st.at /\ h \in Heads(cs0)) \/ h < st.at
           /\ st.at < h + es[h].size
    BY <1>2, <1>4, VisitSound
  <2>3. PICK h \in DOMAIN es :
           /\ VisitFree(st) = [chunks |-> es, bins |-> us, at |-> es[h].next, left |-> st.left]
           /\ Coarser(es, cs0, rs) /\ DOMAIN es \subseteq DOMAIN st.chunks
           /\ Binned(es, us) /\ BinMap(us)
           /\ (h = st.at /\ h \in Heads(cs0)) \/ h < st.at
           /\ st.at < h + es[h].size
    BY <2>2
  <2>4. /\ WalkInv(su, cs0, rs) /\ su.left = st.left
        /\ a \in Ahead(st, cs0, rs) /\ Ahead(su, cs0, rs) \subseteq Ahead(st, cs0, rs) \ {a}
    BY <1>4, <2>1, <2>3, WalkAdvances
  <2> QED
    BY <2>4 DEF TurnDone
<1> QED
  BY <1>1, <1>3, <1>4

(* f lists the states of n turns that begin with st.                       *)
Turning(st, n, f) == f = [k \in 0 .. n |-> IF k = 0 THEN st ELSE Turn(f[k - 1])]

(* What a list of states says turn by turn.                                *)
LEMMA TurningTurns ==
  ASSUME NEW st, NEW n \in Nat, NEW f, Turning(st, n, f)
  PROVE  f[0] = st /\ \A k \in 1 .. n : f[k] = Turn(f[k - 1])
<1>1. \A k \in 0 .. n : f[k] = IF k = 0 THEN st ELSE Turn(f[k - 1])
  BY DEF Turning
<1>2. 0 \in 0 .. n /\ \A k \in 1 .. n : k \in 0 .. n /\ k # 0
  OBVIOUS
<1> QED
  BY <1>1, <1>2, Zenon

(* There is one of every length.                                           *)
LEMMA TurningExists ==
  ASSUME NEW st, NEW n \in Nat
  PROVE  \E f : Turning(st, n, f)
<1> DEFINE Bad == {k \in Nat : ~ \E f : Turning(st, k, f)}
<1>1. SUFFICES ASSUME Bad # {} PROVE FALSE
  OBVIOUS
<1>2. PICK m \in Bad : \A k \in Bad : m <= k
  <2> HIDE DEF Bad
  <2>1. Bad \in SUBSET Nat
    BY DEF Bad
  <2> QED
    BY <1>1, <2>1, LeastNat
<1>3. CASE m = 0
  <2> DEFINE h == [k \in 0 .. 0 |-> st]
  <2>1. \A k \in 0 .. 0 : k = 0
    OBVIOUS
  <2>2. h = [k \in 0 .. 0 |-> IF k = 0 THEN st ELSE Turn(h[k - 1])]
    BY <2>1
  <2>3. Turning(st, 0, h)
    BY <2>2 DEF Turning
  <2> QED
    BY <1>3, <2>3
<1>4. CASE m # 0
  <2>1. m \in Nat /\ m - 1 \in Nat /\ ~(m <= m - 1)
    BY <1>4
  <2>2. PICK f : Turning(st, m - 1, f)
    BY <1>2, <2>1
  <2> DEFINE g == [k \in 0 .. m |-> IF k = m THEN Turn(f[m - 1]) ELSE f[k]]
  <2>3. f[0] = st /\ \A k \in 1 .. (m - 1) : f[k] = Turn(f[k - 1])
    <3> DEFINE l == m - 1
    <3>1. l \in Nat /\ Turning(st, l, f)
      BY <2>1, <2>2
    <3> HIDE DEF l, g, Bad
    <3>2. f[0] = st /\ \A k \in 1 .. l : f[k] = Turn(f[k - 1])
      BY <3>1, TurningTurns
    <3> QED
      BY <3>2 DEF l
  <2>4. ASSUME NEW k \in 0 .. m
        PROVE  g[k] = IF k = 0 THEN st ELSE Turn(g[k - 1])
    <3>1. CASE k = 0
      BY <1>4, <2>3, <3>1
    <3>2. CASE k = m
      <4>1. g[k] = Turn(f[k - 1]) /\ g[k - 1] = f[k - 1] /\ k # 0
        BY <1>4, <2>1, <3>2
      <4> HIDE DEF g
      <4> QED
        BY <4>1
    <3>3. CASE k # 0 /\ k # m
      <4>1. k \in 1 .. (m - 1) /\ k - 1 \in 0 .. m /\ k - 1 # m
        BY <2>1, <3>3
      <4>2. g[k] = f[k] /\ g[k - 1] = f[k - 1] /\ f[k] = Turn(f[k - 1])
        BY <2>3, <3>3, <4>1
      <4> HIDE DEF g
      <4> QED
        BY <3>3, <4>2
    <3> QED
      BY <3>1, <3>2, <3>3
  <2>5. Turning(st, m, g)
    <3>1. g = [k \in 0 .. m |-> g[k]]
      OBVIOUS
    <3> HIDE DEF g
    <3> QED
      BY <2>4, <3>1 DEF Turning
  <2> QED
    BY <2>5
<1> QED
  BY <1>3, <1>4

(* Turns is the last of n states.                                          *)
LEMMA TurnsAre ==
  ASSUME NEW st, NEW n \in Nat
  PROVE  \E f : Turning(st, n, f) /\ Turns(st, n) = f[n]
<1> DEFINE f == CHOOSE g : Turning(st, n, g)
<1>1. Turning(st, n, f)
  BY TurningExists
<1>2. Turns(st, n) = f[n]
  BY DEF Turns, Turning
<1> QED
  BY <1>1, <1>2

(* The chunks and regions that the walk has still to look at.              *)
Remaining(st, cs0, rs) == Cardinality(st.left) + Cardinality(Ahead(st, cs0, rs))

(* Every turn leaves less to look at, until there is nothing left.         *)
LEMMA TurnsAreFinite ==
  ASSUME NEW cs0, NEW rs, ChunkMap(cs0), RegionMap(rs), Apart(rs),
         IsFiniteSet(DOMAIN cs0), IsFiniteSet(DOMAIN rs),
         NEW st, WalkInv(st, cs0, rs), NEW su, su = Turn(st)
  PROVE  /\ WalkInv(su, cs0, rs)
         /\ Remaining(st, cs0, rs) \in Nat /\ Remaining(su, cs0, rs) \in Nat
         /\ Remaining(su, cs0, rs) = 0 \/ Remaining(su, cs0, rs) < Remaining(st, cs0, rs)
<1>1. WalkInv(su, cs0, rs) /\ TurnDone(st, su, cs0, rs)
  BY TurnSound
<1> DEFINE A == Ahead(st, cs0, rs)
           B == Ahead(su, cs0, rs)
           L == st.left
           M == su.left
<1>2. A \subseteq DOMAIN cs0 /\ B \subseteq DOMAIN cs0 /\ L \subseteq DOMAIN rs /\ M \subseteq DOMAIN rs
  BY <1>1 DEF Ahead, WalkInv
<1>3. /\ IsFiniteSet(A) /\ IsFiniteSet(B) /\ IsFiniteSet(L) /\ IsFiniteSet(M)
      /\ Cardinality(A) \in Nat /\ Cardinality(B) \in Nat
      /\ Cardinality(L) \in Nat /\ Cardinality(M) \in Nat
  <2> HIDE DEF A, B, L, M
  <2> QED
    BY <1>2, FS_Subset, FS_CardinalityType
<1>4. \/ st.at = None /\ L = {} /\ su = st
      \/ M = L /\ \E a \in A : B \subseteq A \ {a}
      \/ B \subseteq A /\ \E r \in L : M = L \ {r}
  BY <1>1 DEF TurnDone
<1>5. st.at = None /\ L = {} /\ su = st => A = {} /\ B = {} /\ M = {}
  BY DEF Ahead
<1> HIDE DEF A, B, L, M
<1>6. CASE st.at = None /\ L = {} /\ su = st
  <2>1. Cardinality(B) = 0 /\ Cardinality(M) = 0
    BY <1>5, <1>6, FS_EmptySet
  <2> QED
    BY <1>1, <1>3, <2>1 DEF Remaining, A, B, L, M
<1>7. CASE M = L /\ \E a \in A : B \subseteq A \ {a}
  <2>1. PICK a \in A : B \subseteq A \ {a}
    BY <1>7
  <2>2. Cardinality(A \ {a}) = Cardinality(A) - 1 /\ IsFiniteSet(A \ {a})
    BY <1>3, FS_RemoveElement
  <2>3. Cardinality(B) <= Cardinality(A \ {a})
    BY <2>1, <2>2, FS_Subset
  <2>4. Cardinality(M) + Cardinality(B) < Cardinality(L) + Cardinality(A)
    BY <1>3, <1>7, <2>2, <2>3
  <2> QED
    BY <1>1, <1>3, <2>4 DEF Remaining, A, B, L, M
<1>8. CASE B \subseteq A /\ \E r \in L : M = L \ {r}
  <2>1. Cardinality(M) = Cardinality(L) - 1
    BY <1>3, <1>8, FS_RemoveElement
  <2>2. Cardinality(B) <= Cardinality(A)
    BY <1>3, <1>8, FS_Subset
  <2>3. Cardinality(M) + Cardinality(B) < Cardinality(L) + Cardinality(A)
    BY <1>3, <2>1, <2>2
  <2> QED
    BY <1>1, <1>3, <2>3 DEF Remaining, A, B, L, M
<1> QED
  BY <1>4, <1>6, <1>7, <1>8

(* The walk comes to its end within the turns it is given.                 *)
LEMMA WalkEnds ==
  ASSUME NEW cs0, NEW bs, cs0 = [p \in DOMAIN cs0 |-> cs0[p]], ChunkMap(cs0),
         RegionMap(regions), Apart(regions), Tiled(cs0, regions), BinMap(bs), Binned(cs0, bs),
         IsFiniteSet(DOMAIN cs0), IsFiniteSet(DOMAIN regions)
  PROVE  /\ WalkInv(WalkRegions(cs0, bs), cs0, regions)
         /\ WalkRegions(cs0, bs).at = None /\ WalkRegions(cs0, bs).left = {}
<1> DEFINE first == Begin(cs0, bs)
           n     == Cardinality(DOMAIN regions) + Cardinality(DOMAIN cs0)
           R(st) == Remaining(st, cs0, regions)
<1>1. n \in Nat /\ Cardinality(DOMAIN regions) \in Nat /\ Cardinality(DOMAIN cs0) \in Nat
  BY FS_CardinalityType
<1>2. WalkInv(first, cs0, regions) /\ R(first) \in Nat /\ R(first) <= n
  <2>1. /\ first.chunks = cs0 /\ first.bins = bs /\ first.at = None /\ first.left = DOMAIN regions
        /\ first = [chunks |-> first.chunks, bins |-> first.bins, at |-> first.at, left |-> first.left]
    BY DEF Begin
  <2> HIDE DEF first
  <2>2. Coarser(cs0, cs0, regions)
    BY DEF Coarser, Heads
  <2>3. \A p \in DOMAIN cs0 : p \in Ahead(first, cs0, regions)
    BY <2>1 DEF Ahead, Tiled
  <2>4. WalkInv(first, cs0, regions)
    BY <2>1, <2>2, <2>3 DEF WalkInv
  <2>5. Ahead(first, cs0, regions) \subseteq DOMAIN cs0
    BY DEF Ahead
  <2>6. /\ Cardinality(Ahead(first, cs0, regions)) <= Cardinality(DOMAIN cs0)
        /\ Cardinality(Ahead(first, cs0, regions)) \in Nat
    BY <2>5, FS_Subset, FS_CardinalityType
  <2> QED
    BY <2>1, <2>4, <2>6, <1>1 DEF Remaining
<1>3. PICK f : Turning(first, n, f) /\ Turns(first, n) = f[n]
  <2> HIDE DEF first, n
  <2> QED
    BY <1>1, TurnsAre
<1>4. f[0] = first /\ \A k \in 1 .. n : f[k] = Turn(f[k - 1])
  <2> HIDE DEF first, n
  <2> QED
    BY <1>1, <1>3, TurningTurns
<1>5. WalkRegions(cs0, bs) = f[n]
  BY <1>3 DEF WalkRegions
<1> HIDE DEF first, n
<1> DEFINE Good(k) == /\ WalkInv(f[k], cs0, regions)
                      /\ R(f[k]) \in Nat /\ R(f[k]) + k <= n
           Bad == {k \in 0 .. n : ~Good(k)}
<1>6. Bad = {}
  <2>1. SUFFICES ASSUME Bad # {} PROVE FALSE
    OBVIOUS
  <2>2. PICK m \in Bad : \A k \in Bad : m <= k
    <3>1. Bad \in SUBSET Nat
      BY <1>1
    <3> HIDE DEF Bad
    <3> QED
      BY <2>1, <3>1, LeastNat
  <2>3. m \in 0 .. n /\ ~Good(m)
    OBVIOUS
  <2>4. CASE m = 0
    <3> HIDE DEF R
    <3> QED
      BY <2>3, <2>4, <1>1, <1>2, <1>4
  <2>5. CASE m # 0
    <3> DEFINE l == m - 1
    <3>1. l \in 0 .. n /\ l \in Nat /\ m \in 1 .. n /\ ~(m <= l) /\ m = l + 1 /\ m <= n
      BY <2>3, <2>5, <1>1
    <3>2. Good(l)
      BY <2>2, <3>1
    <3>3. f[m] = Turn(f[l])
      BY <1>4, <3>1
    <3> HIDE DEF l, Bad
    <3>4. WalkInv(f[l], cs0, regions) /\ R(f[l]) + l <= n
      BY <3>2
    <3>5. /\ WalkInv(f[m], cs0, regions)
          /\ R(f[l]) \in Nat /\ R(f[m]) \in Nat
          /\ R(f[m]) = 0 \/ R(f[m]) < R(f[l])
      BY <3>3, <3>4, TurnsAreFinite
    <3> HIDE DEF R
    <3>6. R(f[m]) + m <= n
      BY <1>1, <3>1, <3>4, <3>5
    <3> QED
      BY <2>3, <3>5, <3>6
  <2> QED
    BY <2>4, <2>5
<1>7. Good(n)
  <2>1. n \in 0 .. n
    BY <1>1
  <2> HIDE DEF Good
  <2> QED
    BY <1>6, <2>1
<1> DEFINE st == f[n]
<1>8. WalkInv(st, cs0, regions) /\ R(st) = 0
  <2>1. WalkInv(st, cs0, regions)
    BY <1>7
  <2>2. R(st) \in Nat /\ R(st) + n <= n
    BY <1>7
  <2> HIDE DEF R, st
  <2> QED
    BY <2>1, <2>2, <1>1
<1> HIDE DEF st
<1>9. st.left = {} /\ Ahead(st, cs0, regions) = {}
  <2> DEFINE A == Ahead(st, cs0, regions)
             L == st.left
  <2>1. A \subseteq DOMAIN cs0 /\ L \subseteq DOMAIN regions
    BY <1>8 DEF Ahead, WalkInv
  <2>2. Cardinality(L) + Cardinality(A) = 0
    BY <1>8 DEF Remaining
  <2> HIDE DEF A, L
  <2>3. IsFiniteSet(A) /\ IsFiniteSet(L) /\ Cardinality(A) \in Nat /\ Cardinality(L) \in Nat
    BY <2>1, FS_Subset, FS_CardinalityType
  <2>4. Cardinality(L) = 0 /\ Cardinality(A) = 0
    BY <2>2, <2>3
  <2> QED
    BY <2>3, <2>4, FS_EmptySet DEF A, L
<1>10. st.at = None
  <2> SUFFICES ASSUME st.at # None PROVE FALSE
    OBVIOUS
  <2> DEFINE a == st.at
  <2>1. a \in DOMAIN cs0
    BY <1>8 DEF WalkInv, Coarser
  <2>2. a \in Nat /\ \E r \in DOMAIN regions : Within(a, r, regions)
    BY <2>1 DEF ChunkMap, PartialFunction, Tiled
  <2>3. a \in Ahead(st, cs0, regions)
    BY <2>1, <2>2 DEF Ahead
  <2> QED
    BY <2>3, <1>9
<1> QED
  BY <1>5, <1>8, <1>9, <1>10 DEF st

(* What the walk leaves is what Coalesced says.                            *)
LEMMA WalkResult ==
  ASSUME NEW cs0, NEW rs, ChunkMap(cs0), RegionMap(rs), Apart(rs), Tiled(cs0, rs),
         NEW st, WalkInv(st, cs0, rs), st.at = None, st.left = {}
  PROVE  st = [chunks |-> Coalesced(cs0),
               bins   |-> [b \in Bin |-> {p \in Heads(cs0) : Coalesced(cs0)[p].bin = b}],
               at     |-> None,
               left   |-> {}]
<1> DEFINE cs == st.chunks
           ds == Coalesced(cs0)
<1>1. /\ st = [chunks |-> cs, bins |-> st.bins, at |-> None, left |-> {}]
      /\ BinMap(st.bins) /\ Binned(cs, st.bins)
      /\ cs = [p \in DOMAIN cs |-> cs[p]] /\ ChunkMap(cs) /\ Tiled(cs, rs)
      /\ \A p \in DOMAIN cs : /\ p \in DOMAIN cs0
                              /\ cs[p].inUse = cs0[p].inUse /\ cs[p].stream = cs0[p].stream
                              /\ cs[p].requested = cs0[p].requested
      /\ Heads(cs0) \subseteq DOMAIN cs
  BY DEF WalkInv, Coarser
<1>2. DOMAIN cs = Heads(cs0)
  <2>1. Ahead(st, cs0, rs) = {}
    BY DEF Ahead
  <2>2. \A p \in DOMAIN cs : p \in Heads(cs0)
    BY <2>1 DEF WalkInv
  <2> QED
    BY <1>1, <2>2
<1>3. ChunkMap(ds) /\ Tiled(ds, rs) /\ Walked(cs0, ds) /\ ds = [p \in DOMAIN ds |-> ds[p]]
  <2>1. ds = [p \in DOMAIN ds |-> ds[p]]
    BY DEF Coalesced
  <2> HIDE DEF ds
  <2> QED
    BY <2>1, CoalescedTiled, CoalescedFields DEF ds
<1>4. \A p \in Heads(cs0) : ds[p].requested = cs0[p].requested
  <2> SUFFICES ASSUME NEW p \in Heads(cs0) PROVE ds[p].requested = cs0[p].requested
    OBVIOUS
  <2> DEFINE last == RunEnd(cs0, p)
             size == last + cs0[last].size - p
             bin  == IF cs0[p].inUse THEN None ELSE BinNumForSize(size)
             next == cs0[last].next
             prev == IF cs0[p].prev = None THEN None ELSE HeadOf(cs0, cs0[p].prev)
  <2>1. ds[p] = [cs0[p] EXCEPT !.size = size, !.bin = bin, !.next = next, !.prev = prev]
    BY DEF Coalesced
  <2>2. cs0[p] \in Chunk
    BY DEF ChunkMap, PartialFunction, Heads
  <2> HIDE DEF size, bin, next, prev, ds
  <2> QED
    BY <2>1, <2>2 DEF Chunk
<1> HIDE DEF cs, ds
<1>5. DOMAIN ds = DOMAIN cs
  BY <1>2, <1>3 DEF Walked
<1>6. \A p \in DOMAIN cs : /\ ds[p].size = cs[p].size
                           /\ ds[p].next = cs[p].next /\ ds[p].prev = cs[p].prev
  BY <1>1, <1>3, <1>5, TilingUnique
<1>7. \A p \in DOMAIN cs : /\ ds[p].inUse = cs[p].inUse /\ ds[p].stream = cs[p].stream
                           /\ ds[p].requested = cs[p].requested /\ ds[p].bin = cs[p].bin
  BY <1>1, <1>2, <1>3, <1>4, <1>6 DEF Walked, Binned
<1>8. ASSUME NEW p \in DOMAIN cs
      PROVE  ds[p] = cs[p]
  <2>1. ds[p] \in Chunk /\ cs[p] \in Chunk
    BY <1>1, <1>3, <1>5 DEF ChunkMap, PartialFunction
  <2> QED
    BY <2>1, <1>6, <1>7 DEF Chunk
<1>9. cs = ds
  BY <1>1, <1>3, <1>5, <1>8
<1>10. st.bins = [b \in Bin |-> {p \in Heads(cs0) : ds[p].bin = b}]
  <2>1. \A b \in Bin : st.bins[b] = {p \in Heads(cs0) : ds[p].bin = b}
    BY <1>1, <1>2, <1>9 DEF Binned
  <2>2. st.bins = [b \in Bin |-> st.bins[b]]
    BY <1>1 DEF BinMap
  <2> QED
    BY <2>1, <2>2
<1> QED
  BY <1>1, <1>9, <1>10 DEF ds

(* The loops of ResetChunksUsingStream, which change the links they        *)
(* follow, end with what MusaArena says they leave, whatever stream is     *)
(* released and whatever the arena holds.                                  *)
THEOREM WalkAlwaysCoalesced == Spec => []WalkIsCoalesced
<1>1. ArenaInv /\ InUseInv /\ BudgetInv => WalkIsCoalesced
  <2> SUFFICES ASSUME ArenaInv, InUseInv, BudgetInv, NEW i \in DOMAIN streamOf
               PROVE  WalkRegions(Cleared(streamOf[i]), bins) =
                        [chunks |-> Coalesced(Cleared(streamOf[i])),
                         bins   |-> [b \in Bin |-> {p \in Heads(Cleared(streamOf[i])) :
                                                      Coalesced(Cleared(streamOf[i]))[p].bin = b}],
                         at     |-> None,
                         left   |-> {}]
    BY DEF WalkIsCoalesced
  <2> DEFINE mine    == ChunksOf(streamOf[i])
             cleared == Cleared(streamOf[i])
  <2>1. /\ DOMAIN cleared = DOMAIN chunks
        /\ cleared = [x \in DOMAIN cleared |-> cleared[x]]
        /\ \A x \in DOMAIN chunks :
             /\ cleared[x] = IF x \in mine THEN [chunks[x] EXCEPT !.stream = None] ELSE chunks[x]
             /\ x \in Nat /\ chunks[x] \in Chunk
    BY ArenaParts DEF Cleared, ChunkMap, PartialFunction
  <2> HIDE DEF cleared, mine
  <2>2. \A x \in DOMAIN chunks :
          /\ cleared[x] \in Chunk
          /\ cleared[x].size = chunks[x].size
          /\ cleared[x].next = chunks[x].next /\ cleared[x].prev = chunks[x].prev
          /\ cleared[x].inUse = chunks[x].inUse /\ cleared[x].bin = chunks[x].bin
    <3> SUFFICES ASSUME NEW x \in DOMAIN chunks
                 PROVE  /\ cleared[x] \in Chunk
                        /\ cleared[x].size = chunks[x].size
                        /\ cleared[x].next = chunks[x].next /\ cleared[x].prev = chunks[x].prev
                        /\ cleared[x].inUse = chunks[x].inUse /\ cleared[x].bin = chunks[x].bin
      BY Zenon
    <3> QED
      BY <2>1 DEF Chunk
  <2>3. ChunkMap(cleared)
    BY <2>1, <2>2 DEF ChunkMap, PartialFunction
  <2>4. Tiled(cleared, regions)
    BY <2>1, <2>2, ArenaParts, SameShape
  <2>5. Binned(cleared, bins)
    BY <2>1, <2>2, ArenaParts DEF Binned
  <2>6. IsFiniteSet(DOMAIN cleared) /\ IsFiniteSet(DOMAIN regions)
    BY <2>1 DEF InUseInv, BudgetInv
  <2> DEFINE st == WalkRegions(cleared, bins)
  <2>7. WalkInv(st, cleared, regions) /\ st.at = None /\ st.left = {}
    BY <2>1, <2>3, <2>4, <2>5, <2>6, ArenaParts, WalkEnds
  <2> HIDE DEF st
  <2> QED
    BY <2>3, <2>4, <2>7, ArenaParts, WalkResult DEF st, cleared
<1> QED
  BY <1>1, ArenaInvAlways, InUseInvAlways, BudgetInvAlways, PTL

=============================================================================
