----------------------------- MODULE MusaArena -----------------------------
(***************************************************************************)
(* The device arena: ArenaImpl of musa_arena.{h,cc} and the index of chunk *)
(* owners of arena_ownership_index.h.  Regions obtained from the device    *)
(* are cut into chunks; the chunks of a region are doubly linked, a free   *)
(* chunk is in the bin of its size, and a chunk that was given to a stream *)
(* stays that stream's, in use or free, until the stream is released.      *)
(*                                                                         *)
(* Every public method holds lock_ from before it reads the arena until    *)
(* after its last write, so it is one action.  A chunk is named by its     *)
(* address: the code's handle keeps its ptr as long as the chunk exists,   *)
(* and AllocationRegion::handles_ maps the one to the other.  Sizes and    *)
(* addresses are bytes.                                                    *)
(***************************************************************************)
EXTENDS Integers, FiniteSets, FiniteSetsExt, Functions

CONSTANTS
  Stream,          (* OrtSyncStream objects.                               *)
  Impl,            (* OrtSyncStreamImpl objects.                           *)
  None,            (* A null pointer, or kInvalidChunkHandle.              *)
  Granule,         (* kMinAllocationSize.                                  *)
  NumBins,         (* kNumBins.                                            *)
  MaxMem,          (* config_.max_mem.                                     *)
  InitialChunk,    (* config_.initial_chunk_size_bytes.                    *)
  InitialGrowth,   (* config_.initial_growth_chunk_size_bytes.             *)
  MaxDead,         (* config_.max_dead_bytes_per_chunk.                    *)
  MaxExtend,       (* config_.max_power_of_two_extend_bytes.               *)
  NextPowerOfTwo,  (* config_.arena_extend_strategy is kNextPowerOfTwo.    *)
  SizeMax,         (* numeric_limits<size_t>::max().                       *)
  BackpedalMin,    (* The 8 * 1024 that Extend does not back off below.    *)
  Base,            (* Addresses the device allocator may return.           *)
  Request          (* Sizes that callers ask for.                          *)

ASSUME ArenaAssumption ==
  /\ Granule \in Nat \ {0}
  /\ NumBins \in Nat \ {0}
  /\ {MaxMem, InitialChunk, InitialGrowth, MaxDead, MaxExtend} \subseteq Nat \ {0}
  /\ NextPowerOfTwo \in BOOLEAN
  /\ {SizeMax, BackpedalMin} \subseteq Nat
  /\ Base \subseteq Nat
  /\ Request \subseteq Nat \ {0}
  /\ None \notin Stream \cup Impl \cup Int

VARIABLES
  impl,            (* SyncStream_GetImpl of each stream; None: no stream.  *)
  regions,         (* region_manager_: size of the region at each base.    *)
  chunks,          (* chunks_: the chunk at each address.                  *)
  bins,            (* The chunks in each bin.                              *)
  owned,           (* ownership_index_.stream_to_chunks_.                  *)
  streamOf,        (* ownership_index_.impl_to_stream_.                    *)
  reserved,        (* reserved_chunks_: size of each direct allocation.    *)
  totalAllocated,  (* stats_.total_allocated_bytes.                        *)
  bytesInUse,      (* stats_.bytes_in_use.                                 *)
  currRegion       (* curr_region_allocation_bytes_.                       *)

chunkVars == <<chunks, bins, owned, streamOf>>
arenaVars == <<regions, chunkVars, reserved, totalAllocated, bytesInUse, currRegion>>
vars      == <<impl, arenaVars>>

Bin == 0 .. NumBins - 1

Chunk ==
  [size : Nat \ {0}, requested : Nat, inUse : BOOLEAN, prev : Nat \cup {None},
   next : Nat \cup {None}, bin : Bin \cup {None}, stream : Stream \cup {None}]

-----------------------------------------------------------------------------
(* Sizes                                                                   *)

Rounded(n) == Granule * ((n + Granule - 1) \div Granule)

(* The index of the highest bin whose smallest size, Granule * 2^b, is     *)
(* still within n; bin 0 also takes what is smaller.                       *)
BinNumForSize(n) == Cardinality({b \in 1 .. NumBins - 1 : Granule * 2^b <= n})

(* Extend's doubling loop: the first of c, 2c, 4c ... that holds n, or     *)
(* SizeMax where doubling would overflow.                                  *)
GrownTo(c, n) ==
  LET fits == {x \in n .. SizeMax : \E k \in 1 .. n : x = c * 2^k}
  IN  IF n <= c THEN c ELSE IF fits = {} THEN SizeMax ELSE Min(fits)

-----------------------------------------------------------------------------
(* The ownership index                                                     *)

(* ArenaOwnershipIndex::Assign for every chunk of D, from its owner in cs  *)
(* to none: a stream left without chunks leaves both maps.                 *)
DisownedChunks(cs, D) ==
  LET left == [s \in DOMAIN owned |-> {p \in owned[s] : ~(p \in D /\ cs[p].stream = s)}]
  IN  Restrict(left, {s \in DOMAIN owned : left[s] # {}})

(* Mutant: the implementation of a stream without chunks stays known.      *)
DisownedStreamsStale(cs, D) == streamOf

DisownedStreams(cs, D) ==
  Restrict(streamOf,
           {i \in DOMAIN streamOf :
              \/ streamOf[i] \in DOMAIN DisownedChunks(cs, D)
              \/ streamOf[i] \notin DOMAIN owned
              \/ impl[streamOf[i]] # i})

Disown(cs, D) ==
  /\ owned' = DisownedChunks(cs, D)
  /\ streamOf' = DisownedStreams(cs, D)

(* Assign of the chunks in P, none of them another stream's, to s.         *)
Own(P, s) ==
  /\ owned' = [t \in DOMAIN owned \cup {s} |->
                 (IF t \in DOMAIN owned THEN owned[t] ELSE {})
                   \cup (IF t = s THEN P ELSE {})]
  /\ streamOf' = [i \in DOMAIN streamOf \cup {impl[s]} |->
                    IF i = impl[s] THEN s ELSE streamOf[i]]

(* Where Assign(p, ..., s, ...) would throw.                               *)
AssignThrows(p, s) ==
  LET old == chunks[p].stream
  IN  \/ impl[s] = None
      \/ impl[s] \in DOMAIN streamOf /\ streamOf[impl[s]] # s
      \/ old \notin {s, None} /\ (old \notin DOMAIN owned \/ p \notin owned[old])

-----------------------------------------------------------------------------
(* Chunks and bins                                                         *)

FreeChunk(n) ==
  [size |-> n, requested |-> 0, inUse |-> FALSE, prev |-> None, next |-> None,
   bin |-> BinNumForSize(n), stream |-> None]

InsertInBin(bs, p, b) == [bs EXCEPT ![b] = @ \cup {p}]

RemoveFromBin(bs, p, b) == [bs EXCEPT ![b] = @ \ {p}]

(* Mutant: the rest of a split chunk is nobody's.                          *)
SplitChunkDisowned(cs, p, n) ==
  [r \in DOMAIN cs \cup {p + n} |->
     CASE r = p + n -> [FreeChunk(cs[p].size - n) EXCEPT !.prev = p, !.next = cs[p].next]
       [] r = p -> [cs[p] EXCEPT !.size = n, !.next = p + n]
       [] r # p /\ r # p + n /\ r = cs[p].next -> [cs[r] EXCEPT !.prev = p + n]
       [] OTHER -> cs[r]]

(* SplitChunk: chunk p keeps its first n bytes, the rest becomes a free    *)
(* chunk of the same owner behind it.                                      *)
SplitChunk(cs, p, n) ==
  LET q    == p + n
      rest == [FreeChunk(cs[p].size - n) EXCEPT
                 !.prev = p, !.next = cs[p].next, !.stream = cs[p].stream]
  IN  [r \in DOMAIN cs \cup {q} |->
         CASE r = q -> rest
           [] r = p -> [cs[p] EXCEPT !.size = n, !.next = q]
           [] r # p /\ r # q /\ r = cs[p].next -> [cs[r] EXCEPT !.prev = q]
           [] OTHER -> cs[r]]

(* Mutant: the chunk behind the merged one keeps its link to it.           *)
MergeOneWay(cs, p, q) ==
  [r \in DOMAIN cs \ {q} |->
     IF r = p THEN [cs[p] EXCEPT !.size = @ + cs[q].size, !.next = cs[q].next] ELSE cs[r]]

(* Merge: chunk p takes over its successor q.                              *)
Merge(cs, p, q) ==
  [r \in DOMAIN cs \ {q} |->
     CASE r = p -> [cs[p] EXCEPT !.size = @ + cs[q].size, !.next = cs[q].next]
       [] r # p /\ r = cs[q].next -> [cs[r] EXCEPT !.prev = p]
       [] OTHER -> cs[r]]

(* Two neighbours that Coalesce merges.                                    *)
Mergeable(cs, p, q) ==
  /\ p # None /\ q # None
  /\ ~cs[p].inUse /\ ~cs[q].inUse
  /\ cs[p].stream = cs[q].stream

-----------------------------------------------------------------------------
(* Allocation                                                              *)

(* The free chunks that FindChunkPtr would accept for stream s.            *)
Candidates(cs, bs, rounded, s) ==
  {p \in UNION {bs[b] : b \in BinNumForSize(rounded) .. NumBins - 1} :
     cs[p].size >= rounded /\ cs[p].stream \in {s, None}}

(* Mutant: the search begins with the bin of the largest sizes.            *)
BeforeFromLast(cs, p, q) ==
  \/ cs[p].bin > cs[q].bin
  \/ cs[p].bin = cs[q].bin /\ cs[p].size < cs[q].size
  \/ cs[p].bin = cs[q].bin /\ cs[p].size = cs[q].size /\ p < q

(* The order in which FindChunkPtr comes to them: by bin, then size, then  *)
(* address (Bin::ChunkComparator).                                         *)
Before(cs, p, q) ==
  \/ cs[p].bin < cs[q].bin
  \/ cs[p].bin = cs[q].bin /\ cs[p].size < cs[q].size
  \/ cs[p].bin = cs[q].bin /\ cs[p].size = cs[q].size /\ p < q

(* Mutant: only the second of the two conditions.                          *)
WorthSplittingDead(size, rounded) == size - rounded >= MaxDead

(* SplitFreeChunkFromBin keeps the rest of a chunk that would be wasted.   *)
WorthSplitting(size, rounded) ==
  size >= 2 * rounded \/ size - rounded >= MaxDead

(* FindChunkPtr and SplitFreeChunkFromBin: the first candidate leaves its  *)
(* bin, is split when the rest is worth keeping, and becomes stream s's.   *)
TakeChunk(cs, bs, p, n, s) ==
  LET rounded == Rounded(n)
      size    == cs[p].size
      split   == WorthSplitting(size, rounded)
      unbin   == RemoveFromBin(bs, p, cs[p].bin)
      cut     == IF split THEN SplitChunk(cs, p, rounded) ELSE cs
  IN  /\ p \in Candidates(cs, bs, rounded, s)
      /\ \A q \in Candidates(cs, bs, rounded, s) \ {p} : Before(cs, p, q)
      /\ chunks' = [cut EXCEPT ![p].requested = n, ![p].inUse = TRUE,
                               ![p].bin = None, ![p].stream = s]
      /\ bins' = IF split
                 THEN InsertInBin(unbin, p + rounded, BinNumForSize(size - rounded))
                 ELSE unbin
      /\ Own({p} \cup (IF split /\ cs[p].stream = s THEN {p + rounded} ELSE {}), s)
      /\ bytesInUse' = bytesInUse + cut[p].size

(* AllocOnStream with a native stream, a chunk being at hand.              *)
AllocCached(s, n) ==
  /\ impl[s] # None
  /\ \E p \in DOMAIN chunks : TakeChunk(chunks, bins, p, n, s)
  /\ UNCHANGED <<impl, regions, reserved, totalAllocated, currRegion>>

(* The device allocator can return b for n bytes.                          *)
DeviceFresh(b, n) ==
  /\ b \in Base
  /\ \A r \in DOMAIN regions : b + n <= r \/ r + regions[r] <= b
  /\ \A r \in DOMAIN reserved : b + n <= r \/ r + reserved[r] <= b

(* Mutant: the budget ignores what is already held.                        *)
AvailableOverall == (MaxMem \div Granule) * Granule

Available == ((MaxMem - totalAllocated) \div Granule) * Granule

(* Extend's first attempt for a rounded size, and the next growth step.    *)
ExtendBytes(rounded) ==
  IF NextPowerOfTwo THEN Min({GrownTo(currRegion, rounded), Available}) ELSE rounded

NextRegion(rounded) ==
  IF ~NextPowerOfTwo THEN currRegion
  ELSE IF rounded > currRegion THEN GrownTo(currRegion, rounded)
  ELSE IF currRegion < MaxExtend \div 2 THEN 2 * currRegion ELSE MaxExtend

(* The sizes Extend may end up with: the first, or after refusals a        *)
(* smaller rounded one.  Each refused size shrinks to nine tenths; the     *)
(* model lets the device settle for any rounded size on the way.           *)
ExtendSizes(rounded) ==
  {b \in rounded .. MaxMem :
     \/ b = ExtendBytes(rounded)
     \/ b < ExtendBytes(rounded) /\ b >= BackpedalMin /\ b % Granule = 0}

(* AllocateRawInternal comes to Extend, which has the budget to try.       *)
Extending(s, n) ==
  /\ impl[s] # None
  /\ Candidates(chunks, bins, Rounded(n), s) = {}
  /\ Rounded(n) <= Available
  /\ currRegion' = NextRegion(Rounded(n))
  /\ UNCHANGED <<impl, reserved>>

(* Extend obtains a region, one free chunk of no stream, and the search is *)
(* repeated.                                                               *)
AllocExtended(s, n) ==
  /\ Extending(s, n)
  /\ \E size \in ExtendSizes(Rounded(n)) : \E b \in Base :
       LET cs == [p \in DOMAIN chunks \cup {b} |->
                    IF p = b THEN FreeChunk(size) ELSE chunks[p]]
           bs == InsertInBin(bins, b, BinNumForSize(size))
       IN  /\ size % Granule = 0
           /\ DeviceFresh(b, size)
           /\ regions' = [r \in DOMAIN regions \cup {b} |->
                            IF r = b THEN size ELSE regions[r]]
           /\ totalAllocated' = totalAllocated + size
           /\ \E p \in DOMAIN cs : TakeChunk(cs, bs, p, n, s)

(* The device refuses every size that Extend tries.                        *)
AllocRefused(s, n) ==
  /\ Extending(s, n)
  /\ UNCHANGED <<regions, chunkVars, totalAllocated, bytesInUse>>

(* AllocationRegion's constructor refuses a size that is not a multiple of *)
(* kMinAllocationSize: the exception gives the memory back to the device,  *)
(* but total_allocated_bytes was already raised.                           *)
AllocThrows(s, n) ==
  /\ Extending(s, n)
  /\ ExtendBytes(Rounded(n)) % Granule # 0
  /\ \E b \in Base : DeviceFresh(b, ExtendBytes(Rounded(n)))
  /\ totalAllocated' = totalAllocated + ExtendBytes(Rounded(n))
  /\ UNCHANGED <<regions, chunkVars, bytesInUse>>

(* Alloc, and AllocOnStream for no stream or one without a native handle.  *)
Reserve(n) ==
  /\ totalAllocated <= MaxMem /\ n <= MaxMem - totalAllocated
  /\ \E b \in Base :
       /\ DeviceFresh(b, n)
       /\ reserved' = [r \in DOMAIN reserved \cup {b} |->
                         IF r = b THEN n ELSE reserved[r]]
  /\ totalAllocated' = totalAllocated + n
  /\ bytesInUse' = bytesInUse + n
  /\ UNCHANGED <<impl, regions, chunkVars, currRegion>>

-----------------------------------------------------------------------------
(* Free                                                                    *)

(* Mutants: one of the two counters is not lowered.                        *)
FreeReservedUnbudgeted(p) ==
  /\ p \in DOMAIN reserved
  /\ reserved' = Restrict(reserved, DOMAIN reserved \ {p})
  /\ bytesInUse' = bytesInUse - reserved[p]
  /\ UNCHANGED <<impl, regions, chunkVars, totalAllocated, currRegion>>

FreeReservedInUse(p) ==
  /\ p \in DOMAIN reserved
  /\ reserved' = Restrict(reserved, DOMAIN reserved \ {p})
  /\ totalAllocated' = totalAllocated - reserved[p]
  /\ UNCHANGED <<impl, regions, chunkVars, bytesInUse, currRegion>>

FreeReserved(p) ==
  /\ p \in DOMAIN reserved
  /\ reserved' = Restrict(reserved, DOMAIN reserved \ {p})
  /\ totalAllocated' = totalAllocated - reserved[p]
  /\ bytesInUse' = bytesInUse - reserved[p]
  /\ UNCHANGED <<impl, regions, chunkVars, currRegion>>

(* Coalesce: free chunk p, which is in no bin, merges with its successor,  *)
(* then with its predecessor; at is the chunk that results.                *)
Coalesce(cs, bs, p) ==
  LET next     == cs[p].next
      withNext == Mergeable(cs, p, next)
      cs1      == IF withNext THEN Merge(cs, p, next) ELSE cs
      bs1      == IF withNext THEN RemoveFromBin(bs, next, cs[next].bin) ELSE bs
      prev     == cs[p].prev
      withPrev == Mergeable(cs1, prev, p)
  IN  [chunks |-> IF withPrev THEN Merge(cs1, prev, p) ELSE cs1,
       bins   |-> IF withPrev THEN RemoveFromBin(bs1, prev, cs[prev].bin) ELSE bs1,
       at     |-> IF withPrev THEN prev ELSE p]

(* FreeAndMaybeCoalesce: what results goes into the bin of its size.       *)
FreeChunkAt(p) ==
  LET freed == [chunks EXCEPT ![p].inUse = FALSE]
      done  == Coalesce(freed, bins, p)
      bin   == BinNumForSize(done.chunks[done.at].size)
  IN  /\ p \in DOMAIN chunks /\ chunks[p].inUse
      /\ chunks' = [done.chunks EXCEPT ![done.at].bin = bin]
      /\ bins' = InsertInBin(done.bins, done.at, bin)
      /\ Disown(freed, DOMAIN chunks \ DOMAIN done.chunks)
      /\ bytesInUse' = bytesInUse - chunks[p].size
      /\ UNCHANGED <<impl, regions, reserved, totalAllocated, currRegion>>

-----------------------------------------------------------------------------
(* Shrink and stream release                                               *)

Within(p, r, rs) == r <= p /\ p < r + rs[r]

InRegion(p, r) == Within(p, r, regions)

(* Mutant: only a region's first chunk is looked at.                       *)
IdleHead(r) == ~chunks[r].inUse

Idle(r) == \A p \in DOMAIN chunks : InRegion(p, r) => ~chunks[p].inUse

(* Every region without a chunk in use goes back to the device, whoever    *)
(* owns its chunks.                                                        *)
Shrink ==
  LET gone == {r \in DOMAIN regions : Idle(r)}
      dead == {p \in DOMAIN chunks : \E r \in gone : InRegion(p, r)}
  IN  /\ regions' = Restrict(regions, DOMAIN regions \ gone)
      /\ chunks' = Restrict(chunks, DOMAIN chunks \ dead)
      /\ bins' = [b \in Bin |-> bins[b] \ dead]
      /\ Disown(chunks, dead)
      /\ totalAllocated' = totalAllocated - SumFunctionOnSet(regions, gone)
      /\ currRegion' = Rounded(InitialGrowth)
      /\ UNCHANGED <<impl, reserved, bytesInUse>>

(* Mutant: the walk merges nothing.                                        *)
IsHeadAlways(cs, p) == p \in DOMAIN cs

(* What the walk of ResetChunksUsingStream over every region leaves: each  *)
(* maximal run of mergeable neighbours becomes one chunk, its head.        *)
IsHead(cs, p) == ~Mergeable(cs, cs[p].prev, p)
Heads(cs) == {p \in DOMAIN cs : IsHead(cs, p)}
RunOf(cs, h) == {p \in DOMAIN cs : h <= p /\ \A q \in Heads(cs) : q <= h \/ p < q}
HeadOf(cs, p) == CHOOSE h \in Heads(cs) : p \in RunOf(cs, h)
RunEnd(cs, h) == Max(RunOf(cs, h))

Coalesced(cs) ==
  [h \in Heads(cs) |->
     LET last == RunEnd(cs, h)
         size == last + cs[last].size - h
         bin  == IF cs[h].inUse THEN None ELSE BinNumForSize(size)
     IN  [cs[h] EXCEPT !.size = size, !.bin = bin, !.next = cs[last].next,
                       !.prev = IF @ = None THEN None ELSE HeadOf(cs, @)]]

(* Mutant: only the free chunks are looked up.                             *)
ChunksOfFree(s) ==
  {p \in (IF s \in DOMAIN owned THEN owned[s] ELSE {}) : ~chunks[p].inUse}

(* FindChunks                                                              *)
ChunksOf(s) == IF s \in DOMAIN owned THEN owned[s] ELSE {}

Cleared(s) ==
  [p \in DOMAIN chunks |->
     IF p \in ChunksOf(s) THEN [chunks[p] EXCEPT !.stream = None] ELSE chunks[p]]

(* ResetChunksUsingStream: the chunks of the stream that implementation i  *)
(* stands for become nobody's, in use or not, and neighbours coalesce.     *)
ResetChunksUsingStream(i) ==
  LET mine    == ChunksOf(streamOf[i])
      cleared == Cleared(streamOf[i])
  IN  /\ i \in DOMAIN streamOf
      /\ chunks' = Coalesced(cleared)
      /\ bins' = [b \in Bin |->
                    {p \in Heads(cleared) : Coalesced(cleared)[p].bin = b}]
      /\ Disown(chunks, mine \cup (DOMAIN chunks \ Heads(cleared)))
      /\ UNCHANGED <<impl, regions, reserved, totalAllocated, bytesInUse, currRegion>>

-----------------------------------------------------------------------------
(* Streams come and go.  An implementation object's address can be used    *)
(* again by a later stream; a stream is destroyed after the arena was      *)
(* reset for it.                                                           *)

CreateStream(s, i) ==
  /\ impl[s] = None
  /\ \A t \in Stream : impl[t] # i
  /\ impl' = [impl EXCEPT ![s] = i]
  /\ UNCHANGED arenaVars

DestroyStream(s) ==
  /\ impl[s] # None
  /\ impl[s] \notin DOMAIN streamOf
  /\ impl' = [impl EXCEPT ![s] = None]
  /\ UNCHANGED arenaVars

Init ==
  /\ impl = [s \in Stream |-> None]
  /\ regions = [r \in {} |-> 0]
  /\ chunks = [p \in {} |-> FreeChunk(0)]
  /\ bins = [b \in Bin |-> {}]
  /\ owned = [s \in {} |-> {}]
  /\ streamOf = [i \in {} |-> None]
  /\ reserved = [p \in {} |-> 0]
  /\ totalAllocated = 0
  /\ bytesInUse = 0
  /\ currRegion = Rounded(Min({MaxMem, InitialChunk}))

AllocOnStream(s, n) ==
  \/ AllocCached(s, n)
  \/ AllocExtended(s, n)
  \/ AllocRefused(s, n)
  \/ AllocThrows(s, n)

Free(p) == FreeReserved(p) \/ FreeChunkAt(p)

Next ==
  \/ \E s \in Stream, i \in Impl : CreateStream(s, i)
  \/ \E s \in Stream : DestroyStream(s)
  \/ \E s \in Stream, n \in Request : AllocOnStream(s, n)
  \/ \E n \in Request : Reserve(n)
  \/ \E p \in DOMAIN reserved \cup DOMAIN chunks : Free(p)
  \/ Shrink
  \/ \E i \in Impl : ResetChunksUsingStream(i)

Spec == Init /\ [][Next]_vars

-----------------------------------------------------------------------------
(* Properties                                                              *)

PartialFunction(f, S, T) == DOMAIN f \subseteq S /\ \A x \in DOMAIN f : f[x] \in T

(* The two counters are not typed here: BudgetExact and InUseExact say     *)
(* what they are equal to.                                                 *)
TypeOK ==
  /\ impl \in [Stream -> Impl \cup {None}]
  /\ PartialFunction(regions, Nat, Nat \ {0})
  /\ PartialFunction(chunks, Nat, Chunk)
  /\ bins \in [Bin -> SUBSET Nat]
  /\ PartialFunction(owned, Stream, SUBSET Nat)
  /\ PartialFunction(streamOf, Impl, Stream)
  /\ PartialFunction(reserved, Nat, Nat \ {0})
  /\ currRegion \in Nat

Tiled(cs, rs) ==
  /\ \A r \in DOMAIN rs : r \in DOMAIN cs
  /\ \A p \in DOMAIN cs : \E r \in DOMAIN rs : Within(p, r, rs)
  /\ \A p \in DOMAIN cs, r \in DOMAIN rs : Within(p, r, rs) =>
       /\ p + cs[p].size <= r + rs[r]
       /\ cs[p].next = IF p + cs[p].size = r + rs[r] THEN None ELSE p + cs[p].size
       /\ cs[p].prev = None <=> p = r
  /\ \A p \in DOMAIN cs :
       /\ cs[p].next # None => cs[p].next \in DOMAIN cs /\ cs[cs[p].next].prev = p
       /\ cs[p].prev # None => cs[p].prev \in DOMAIN cs /\ cs[cs[p].prev].next = p
  /\ \A p, q \in DOMAIN cs : p < q => p + cs[p].size <= q

(* Splitting, merging and the coalescing walk keep every region cut into   *)
(* chunks without gap or overlap, linked in both directions.               *)
RegionsTiled == Tiled(chunks, regions)

(* The regions are disjoint, which Tiled takes for granted.                *)
Apart(rs) == \A r, t \in DOMAIN rs : r < t => r + rs[r] <= t

Binned(cs, bs) ==
  /\ \A p \in DOMAIN cs :
       cs[p].bin = IF cs[p].inUse THEN None ELSE BinNumForSize(cs[p].size)
  /\ \A b \in Bin : bs[b] = {p \in DOMAIN cs : cs[p].bin = b}

(* A chunk is in the bin of its size when it is free, and in no bin when   *)
(* it is in use: what GetBinDebugInfo enforces.                            *)
BinsExact == Binned(chunks, bins)

(* No two neighbours stay apart that could be one larger free chunk.       *)
FullyCoalesced ==
  \A p \in DOMAIN chunks : ~Mergeable(chunks, p, chunks[p].next)

Indexed(cs, ow, so, im) ==
  /\ \A s \in DOMAIN ow : ow[s] # {} /\ ow[s] = {p \in DOMAIN cs : cs[p].stream = s}
  /\ \A p \in DOMAIN cs : cs[p].stream # None => cs[p].stream \in DOMAIN ow
  /\ \A s \in DOMAIN ow : im[s] \in DOMAIN so /\ so[im[s]] = s
  /\ \A i \in DOMAIN so : so[i] \in DOMAIN ow /\ im[so[i]] = i

(* The two maps of the ownership index say of every chunk what its stream  *)
(* field says (ValidateChunkStreamIndex), hold no stream without chunks,   *)
(* and name only streams that exist, each by its own implementation.       *)
IndexAgrees == Indexed(chunks, owned, streamOf, impl)

(* No two streams that exist have one implementation object.               *)
ImplsDistinct == \A s, t \in Stream : impl[s] = impl[t] => s = t \/ impl[s] = None

(* No chunk that FindChunkPtr may give to a stream makes Assign throw: the *)
(* chunk would stay in use without a pointer to free it by.                *)
AssignNeverThrows ==
  \A s \in Stream : \A p \in DOMAIN chunks :
    (impl[s] # None /\ chunks[p].stream \in {s, None}) => ~AssignThrows(p, s)

(* What every operation preserves: the parts need each other.  A chunk     *)
(* that is found through the bins or the index must be one of the tiling,  *)
(* and what the index says decides whose a chunk becomes.                  *)
ArenaInv ==
  /\ TypeOK
  /\ Apart(regions)
  /\ RegionsTiled
  /\ BinsExact
  /\ ImplsDistinct
  /\ IndexAgrees

(* The budget covers exactly what is held from the device: the regions and *)
(* the direct allocations.                                                 *)
BudgetExact == totalAllocated = SumFunction(regions) + SumFunction(reserved)

(* What the arena holds, and what it wrongly believes to hold after an     *)
(* Extend that threw, never exceeds the configured limit.                  *)
WithinBudget == totalAllocated <= MaxMem

(* bytes_in_use is the size of the chunks in use and direct allocations.   *)
InUseExact ==
  bytesInUse = MapThenSumSet(LAMBDA p : IF chunks[p].inUse THEN chunks[p].size ELSE 0,
                             DOMAIN chunks)
               + SumFunction(reserved)

(* A caller never holds a chunk that could have been split for it: it gets *)
(* its size, and less than twice as much and less than MaxDead in excess.  *)
WasteBounded ==
  \A p \in DOMAIN chunks : chunks[p].inUse =>
    LET rounded == Rounded(chunks[p].requested)
    IN  /\ chunks[p].requested <= chunks[p].size
        /\ chunks[p].size < 2 * rounded /\ chunks[p].size - rounded < MaxDead

NewlyInUse(p) ==
  p \in DOMAIN chunks' /\ chunks'[p].inUse /\ ~(p \in DOMAIN chunks /\ chunks[p].inUse)

(* Going through the bins in order is best fit: a chunk is taken only from *)
(* the smallest free chunk that is large enough and the stream's or        *)
(* nobody's, and the arena grows only when there is none.                  *)
BestFit ==
  [][\A p \in Nat \cap DOMAIN chunks' : NewlyInUse(p) =>
       LET n   == Rounded(chunks'[p].requested)
           s   == chunks'[p].stream
           fit == {q \in DOMAIN chunks :
                     /\ ~chunks[q].inUse /\ chunks[q].size >= n
                     /\ chunks[q].stream \in {s, None}}
       IN  IF fit = {} THEN p \in DOMAIN regions' \ DOMAIN regions
           ELSE p \in fit /\ \A q \in fit : chunks[p].size <= chunks[q].size]_vars

(* Nothing but Free of its own address ends or changes an allocation: the  *)
(* next chunk operation leaves every other chunk in use where it is, with  *)
(* its size.                                                               *)
InUseUntouched ==
  [][\A p \in DOMAIN chunks : chunks[p].inUse =>
       \/ FreeChunkAt(p)
       \/ /\ p \in DOMAIN chunks' /\ chunks'[p].inUse
          /\ chunks'[p].size = chunks[p].size]_vars

=============================================================================
