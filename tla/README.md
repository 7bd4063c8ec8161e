# onnxruntime-musa in TLA+

onnxruntime-musa is a plugin execution provider: a shared library that lets
ONNX Runtime execute graphs on MUSA GPUs. This directory holds TLA+ models of
the two parts of it in which mistakes are hardest to see: the memory that host
threads, polling threads and asynchronous device streams share, and the graph
fusions, each of which is a matcher, a factory and a kernel written apart that
have to mean the same. Paths below are relative to the repository; `src/` there
is `src/musa/ep/src/`.

    tlc -workers 2 -config MusaArena.cfg MCMusaArena      model-check one run
    tlapm MusaArena_proofs.tla                            check one module's proofs

`PROJECT.json` lists the components, the runs with their properties, one mutant
of the code for each property, the source lines every definition translates,
the findings, the hazards and the theorems.

## 1. Inventory

| Component (files) | State it keeps | Operations | Interacts with | What makes it correct |
|---|---|---|---|---|
| **Device arena** `ArenaImpl` (`musa_arena.{h,cc}`) | regions and their handle maps, chunks (doubly linked), bins, directly reserved blocks, `total_allocated_bytes`, `bytes_in_use`, growth step; one mutex | `Alloc`/`Reserve`, `AllocOnStream`, `Free`, `Shrink`, `ResetChunksUsingStream`, `Extend` inside an allocation | the device allocator below, ONNX Runtime's allocator calls above, streams being released | regions tiled by chunks; free chunks, and only they, in the bin of their size; best fit; waste bounded; nothing but `Free` ends an allocation; the budget is respected and exact |
| **Ownership index** (`arena_ownership_index.h`) | stream to chunks, implementation object to stream | `Assign` (throws on inconsistency), `FindStream`, `FindChunks` | only the arena, under its mutex | agrees with the chunks' own stream fields; never throws for a chunk the search may hand out; nothing of a released stream is left, since its address is used again |
| **Sync streams** (`ep_stream.{h,cc}`) | native stream, whether it is owned | construction, destructor (synchronize, clear the arena's ownership, destroy), notifications, flush | arena, device | release never exposes unfinished work; nothing of a released stream is left |
| **Pinned host pool** (`pinned_host_pool.h`) | live, free and pending blocks, `cached_bytes_`, reusable events, the polling thread; one mutex that `Allocate` and `FreeAsync` leave half-way | `Allocate`, `FreeCompleted`, `FreeAsync`, polling, destructor | data transfer, kernels, pinned allocator, device events | a block is reused or released only behind the device's work; no block or event lost or shared; the poller recycles; the destructor ends |
| **Data transfer** (`ep_data_transfer.{h,cc}`) | none of its own | tensor copies; staging of pageable copies in the pinned pool | pool, streams | each copy moves its own bytes, also when another thread reuses staging memory, and on failing paths |
| **Kernel memory helpers** (`kernels/shared_inc/kernel_memory.h`) | `DeferredDeviceFreeQueue`: pending frees, cached blocks, worker thread | `Allocate`, `Free` behind an event, staged copies of kernels | pool, streams | as the pool; teardown of a static object |
| **Allocators** (`ep_allocator.h`) | none | adapters to the pool and to `musaMalloc` | ONNX Runtime | sizes do not overflow; tensors are freed behind the work on them |
| **Fusion selection** (`ep.cc`, `fusion/fusion_matcher.*`) | accepted matches, consumed nodes, placement hints | finders in priority order, overlap test, dtype contract, removal of disabled fusions | graph, placement | accepted fusions are disjoint and convex; no node is lost to a fusion that is then disabled |
| **CPU-preferred placement** (`graph/cpu_preferred_nodes.cc`) | a priority worklist, visited nodes, host values | one forward pass over candidates | fusion selection | the result is the fixpoint of the placement rule |
| **Fusion compilation** (`fusion/fusion_node_compute.*`) | compute objects by fused node name | classify, compile, create and release state | ONNX Runtime callbacks | the computation compiled is the one that was matched; a failing node leaves nothing behind |
| **Fusion matchers** (`fusion/*_matcher.cc`) | none | 36 finders, each a pattern over operators, attributes, constants, shapes and consumers | fusion selection | only what the fused kernel can compute is proposed |
| **Fusion computes** (`fusion/*_fusion.cc`) | constants put on the device at the first call, under a mutex of the compute object; caches of masks | factory from the fused graph, `Compute` | ONNX Runtime threads, streams, device | equality with the nodes fused; no run reads constants that are not there yet |
| **Kernels** (`kernels/*`) | none | one operator each | device | the operator's definition |
| **Profiling** (`ep_profiling.*`) | event manager shared by sessions, per-thread stack of open events | register, push, pop, consume | ONNX Runtime threads | every event gets the annotations of its own interval |
| **Factory** (`ep_factory.*`, `ep_lib_entry.cc`, options) | kernel registry, shared allocators, default stream | creation and release of the objects above | ONNX Runtime, several sessions | created once, released once |
| **Graph dumps, build, scripts, tests** | — | diagnostics, packaging | — | — |

How the parts meet. ONNX Runtime allocates tensors from the arena for a stream
and frees them as soon as the *host* has no more use for them: device work that
reads them may still be queued. The arena makes that safe with ownership: a
freed chunk stays its stream's, and the stream's own order puts the next use
behind the last. Only `~MusaSyncStream`, which waits for the stream, breaks the
tie. Copies between pageable memory and the device go through pinned blocks;
there the guard is an event recorded on the copy's stream when the block is
given back, polled by a thread of the pool and by every `Allocate`.

A graph goes through `GetCapability` once: the finders propose node sets, the
first to claim a node has it, what is left and has a kernel is claimed node by
node except for shape arithmetic that is cheaper on the CPU. ONNX Runtime hands
each accepted set back as a graph of its own and `Compile` has to recognize it
again, by detectors that mostly count operators. At run time the fused node is
called by any thread on any stream.

What is hard here: reuse of memory with unfinished work on it (no test sees it
unless the device is slow); calls that leave a mutex half-way; implementation
objects whose addresses are used again by later streams; a linked list that is
merged while it is walked; budgets charged before the step that may throw;
decisions taken when a block is given back and executed when its event is done;
error paths of the device API, which tests do not reach; notifications and a
join at shutdown; a matcher that accepts more than its factory or kernel can do,
which shows as an error in one graph of many or as silently wrong numbers; a
fusion that makes the graph cyclic; constants published before they are
written. Each is a hazard in `PROJECT.json`, at the line where it
bites, with the properties that watch it or the reason why none does yet.

## 2. The modules and the code

    GuardedReuse               StreamOrderedMemory         what a pool / the arena promises
        ^ implement                ^ implements
    PinnedHostPool             ArenaStreams                threads, events   / stream lives, device work
    DeferredFree                   ^ extends
        ^ extends (the pool)   MusaArena  <- ResetWalk     the allocator itself
    StagedCopies                                           copies through the pool

    FusionGraph <- Fusions{Layout,Linear,Norm,Id,Attention} <- FusionMatchers <- Capability, Execution
                   FusionCompile (a fused graph recognized)   CpuPreferred  <- Capability
    Tensor <- KernelsTensor <- KernelsMath                    what the nodes compute
    ShapeExpr, FusedParts <- Fused{Layout,Linear,Norm,Id,Attention} <- FusedNode
                                                              what the fused node computes
    FusedConstants                                            constants of a fused node across threads and streams

| Module | Models | Notes |
|---|---|---|
| `MusaArena` | `musa_arena.{h,cc}`, `arena_ownership_index.h` | one action per public method: each holds `lock_` from its first read to its last write |
| `ResetWalk` | the loops of `ResetChunksUsingStream` (`musa_arena.cc:884-896`), turn by turn | `MusaArena` states what the loops compute (`Coalesced`); this module executes them, and `WalkAlwaysCoalesced` proves that they agree |
| `StreamOrderedMemory` | the promise of `docs/architecture.md`, section "Stream-ordered device arena": cells of memory, their owners, unfinished work | abstract specification |
| `ArenaStreams` | `MusaArena` with `MusaSyncStream`'s life (`ep_stream.cc:103-150`) and device work | refines `StreamOrderedMemory` |
| `GuardedReuse` | what `pinned_host_pool.h` and `DeferredDeviceFreeQueue` promise | abstract specification |
| `PinnedHostPool` | `pinned_host_pool.h`, every locked part one step | refines `GuardedReuse` |
| `DeferredFree` | `DeferredDeviceFreeQueue` (`kernel_memory.h:48-276`) | refines `GuardedReuse` |
| `StagedCopies` | `CopyStagedPageableHostToDevice` and `CopyDeviceToHostBatch` (`ep_data_transfer.cc:122-147, 262-330`) over the pool; their twins in `kernel_memory.h:278-325, 384-445` take the same steps | carries the bytes that are copied |
| `FusionGraph` | the graph and the helpers of the matchers (`fusion_matcher_utils.cc`, `graph_utils.cc`, `fusion_dtype.cc`) | nodes in ONNX Runtime's topological order |
| `FusionsLayout`, `FusionsLinear`, `FusionsNorm`, `FusionsId`, `FusionsAttention` | the 36 matchers, by what they are about | each an operator from a node to the candidate it leads to |
| `FusionMatchers` | the finders in the order of `FindFusionMatches`, candidates and dtype contracts | |
| `FusionCompile` | the chain of `Is...FusionGraph` detectors of `CompileImpl` | over the fused graph alone |
| `CpuPreferred` | `graph/cpu_preferred_nodes.cc` | the worklist is two actions |
| `Capability` | `GetCapabilityImpl`, `FindFusionMatches`, `CompileImpl` | composes the four above |
| `Tensor`, `KernelsTensor`, `KernelsMath` | the provider's kernels for the operators that fusions replace | finite arithmetic, see below |
| `ShapeExpr`, `FusedParts`, `FusedLayout`, `FusedLinear`, `FusedNorm`, `FusedId`, `FusedAttention`, `FusedNode` | factory and `Compute` of every fusion; `FusedNode` picks one, and names the premises | |
| `Execution` | a graph run node by node, matched, and computed fused | compares the two |
| `FusedConstants` | `EnsureConstants` and its kin (`parallel_linear_fusion.cc`, `moe_fusion.cc`, `parallel_einsum_activation_fusion.cc`, ...) | three protocols |
| `FusionExamples` | one graph for each pattern, and graphs of shape arithmetic | inputs of the runs, no code |
| `StreamOrderedMemory_proofs`, `MusaArena_proofs`, `ArenaStreams_proofs`, `PinnedHostPool_proofs` (with `StagedCopies`), `DeferredFree_proofs`, `Capability_proofs`, `FusedConstants_proofs` | theorems, each about the modules it extends | section 5 |
| `SumLemmas` | what the sums of the community modules promise | used wherever a counter is proved to be a sum |
| `MC*` | constants and inputs for TLC | |

### MusaArena

State: `regions`, `chunks`, `bins`, `owned` and `streamOf` (the two maps of the
index), `reserved`, `totalAllocated`, `bytesInUse`, `currRegion`; and `impl`,
what `SyncStream_GetImpl` would return for each stream that exists. A chunk is
named by its address instead of its handle: `AllocationRegion::handles_` maps
one to the other and a handle keeps its address while the chunk exists, so
recycled handles need no state. Addresses and sizes are bytes.

`AllocOnStream` is four actions, one for each way it can end: a free chunk is
found (`AllocCached`), a region is obtained and searched (`AllocExtended`), the
device refuses every size (`AllocRefused`: the growth step has been raised all
the same), or `AllocationRegion`'s constructor throws (`AllocThrows`). They are
complete calls: `TakeChunk` searches, removes from the bin, splits, inserts the
rest, assigns the owner and counts. When the budget does not allow the smallest
region the call changes nothing, and is not an action. `Free` merges with the
next, then with the previous neighbour, then inserts into a bin, in the code's
order. `Shrink` includes the reset of the growth step.

Abstractions: the byte-wise back-off of `Extend` (nine tenths of the last size,
rounded) is any rounded size between the request and the first attempt;
whatever the device does, one of them is taken. `GrownTo` is the doubling loop
as the first element of a set. Statistics nobody reads back, logging and
configuration parsing are left out. Sizes near `SIZE_MAX`, where `RoundedBytes`
wraps, are not among the requests.

### ArenaStreams

`phase` is where a stream's destructor stands, `work` the blocks its unfinished
device work accesses. Other threads' calls come between the destructor's three
steps. Two facts from outside `src/` are guards, because the arena relies on
them: ONNX Runtime frees a tensor only when work on it given to *other* streams
than its owner is over (the owner's may go on), and `musaFree` returns behind
the work on the memory it frees. `SyncMayFail` decides whether
`musaStreamSynchronize` may return early with an error, which the destructor
discards.

### PinnedHostPool

`host` is what `musaHostAlloc` gave and was not returned; `call[t]` the locals
of the thread's call: holding a block, leaving with it (`FreeAsync` after its
first locked part), with a recorded event, or left without one. An event is
abstracted to the work it waits for (`before`). `Fail` puts the device into an
error state: it executes nothing more, queries, waits and records report the error and
pending blocks are recycled with their events destroyed. The polling thread may
wake up for no reason (the condition variable's waits are loops). `Limit` is
`CacheLimitBytes()`.

That a device error is sticky and ends all work is an assumption, here and in
the queue: `PollPendingFreesLocked` gives a block back after *any* error of a
query (`pinned_host_pool.h:231`), which would be too early if work went on
after it.

Contract of the callers, taken as guards: a block is given back once, by its
holder, `FreeCompleted` only without unfinished work, `FreeAsync` only with work
on its stream; nobody is inside the pool while it is destroyed. `StagedCopies`
checks that the copies keep that contract (`CallersKeepTheContract`).

### StagedCopies

A copy to the device fills its block, queues the copy and gives the block back
at once, behind an event. A batch to the host queues one or more copies,
synchronizes, takes the bytes out, and gives the block back as completed. A
value stands for the bytes. Both have their failing paths: no staging block, a
copy that cannot be queued (after others were), a failing synchronization; it
fails as the device does, for good, and not for once (`ep_data_transfer.cc:300`
discards such an error too).

### DeferredFree

The queue that frees device memory of kernels behind an event: an entry is
recorded on the stream, a worker thread polls, a completed block is cached for
the next request of its size or given to `musaFree`, and the process's exit
destroys the queue with a worker in it. As in the pool, an event is the work it
waits for, and `Fail` puts the device into an error state. Differences from the
pool are the point of the module: the limit is tested when an entry completes,
a cached block is recorded under the size of the request it last served, the
worker drops the lock between polls, and the object is static.

The destructor holds the mutex while it drains and gives it up when it returns
(`kernel_memory.h:83-97`); other threads may be in the middle of `Free` or
`Allocate` then, and go on. In the model they do, after `worker = "destroyed"`:
`Allocate` finds no cached block and asks the device, and what `Free` pushes
stays in `pending` for ever, with its event. (The members are destroyed right
behind the destructor's body, so the push is undefined behaviour; the model
takes the case where the list's memory is still there. Where the process dies
instead, nothing follows.) `DeferredIsFreed` is therefore about what was pushed
before the destructor returned. `Free` without a number of bytes, for which no
kernel and no fused node has a call, is left out.

### The capability pass

`Capability` runs `GetCapability` and `Compile` on one graph: `CallFinder` and
one action per verdict on a candidate, the erasing of disabled fusions, the
collection of single nodes, the walk of `CpuPreferred`, registration, and one
`CompileImpl` per match on the graph ONNX Runtime would hand over
(`SubgraphOf`: inputs, outputs and initializers follow from the nodes). What a
matcher requires is kept condition by condition; its local variables are not.
A value's constant data is there only where a matcher reads it.

### Executing both sides

`Execution` runs a graph on the kernels, tells the matcher types and shapes as
shape inference may give them (all, all but the leading dimension, ranks only,
nothing), asks for the first candidate of one fusion, and computes the fused
node from the same tensors. A floating-point number is an element of the field
with 101 elements: sums, products and quotients are exact, so two computations
agree when they are the same up to the laws of real arithmetic, and otherwise
by coincidence only; transcendental functions are fixed functions without
structure. Rounding is not modelled. Integers, booleans, shapes, broadcasting,
clamping and error returns are as in the code.

`FusedNode!Premise` is the boundary that was found: for every fusion what must
be true of the inputs, beyond what the matcher asks, for the fused node to
compute the same (`FusedAgrees`) and to compute at all (`FusedComputes`). Each
premise has a comment with its reason and is discussed in section 4. Each was
added for a state in which TLC found the two sides to differ, and one that is
too weak makes the run fail.

### FusedConstants

A compute object's constants are written by the first call, under a mutex, and
read by work that later calls put on their own streams. `kind` is the protocol:
`upload` waits on the host before publishing, `event` publishes an event that
later streams wait for, `pack` launches a kernel and publishes at once. The
streams' work is a sequence of writes, products and waits that the device
executes in order, per stream. The test of the flag under the mutex
(`FindUnready`) and the copies behind it (`Write`) are steps of their own, and
`Write` does not look at the flag again: that nothing published is written or
recorded a second time (`PublishedIsFinal`) rests on the scope of the
`lock_guard` and on the second test, not on the copy itself.

## 3. What the runs show

| Run | Question | Instance | States |
|---|---|---|---|
| `arena` | Do chunks, bins, index and counters stay consistent through every sequence of calls, are allocations best fit, bounded in waste and untouched by others, and does the loop of `ResetChunksUsingStream` compute what `MusaArena` says, in every state? | budget of 4 granules, 2 base addresses, requests below one granule and of two, 2 streams, 2 implementation objects, a growth cap that is no multiple of the granule | 23,891 |
| `arena_streams` | Does the arena implement stream-ordered memory, is nothing of a released stream left, and is the budget exact? | budget of 3 granules, 2 streams, 2 objects, early splits | 87,044 |
| `stream_sync_error` | *violation:* does release never expose unfinished work, as the architecture document says? | `SyncMayFail` | |
| `pinned_pool` | Is every block and event in one place, reused and released only behind the device, through failures and the destructor; does the poller recycle what is pending, and does the destructor end? | 2 threads, 2 streams, 2 blocks, 2 events, a limit of two granules | 265,573 |
| `staged_copies` | Do two threads' copies move their own bytes? | 2 threads, 2 streams, 2 blocks, 2 values | 81,557 |
| `deferred_free` | The same as `pinned_pool` of the device's queue, with its worker, its exit, and the calls that go on after it | 2 threads, 2 streams, 2 blocks, 2 events, requests of one and two granules | 479,232 |
| `capability` | Is every node claimed once, is the fused graph acyclic where matchers look for paths, is every fused node recognized as what it is, is the placement closed? | 6,295 graphs | 248,777 |
| `capability_cycle` | *violation:* is the graph acyclic for every matcher? | the layout patterns | |
| `execution` | Does every fused node compute what its nodes compute, and does it compute at all? | 11,765 graphs | 241,934 |
| `execution_wrong` | *violation:* is what a matcher accepts safe, as the fusion guide says? | the identifier patterns | |
| `fused_constants` | Does no product run before its constants are there, and does what is published stay, through errors at every step? | 3 threads, 3 streams, 4 calls, 2 errors | 323,646 |
| `fused_constants_pack` | *violation:* the same of packed weights | 2 threads, 2 streams | |

Deadlock is checked in every run but the two of `FusedConstants`, where the
session has no more calls to make; in the arena something can always be
requested or created, and the ends of the pool, the queue, the capability pass
and the execution are explicit stuttering steps.

Why the bounds are enough. The arena's cases depend on the state of two
neighbours of a chunk and on whether a bin, an owner or a region is the same or
another: four granules in one region give runs of up to four chunks, so both
neighbours can merge, and a merged chunk can have a neighbour of another owner
on either side; two regions make `Shrink` and `Extend` meet idle and busy
regions; two implementation objects for two streams are used again in every
order. Two bins make the clamp to the last bin and a search across bins
happen. `MaxDead` and `MaxExtend` have two values over the two runs so
that each condition of the split and both branches of the growth policy decide.
In the pool and the queue, races are between two callers, or a caller and the
poller; two events suffice for one pending and one being recorded. Values that
could tell further cases apart, such as the exact back-off, are
nondeterministic. Streams, objects, threads, blocks, events and values are
symmetric in the arena and the copies: no action and no safety property tells
them apart; addresses are not. Runs with liveness use no symmetry.

The graphs of `capability` are one example for each pattern and its variants,
whole, with every value read by another node (`Tap`), every value exported,
every element type changed, and every pair of values joined by a detour that
leaves the fused set and comes back. Those of `execution` are the examples at
four sizes with every single edit of an attribute, a constant, a dimension, a
rank, an element type, the order of two operands, and the graph's outputs; each
is matched under the four degrees of shape knowledge. Two edits at once were
run too, over twice as many graphs, and showed nothing more.

Every property of a passing run has a mutant, an operator next to the code's
definition that changes it as a plausible bug would; TLC finds the property
violated with it.

### Fairness

`PendingIsRecycled` and `DestructorEnds` (pool), `DeferredIsFreed` and
`QueueIsDestroyed` (queue) assume that the device finishes work it was given
(per work item: streams are first-in-first-out, so each is the first in the
end), that calls that were begun run on (they wait for nothing but the mutex,
which every holder gives up after one step), that the polling thread runs when
it is runnable or its sleep is over, and the destructor. The polling thread's
*spurious* wake-ups are not fair: a missed notification would be found. Nobody
is obliged to give blocks back or to destroy the pool. `EveryCallReturns`
assumes the steps of each thread inside a call and of each stream; a session
need not make a call.

## 4. What was found

With a run that shows it:

* `stream_sync_error` (`ep_stream.cc:139`). The document promises that release
  "never exposes unfinished device work to another stream"; the destructor
  discards the result of the synchronization this rests on.
* `capability_cycle` (`shape_reshape_fusion_matcher.cc:36`). Two matchers,
  ShapeReshape and TargetIdCountEmbedding, never look for a path that leaves
  their nodes and comes back; the fused graph can be cyclic.
* `execution_wrong` (`masked_embedding_lookup_fusion_matcher.cc:239`). The
  matcher takes the operands of `GreaterOrEqual` in either order; the kernel
  knows one.
* `fused_constants_pack` (`parallel_einsum_activation_fusion.cc:496`). Packed
  weights are published when their kernel is launched, so a run on another
  stream may multiply by them before they are written.

Other matchers accept graphs whose fused node computes something else without
an error; the premises of `FusedNode` name the cases. StridedView never reads
the bounds of its Slices; SplitUnsqueezeConcat and SplitConcat take the packed
dimensions for the input's; SegmentMaxBroadcast, LogBucketizeGather and
TargetIdCountEmbedding assume fill values, ranks and upper bounds;
SparseIdToMask and TargetIdCountEmbedding do not broadcast as the nodes do;
RecRankCalibration never reads the positions it compares with, and divides the
probability by its complement in whichever order the graph has them; the
attention of `mhta_scaled_dot_product_attention_fusion.cc` ignores an upper
bound of the sequence length, assumes one row of padding, and repairs fully
masked rows in one of its two layouts only; MultiKqvMhaOutputProjection always
masks with -10000. Where a value inside the pattern is also an output of the
graph, eight fusions accept it (`HasOnlyConsumer` does not look at the graph's
outputs) and never write it (`LastResultsLeave`).

Others accept graphs that the factory or `Compute` then refuses, so that a
model that ran before fails: a Gather index outside the shape (ShapeReshape), a
negative axis (ConcatSplit, ParallelMatMulConcat, and the Squeeze of
BucketizeGather), a Reshape that changes the multiplied dimension
(GemmActivation), a gate that is broadcast (ParallelEinsum), groups that do not
tile the rows (SplitSequenceMoE), a length that does not leave
(GenerateMTGRCustomMask). SliceConcat, SegmentMaxBroadcast and
TargetIdCountEmbedding are accepted where no detector compiles them; that is
why `NeverMistaken` excepts the three.

Seen while modelling, without a run of its own:

* `musa_arena.cc:217`. `Extend` charges the budget before
  `AddAllocationRegion`, which throws when the region's size is no multiple of
  256; `arena.max_power_of_two_extend_bytes` may be any positive number. The
  memory is given back, the charge stays. `BudgetExact` is therefore a property
  of `arena_streams`, whose cap is a multiple; `arena`, whose cap is not, has
  `WithinBudget`.
* `pinned_host_pool.h:138`. Whether a block is cached is decided when it is
  given back, and counted when its event is complete: several blocks pass the
  test together and the cache exceeds its limit. `kernel_memory.h:175-188`
  tests at completion.
* `kernel_memory.h`. A cached block is recorded under the size of the latest,
  possibly smaller request, so the cache can hold more than it counts.
* `fusion_matcher_utils.cc:147`. `FusionHasNoExternalPathBetweenSelectedNodes`
  looks at one candidate, and `AcceptFusionCandidates` at overlaps only. Two
  accepted sets, neither with a path back to itself, can still wait for each
  other: in `FusionExamples!CrossedMoEExample` two mixtures of experts have two
  routers each, and what the first router of either makes weighs the experts of
  the other one a second time; both are accepted, and no order of the two fused
  nodes exists. `Tangled` names the case, and
  `GuardedPartitionIsAcyclic` excepts it.
* `kernel_memory.h:145`. A `Free` that waits for the mutex while the static
  destructor drains pushes into a list nobody looks at any more: block and event
  are never given back (and the list's destructor races with the push). The
  comment at :92-93 keeps cached blocks until the process ends because freeing
  device memory in static teardown "can race MUSA runtime destruction"; the loop
  above it frees the pending ones there.
* ParallelLinear and SwiGlu leak an event when recording or synchronizing
  fails; SliceConcat keeps the pointer to freed descriptors when `musaFreeHost`
  fails (`slice_concat_fusion.cc:455-462`) and writes the descriptors of a call
  into a pinned buffer the previous call's copy may still read (line 544).

## 5. What is proved

For every value of the constants that satisfies the modules' assumptions:

| Module | Theorem | Says |
|---|---|---|
| `MusaArena_proofs` | `ArenaInvAlways` | the inductive invariant `ArenaInv` |
| | `TypeAlwaysOK`, `RegionsAlwaysTiled`, `BinsAlwaysExact`, `IndexAlwaysAgrees` | its parts |
| | `AssignIsSafe` | `AssignNeverThrows` |
| | `InUseIsUntouched` | the action property `InUseUntouched` |
| | `InUseAlwaysExact`, `WasteAlwaysBounded`, `AlwaysFullyCoalesced` | `InUseExact`, `WasteBounded`, `FullyCoalesced` |
| | `AlwaysWithinBudget` | `WithinBudget` |
| | `BudgetAlwaysExact` | `BudgetExact`, where every growth step is a multiple of the granule (`AlignedGrowth`) |
| | `AlwaysBestFit` | the action property `BestFit` |
| | `WalkAlwaysCoalesced` | `WalkIsCoalesced`: the loops of `ResetChunksUsingStream` end with the coalesced arena |
| `ArenaStreams_proofs` | `StreamsUseTheArena` | the composition is an arena: `StreamSpec => Spec` |
| | `StreamsKeepArenaInv`, `StreamsKeepBudget` | what follows for run `arena_streams` |
| | `NothingIsLeftBehind` | `NothingLeftBehind`, also where synchronization fails |
| | `ArenaImplementsMemory` | the arena implements `StreamOrderedMemory`, where synchronization does not fail |
| | `ArenaReuseIsOrdered` | `ReuseIsOrdered` under the same condition |
| `StreamOrderedMemory_proofs` | `BlocksNeverOverlap`, `WorkStaysOwned`, `ReuseAlwaysOrdered` | the promise itself keeps every reuse behind unfinished work |
| `PinnedHostPool_proofs` | `PoolInvAlways` | the inductive invariant `PoolInv` |
| | `OnePlaceAlways`, `EventsAlwaysExclusive`, `NoUseAfterFreeAlways` | two parts of `PoolInv`, `NoUseAfterFree` |
| | `PoolImplementsReuse` | the pool implements `GuardedReuse` (`ImplementsReuse`) |
| | `CachedAlwaysExact` | `CachedExact` |
| | `DestroyedAlwaysEmpty` | `DestroyedIsEmpty` |
| | `CopiesUseThePool` | staged copies are callers of the pool: `CopySpec => Spec` |
| | `CopyTypeAlwaysOK`, `ToDeviceAlwaysFaithful`, `ToHostAlwaysFaithful`, `CallersAlwaysKeepTheContract` | the properties of run `staged_copies` |
| `DeferredFree_proofs` | `QueueInvAlways` | the inductive invariant `QueueInv` |
| | `QueueImplementsReuse` | the queue implements `GuardedReuse` |
| | `NoUseAfterFreeEver`, `QueueNeverFreesInUse` | the promise keeps memory that is held or worked on; so does the queue |
| | `RecordedAlwaysWithinLimit` | `RecordedWithinLimit` |
| `Capability_proofs` | `PlacementIsAlwaysClosed` | `PlacementIsClosed`, on every graph in topological order |
| | `ClaimedOnceAlways` | `ClaimedOnce`, on every graph, whatever the finders propose |
| | `GuardedPartitionIsAlwaysAcyclic` | `GuardedPartitionIsAcyclic`, on every graph that ONNX Runtime has checked (`WellFormed`): apart from what two matchers accept, and from tangles, the fused graph has an order to run in |
| `FusedConstants_proofs` | `ConstantsInvEver`, `ConstantsTypeOKEver` | the inductive invariant of the protocols `upload` and `event` |
| | `UseFindsConstantsEver`, `PublishedIsFinalEver` | properties of run `fused_constants` |

`ArenaInv` is the conjunction of the type invariant, disjoint regions, tiling,
exact bins, distinct implementation objects and the agreement of the index. None
of the last four is inductive alone: a chunk taken from a bin is a chunk of the
tiling only because the bins are exact; a split or merge keeps bins exact only
if links lead to chunks, which the tiling says; the stream found for an
implementation object is the right one only if live objects are distinct and
the index names no stream without chunks; and tiling survives a new region
because regions, and what the device returns, are disjoint. The proof follows
the code: lemmas about the operators (`SplitTiled`, `MergeTiled`,
`CoalescedTiled` for the whole walk, `RegionAdded`, `RegionsDropped`,
`MergeBinned`, `InsertBinned`, `DisownIndexed`, `OwnIndexed`), stated for
arbitrary chunk maps, then one lemma per action
(`AllocCachedSound`, `AllocExtendedSound`, `FreeChunkSound`, `ShrinkSound`,
`ResetSound`), then one step per disjunct of `Next` (`ArenaInvStep`). The action
lemmas also say that chunks in use stay where they are, of which
`InUseIsUntouched` is made. TLC checks `ArenaInv` itself in both runs of the arena.

`MemInv`, the invariant behind `StreamOrderedMemory_proofs`, is the type
invariant with `LiveDisjoint` and `WorkIsOwned`; `ReuseIsOrdered` follows from
it and is not inductive alone: it says nothing of freed cells with unfinished
work, the ones that are handed out next.

`PoolInv`, the invariant behind `PinnedHostPool_proofs`, adds two parts to the
types, `OnePlace` and `EventsExclusive`, neither of which is inductive alone.
`Attended` says that the live blocks are those of the holders, one each, that
an event was recorded before it is queued, and that nobody is inside a pool
that is destroyed: without it a free could begin with a block that is not live,
and the destructor's last step could find live blocks. `Guarded` says that
unfinished work on a pending block is among what its event waits for, work on
a block in transit is on the stream its event will be recorded on (or already
was), and no work is on a cached block: that is what makes a completed event
mean an idle block. It needs `EventsExclusive`, for recording an event moves
what it waits for. One lemma shows what polling leaves (`PolledShape`,
`PolledPlaces`, `PolledEvents`), since three actions poll; then there is one
lemma per action and one step per disjunct of `Next`. For the refinement, the
held blocks are the live ones (`HeldIsLive`), and each action is one of five
kinds of step of `GuardedReuse`. That blocks leave only when idle follows from
`UseIsMapped` after the step.

The sums. `InUseExact`, `BudgetExact`, `CachedExact` and `RecordedWithinLimit`
compare a counter with `SumFunction` or `MapThenSumSet`, which choose a
recursive function over the subsets of a set. `SumLemmas` shows that over a
finite set such a function exists and that the sum does not depend on the order
in which elements are taken, with a smallest counterexample where one would use
induction (`SummingExists`, `TotalAdd`, `TotalUnion` and the like); finiteness of
the set summed over is then part of the invariant.

`InUseInv` is `InUseExact` with `WasteBounded` and `Merged`, the absence of
mergeable neighbours as the chunk map sees it. `WasteBounded` alone would
survive; `Merged` needs tiling for the two neighbours of each chunk that an
operation touches, and it is what a split leaves because the rest of a chunk
keeps its owner and the chunk itself is taken.

`BudgetInv` says that everything held is counted, `Held <= totalAllocated`, and
the count is within `MaxMem`: `Extend` charges before it may throw, so equality
is not invariant without `AlignedGrowth`. `GrowthInv` adds the equality and the
growth step that keeps it: `currRegion` is a multiple of the granule or the
largest value of a `size_t`, at which doubling stops; a region is then always
accepted.

`AlwaysBestFit` is about the bins: the search begins in the bin of the request
and takes the first chunk of the first bin that has a suitable one. That chunks
of a lower bin are too small, and that a lower bin's chunks are smaller than a
higher one's, follows from `BinMonotone`; that every free chunk is in its
bin is `ArenaInv`.

`WalkAlwaysCoalesced` is about a loop that rewrites the links it follows. Its
invariant (`WalkInv`) has three parts. The chunks so far are tiled and binned
and come from the cleared arena by merging into heads, and no head of a run has
been merged away (`Coarser`). Every chunk behind the walk is the head of its run: it
cannot be merged with the one before it. The chunk come to, if any, is one of the
tiling. Each turn keeps it (`TurnSound`): `VisitFree` goes on behind the merged
chunk, so what it leaves behind ends where the next chunk begins. The regions
left and the chunks ahead of the walk become fewer with each turn
(`TurnsAreFinite`, a function of the turns and their number), so it ends, and
then everything is behind it. A tiling whose cuts are the heads is unique
(`TilingUnique`), so the result is `Coalesced`, from which the other proofs argue.

For `ArenaImplementsMemory` the cells of `StreamOrderedMemory` are bytes, the
owner of a byte is the stream of the chunk that covers it, and a block is a run
of bytes. The argument goes by bytes: splitting, merging and the walk change no
byte's owner or make it nobody's, and the blocks of chunks in use are the same
(`KeepsInUse`), and `HeldInv` keeps regions and direct allocations apart in a
fresh device's addresses. Each operation is then one step: an allocation of a cached
chunk is `Allocate`, one that extends first is `Allocate` on bytes that were
nobody's, `Free` is `Free` or, for a direct allocation, `Free` of bytes without
an owner, `Shrink` is `Trim` of the bytes of idle regions, a reset is `Release`,
and everything a stream does otherwise is work or a stutter. `StreamsInv` links
the lives of streams to the index: only the live phase has work, which fails
when synchronization may return early; with it `Release` would expose work, as
`stream_sync_error` shows. `ArenaReuseIsOrdered` then comes from the promise
alone.

`QueueInv` is stated element by element: what a cached block, a pending entry, a
caller's locals and the worker's place each entail. There is one lemma per
action; the refinement follows as for the pool, from the held and the busy
blocks. `RecordedInv` adds the sum and the finiteness of the
pending entries; the limit is kept because a block is cached only if it
still fits with those that were cached before it (`Cacheable`).

`EndInv`, for `DestroyedIsEmpty`, says that no event is forgotten: each one is
reusable, guards a pending block or is carried by a call that is inside.
Together with `OnePlace` and the fact that nobody is inside at the end
(`Attended`) the destructor's loops meet everything there is.

`CopyInv` says what is known at each step of a copy (`Progress`): from filling
the block to enqueueing there is no work on it, after it at most the copy's own,
and until the batch is read out the block holds, or the queued copy brings, the
copy's bytes. That no other copy writes into the block is `OneCopy`, which
follows from the pool: a block that is held is on no list and has no work but
its holder's. `CopyStepIsPoolStep` shows that copies call the pool as its
callers may, so `PoolInv` comes for free.

`PlacementSpec` is the pass started on any graph whose nodes are in topological
order (`InOrder`, which TLC checks of every graph of the runs,
`GraphsAreInOrder`). The argument is that the worklist gives nodes up in
increasing order, so that a verdict is final: what a node reads was decided
before. That a worklist has a least node is a well-founded minimum.

`ClaimInd`, for `ClaimedOnce`, says what is known at each step of the pass: only
the search has candidates, the nodes considered singly are not fused, and those
that stay on the CPU are among them. The step that is not immediate erases the
matches of disabled fusions (`Enabled`, a recursion over the matches): what is
left is part of what was there, with nothing twice (`EnabledIsPart`).

`OrderedCallSpec`, of which `GuardedPartitionIsAlwaysAcyclic` speaks, is a call on
any graph that is `WellFormed`: in topological order, every value written once
and constants by no node, every node with an output, and seven operators with
the numbers of inputs and outputs of their ONNX schemas. ONNX Runtime's model
checker has seen to all of it before `GetCapability` is called; TLC evaluates it
for every graph of the run (`GraphsAreInOrder`). The argument has four parts.

1. *Graphs.* `Below`, a pass over the nodes, is the least set that contains a
   given one and is closed under reading (`BelowHolds`, `BelowGoesOn`,
   `BelowIsLeast`). A set of nodes is a *funnel* when whatever it reads from
   outside comes in before all it hands out, and *convex* when no path leaves it
   and comes back. Funnels that do not overlap never wait for each other in a
   ring: the earliest of their exits, in topological order, would be before
   itself (`FunnelsHaveFirst`). Among convex sets there may be a ring, but only
   one whose open sets (those that are no funnels) lead to each other, since the
   paths from one open set to the next pass through funnels, which hand on
   whatever they are given (`OpenHasFirst`). So in every collection of groups,
   unless the open ones are tangled, one waits for no other; each round of
   `Stuck` takes at least one off, and after as many rounds as there are groups
   nothing is left (`NothingIsStuck`).
2. *Matchers.* One lemma for each of the thirty-four finders says that a
   set it selects is convex, because the matcher ends in
   `FusionHasNoExternalPathBetweenSelectedNodes`, or a funnel, because it is a
   tree of values with one reader (a sink all the rest feeds: `SinkIsFunnel`)
   or everything in it draws on one node that reads for all (`SourceIsFunnel`).
   `MatchIsSound` puts them together.
3. *Lists.* What a finder proposes comes from its matcher, whatever was accepted
   before. `Candidates` is a fold over the nodes, and GemmActivation two;
   `NodeFoldStays` says that such a fold stays where each step does, and
   `NodeFoldExists` that the fold is there at all (`CandidatesAreSound`).
4. *The pass.* `SoundInd` keeps it through every step: the candidates to be
   looked at and the accepted matches are sound if their finder is one of the
   thirty-four, and the graph does not change. With `ClaimInd`, by which
   accepted sets are disjoint and not empty, it gives the premise of the graph
   theorem (`SoundGroupsAreAcyclic`). Neither is enough alone: sound groups that
   overlap, or groups that are disjoint only, may be stuck.

Both hypotheses of the property are needed. `ShapeReshape` and
`TargetIdCountEmbedding` make open sets without looking for a path
(`capability_cycle`). And `Tangled` does occur: see section 4. The proof found it:
the invariant was first stated without it, and at two open sets it would not
close.

The invariant of `FusedConstants_proofs` has a part for each place of the
protocol: who holds the mutex (`LockInv`), what was written (`WriteInv`), what a
published flag promises (`ReadyInv`), what a finished call leaves (`DoneInv`),
and what work that reads is behind (`UseInv`). `PublishedIsFinalEver` follows from
the first: a thread between the test and the publication has the mutex and knows
the flag unset, so there is none once it is set. The invariant is proved for `Kinds` without
`pack`, for which `fused_constants_pack` refutes it.

Assumptions: those named in the modules (`ArenaAssumption` and the like) and
nothing else. That the device returns fresh memory (`DeviceFresh`) is a guard.

Only model-checked:

* liveness (`PendingIsRecycled`, `DestructorEnds`, `DeferredIsFreed`,
  `QueueIsDestroyed`, `EveryCallReturns`): fairness is out of the prover's reach;
* `FusedAgrees` and `FusedComputes` of `Execution`: what the nodes and the
  kernels compute is recursion over tensors of any size, and the premises were
  found by running both sides, not by a proof;
* `NeverMistaken` of `Capability`: it compares every matcher with the chain of
  detectors on a graph built from the match. Detectors count operators, and
  that no graph of one pattern counts as another is a statement about 36 times
  36 pairs, the shared outputs and initializers included; TLC checks it on the
  patterns and their edits.

## 6. What is not modelled

Kernels of operators that no fusion replaces; rounding; the choice between
launch configurations and libraries that compute the same, scratch memory; the
caches of attention masks (keyed by address and shape, for up to eight calls)
and of merged weights (`parallel_matmul_concat_fusion.cc:112`, keyed by the
compute object's address and never erased); statistics, logging and graph dumps
(nothing reads them back); configuration parsing; the registry of several
arenas; `RoundedBytes` at `SIZE_MAX` (`musa_arena.cc:305`); the direct copies of
`ep_data_transfer.cc` that do not stage; notifications, and native streams that
are wrapped by two `MusaSyncStream`s (`ep_stream.cc:119`); profiling and the
factory; the release of compute objects (`fusion_node_compute.cc:326`). Build
files and scripts have no behaviour.

## 7. Possible extensions

`MusaNotification` and external streams composed with `ArenaStreams`; the
registry of arenas, one of them failing; `EpProfiling` and `EpFactory` with
several sessions; the mask and weight caches as a protocol of their own beside
`FusedConstants`.
