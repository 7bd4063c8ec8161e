---------------------------- MODULE DeferredFree ----------------------------
(***************************************************************************)
(* The queue of deferred frees that kernels take temporary device memory   *)
(* from (DeferredDeviceFreeQueue, kernel_memory.h).  Free does not wait    *)
(* for the stream: it records an event behind the work, and a worker       *)
(* thread caches the block or returns it to the device when the event is   *)
(* complete.  The queue is a static object: its destructor runs when the   *)
(* process exits, possibly while other threads are still inside Free.      *)
(* They go on when it has left: Allocate finds the cache empty, and what   *)
(* Free pushes then is in a list that nobody drains, so that the block and *)
(* its event are never given back.  (The members are destroyed by then, so *)
(* that the push is undefined; the case where it still reaches the memory  *)
(* of the list is modelled, and where the process dies, nothing follows.)  *)
(*                                                                         *)
(* What runs under mutex_ is one step.  Every caller gives a block back    *)
(* with the number of bytes it asked for, which the queue rounds: a larger *)
(* block that served a smaller request is recorded with the smaller size.  *)
(* Free without a number of bytes, which no kernel calls, is left out.     *)
(*                                                                         *)
(* Outside src/, and modelled as the code relies on it:                    *)
(*  - an event is complete when the work queued before its record is;      *)
(*  - musaFree returns memory after the device's work on it is over;       *)
(*  - a device in an error state executes nothing any more, and its calls  *)
(*    return the error;                                                    *)
(*  - kernels give a block back once, on the stream they used it on.       *)
(***************************************************************************)
EXTENDS Integers, FiniteSets, FiniteSetsExt, Functions

CONSTANTS
  Thread,          (* Threads that run kernels.                            *)
  Stream,          (* Native streams.                                      *)
  Block,           (* Addresses that musaMalloc may return.                *)
  Event,           (* Event handles.                                       *)
  None,            (* A null handle, address or stream.                    *)
  Granule,         (* RoundSize's kAlignment.                              *)
  Limit,           (* CacheLimitBytes()                                    *)
  Request          (* Sizes that kernels ask for.                          *)

ASSUME QueueAssumption ==
  /\ Granule \in Nat \ {0}
  /\ Limit \in Nat
  /\ Request \subseteq Nat \ {0}
  /\ None \notin Block \cup Event \cup Stream

VARIABLES
  device,          (* The size of each block musaMalloc gave.              *)
  cache,           (* cached_: the recorded size of each cached block.     *)
  cachedBytes,     (* cached_bytes_                                        *)
  pending,         (* pending_                                             *)
  events,          (* The events that exist.                               *)
  worker,          (* Where the worker thread is.                          *)
  stop,            (* stop_                                                *)
  call,            (* Where each kernel thread is, with its locals.        *)
  work,            (* Unfinished device work: its stream and its block.    *)
  before,          (* The unfinished work each recorded event waits for.   *)
  failed           (* The device is in an error state.                     *)

queueVars == <<cache, cachedBytes, pending>>
gpuVars == <<work, before, failed>>
vars == <<device, queueVars, events, worker, stop, call, gpuVars>>

PendingFree == [ptr : Block, event : Event, bytes : Nat]

Worker == {"check", "waiting", "polling", "asleep", "gone", "draining", "destroyed"}

Step == {"out", "malloc", "holds", "leaving", "created", "recorded", "synchronize", "free"}

RoundSize(n) == Granule * ((n + Granule - 1) \div Granule)

Put(f, x, y) == [z \in DOMAIN f \cup {x} |-> IF z = x THEN y ELSE f[z]]
Without(f, S) == Restrict(f, DOMAIN f \ S)

Out == [at |-> "out", ptr |-> None, bytes |-> 0, event |-> None, stream |-> None]

Call == [at : Step, ptr : Block \cup {None}, bytes : Nat, event : Event \cup {None},
         stream : Stream \cup {None}]

(* mutex_ is not held by the destructor, which has it from its join until  *)
(* it returns.                                                             *)
Unlocked == worker # "draining"

-----------------------------------------------------------------------------
(* Allocate                                                                *)

(* Mutant: the first block is taken, large enough or not.                  *)
FitsAny(n) == DOMAIN cache

(* lower_bound: the smallest of the cached blocks that are large enough.   *)
Fits(n) ==
  LET enough == {b \in DOMAIN cache : cache[b] >= n}
  IN  {b \in enough : \A c \in enough : cache[b] <= cache[c]}

AllocateCached(t, n) ==
  /\ call[t].at = "out" /\ Unlocked
  /\ \E b \in Fits(RoundSize(n)) :
       /\ cache' = Without(cache, {b})
       /\ cachedBytes' = cachedBytes - cache[b]
       /\ call' = [call EXCEPT ![t] = [Out EXCEPT !.at = "holds", !.ptr = b,
                                                  !.bytes = RoundSize(n)]]
  /\ UNCHANGED <<device, pending, events, worker, stop, gpuVars>>

AllocateMissed(t, n) ==
  /\ call[t].at = "out" /\ Unlocked
  /\ Fits(RoundSize(n)) = {}
  /\ call' = [call EXCEPT ![t] = [Out EXCEPT !.at = "malloc", !.bytes = RoundSize(n)]]
  /\ UNCHANGED <<device, queueVars, events, worker, stop, gpuVars>>

Malloc(t) ==
  /\ call[t].at = "malloc" /\ ~failed
  /\ \E b \in Block \ DOMAIN device :
       /\ device' = Put(device, b, call[t].bytes)
       /\ call' = [call EXCEPT ![t].at = "holds", ![t].ptr = b]
  /\ UNCHANGED <<queueVars, events, worker, stop, gpuVars>>

MallocFails(t) ==
  /\ call[t].at = "malloc"
  /\ call' = [call EXCEPT ![t] = Out]
  /\ UNCHANGED <<device, queueVars, events, worker, stop, gpuVars>>

-----------------------------------------------------------------------------
(* Free                                                                    *)

(* The kernel is done with its block; without a stream it is freed now.    *)
Free(t, s) ==
  /\ call[t].at = "holds"
  /\ \A w \in work : w[2] = call[t].ptr => w[1] = s
  /\ call' = [call EXCEPT ![t].at = IF s = None THEN "free" ELSE "leaving",
                          ![t].stream = s]
  /\ UNCHANGED <<device, queueVars, events, worker, stop, gpuVars>>

CreateEvent(t) ==
  /\ call[t].at = "leaving" /\ ~failed
  /\ \E e \in Event \ events :
       /\ events' = events \cup {e}
       /\ call' = [call EXCEPT ![t].at = "created", ![t].event = e]
  /\ UNCHANGED <<device, queueVars, worker, stop, gpuVars>>

CreateEventFails(t) ==
  /\ call[t].at = "leaving"
  /\ call' = [call EXCEPT ![t].at = "synchronize"]
  /\ UNCHANGED <<device, queueVars, events, worker, stop, gpuVars>>

RecordEvent(t) ==
  /\ call[t].at = "created" /\ ~failed
  /\ before' = [before EXCEPT ![call[t].event] = {w \in work : w[1] = call[t].stream}]
  /\ call' = [call EXCEPT ![t].at = "recorded"]
  /\ UNCHANGED <<device, queueVars, events, worker, stop, work, failed>>

RecordEventFails(t) ==
  /\ call[t].at = "created"
  /\ events' = events \ {call[t].event}
  /\ call' = [call EXCEPT ![t].at = "synchronize", ![t].event = None]
  /\ UNCHANGED <<device, queueVars, worker, stop, gpuVars>>

Synchronize(t) ==
  /\ call[t].at = "synchronize"
  /\ failed \/ \A w \in work : w[1] # call[t].stream
  /\ call' = [call EXCEPT ![t].at = "free"]
  /\ UNCHANGED <<device, queueVars, events, worker, stop, gpuVars>>

MusaFree(t) ==
  /\ call[t].at = "free"
  /\ \A w \in work : w[2] # call[t].ptr
  /\ device' = Without(device, {call[t].ptr})
  /\ call' = [call EXCEPT ![t] = Out]
  /\ UNCHANGED <<queueVars, events, worker, stop, gpuVars>>

(* Mutant: cv_ is not notified.                                            *)
NotifiedNot == worker

(* cv_.notify_one, notify_all                                              *)
Notified == IF worker = "waiting" THEN "check" ELSE worker

PushPending(t) ==
  /\ call[t].at = "recorded" /\ Unlocked
  /\ pending' = pending \cup {[ptr |-> call[t].ptr, event |-> call[t].event,
                               bytes |-> call[t].bytes]}
  /\ worker' = Notified
  /\ call' = [call EXCEPT ![t] = Out]
  /\ UNCHANGED <<device, cache, cachedBytes, events, stop, gpuVars>>

-----------------------------------------------------------------------------
(* The worker                                                              *)

WorkerWaits ==
  /\ worker = "check" /\ ~stop /\ pending = {}
  /\ worker' = "waiting"
  /\ UNCHANGED <<device, queueVars, events, stop, call, gpuVars>>

(* It returns without a last poll.                                         *)
WorkerReturns ==
  /\ worker = "check" /\ stop
  /\ worker' = "gone"
  /\ UNCHANGED <<device, queueVars, events, stop, call, gpuVars>>

(* There is something to poll; PollPending takes the mutex again.          *)
WorkerGoes ==
  /\ worker = "check" /\ ~stop /\ pending # {}
  /\ worker' = "polling"
  /\ UNCHANGED <<device, queueVars, events, stop, call, gpuVars>>

(* musaEventQuery does not return musaErrorNotReady.                       *)
Ready(e) == failed \/ before[e] = {}

(* Mutant: a query that returns musaErrorNotReady counts as an error.      *)
CompletedUnready == {p \in pending : p.event \in events}

Completed == {p \in pending : Ready(p.event)}

(* Mutant: the limit is compared before the block is added.                *)
CacheableLate(kept) == Limit # 0 /\ cachedBytes <= Limit

(* CacheCompleted: a block is cached while the limit is not exceeded.      *)
Cacheable(kept) ==
  Limit # 0 /\ cachedBytes + MapThenSumSet(LAMBDA p : p.bytes, kept) <= Limit

(* PollPending.  Which of the completed blocks are cached depends on their *)
(* order in the list: those are kept that still fit when they are reached. *)
(* After an error every block goes back to the device.                     *)
PollPending ==
  /\ worker = "polling"
  /\ \E kept \in SUBSET Completed :
       /\ kept # {} => ~failed /\ Cacheable(kept)
       /\ ~failed => \A p \in Completed \ kept : ~Cacheable(kept \cup {p})
       /\ cache' = [b \in DOMAIN cache \cup {p.ptr : p \in kept} |->
                      IF b \in DOMAIN cache THEN cache[b]
                      ELSE (CHOOSE p \in kept : p.ptr = b).bytes]
       /\ cachedBytes' = cachedBytes + MapThenSumSet(LAMBDA p : p.bytes, kept)
       /\ device' = Without(device, {p.ptr : p \in Completed \ kept})
  /\ pending' = pending \ Completed
  /\ events' = events \ {p.event : p \in Completed}
  /\ worker' = "asleep"
  /\ UNCHANGED <<stop, call, gpuVars>>

(* Its sleep ends, or its wait for no reason.                              *)
WorkerWakes ==
  /\ worker \in {"asleep", "waiting"}
  /\ worker' = "check"
  /\ UNCHANGED <<device, queueVars, events, stop, call, gpuVars>>

-----------------------------------------------------------------------------
(* The destructor                                                          *)

Stop ==
  /\ ~stop
  /\ stop' = TRUE
  /\ worker' = Notified
  /\ UNCHANGED <<device, queueVars, events, call, gpuVars>>

(* The worker is joined, and the mutex taken for the rest.                 *)
Join ==
  /\ worker = "gone"
  /\ worker' = "draining"
  /\ UNCHANGED <<device, queueVars, events, stop, call, gpuVars>>

Drain(p) ==
  /\ worker = "draining" /\ p \in pending /\ Ready(p.event)
  /\ pending' = pending \ {p}
  /\ events' = events \ {p.event}
  /\ device' = Without(device, {p.ptr})
  /\ UNCHANGED <<cache, cachedBytes, worker, stop, call, gpuVars>>

(* Cached blocks are forgotten, and stay with the process until it ends.   *)
Forget ==
  /\ worker = "draining" /\ pending = {}
  /\ cache' = [b \in {} |-> 0] /\ cachedBytes' = 0
  /\ worker' = "destroyed"
  /\ UNCHANGED <<device, pending, events, stop, call, gpuVars>>

-----------------------------------------------------------------------------
(* The device                                                              *)

(* A kernel queues work on the block it holds.                             *)
Launch(t, s) ==
  /\ call[t].at = "holds" /\ ~failed
  /\ \A w \in work : w[2] = call[t].ptr => w[1] = s
  /\ work' = work \cup {<<s, call[t].ptr>>}
  /\ UNCHANGED <<device, queueVars, events, worker, stop, call, before, failed>>

Finish(w) ==
  /\ w \in work
  /\ work' = work \ {w}
  /\ before' = [e \in Event |-> before[e] \ {w}]
  /\ UNCHANGED <<device, queueVars, events, worker, stop, call, failed>>

Fail ==
  /\ ~failed
  /\ failed' = TRUE
  /\ work' = {}
  /\ before' = [e \in Event |-> {}]
  /\ UNCHANGED <<device, queueVars, events, worker, stop, call>>

Init ==
  /\ device = [b \in {} |-> 0]
  /\ cache = [b \in {} |-> 0]
  /\ cachedBytes = 0
  /\ pending = {}
  /\ events = {}
  /\ worker = "check"
  /\ stop = FALSE
  /\ call = [t \in Thread |-> Out]
  /\ work = {}
  /\ before = [e \in Event |-> {}]
  /\ failed = FALSE

(* A call, once begun, goes on by itself.                                  *)
InCall(t) ==
  \/ Malloc(t) \/ MallocFails(t)
  \/ CreateEvent(t) \/ CreateEventFails(t)
  \/ RecordEvent(t) \/ RecordEventFails(t)
  \/ Synchronize(t) \/ MusaFree(t) \/ PushPending(t)

WorkerSteps == WorkerWaits \/ WorkerReturns \/ WorkerGoes \/ PollPending

Destroy == Join \/ Forget \/ \E p \in pending : Drain(p)

(* The process exits.                                                      *)
Ended == worker = "destroyed" /\ UNCHANGED vars

Next ==
  \/ \E t \in Thread, n \in Request : AllocateCached(t, n) \/ AllocateMissed(t, n)
  \/ \E t \in Thread : InCall(t)
  \/ \E t \in Thread, s \in Stream \cup {None} : Launch(t, s) \/ Free(t, s)
  \/ WorkerSteps \/ WorkerWakes
  \/ Stop
  \/ Destroy
  \/ \E w \in work : Finish(w)
  \/ Fail
  \/ Ended

Spec == Init /\ [][Next]_vars

(* The device finishes whatever it was given or fails, and the worker and  *)
(* the destructor run.  No kernel has to give its block back, and the      *)
(* worker is not woken from its wait for no reason.                        *)
Fairness ==
  /\ \A w \in (Stream \cup {None}) \X Block : WF_vars(Finish(w))
  /\ WF_vars(WorkerSteps \/ (worker = "asleep" /\ WorkerWakes))
  /\ WF_vars(Destroy)

FairSpec == Spec /\ Fairness

-----------------------------------------------------------------------------
(* Properties                                                              *)

PartialFunction(f, S, T) == DOMAIN f \subseteq S /\ \A x \in DOMAIN f : f[x] \in T

QueueTypeOK ==
  /\ PartialFunction(device, Block, Nat)
  /\ PartialFunction(cache, Block, Nat)
  /\ pending \in SUBSET PendingFree
  /\ events \in SUBSET Event
  /\ worker \in Worker
  /\ stop \in BOOLEAN
  /\ call \in [Thread -> Call]
  /\ work \in SUBSET ((Stream \cup {None}) \X Block)
  /\ before \in [Event -> SUBSET ((Stream \cup {None}) \X Block)]
  /\ failed \in BOOLEAN

Holding == {t \in Thread : call[t].at = "holds"}

(* The threads that are between the steps of a Free.                       *)
Freeing ==
  {t \in Thread : call[t].at \in {"leaving", "created", "recorded", "synchronize", "free"}}

HasBlock == Holding \cup Freeing

(* A block is with one thread, pending or cached, and exists.              *)
OneOwner ==
  /\ DOMAIN cache \cup {p.ptr : p \in pending} \cup {call[t].ptr : t \in HasBlock}
       \subseteq DOMAIN device
  /\ \A p \in pending : p.ptr \notin DOMAIN cache
  /\ \A p, q \in pending : p.ptr = q.ptr => p = q
  /\ \A t \in HasBlock :
       /\ call[t].ptr \notin DOMAIN cache
       /\ \A p \in pending : p.ptr # call[t].ptr
       /\ \A u \in HasBlock : call[u].ptr = call[t].ptr => u = t

(* Each event that exists guards one block: none is leaked.                *)
EventsOwned ==
  /\ \A p, q \in pending : p.event = q.event => p = q
  /\ \A t, u \in Freeing : call[t].event # None /\ call[t].event = call[u].event => t = u
  /\ \A t \in Freeing : \A p \in pending : p.event # call[t].event
  /\ \A t \in Thread : call[t].event # None <=> call[t].at \in {"created", "recorded"}
  /\ events = {p.event : p \in pending}
                \cup {call[t].event : t \in {u \in Freeing : call[u].event # None}}

(* Work on a block is on the stream its owner gives it back on, behind its *)
(* event once that is recorded; there is none on a cached block.           *)
WorkGuarded ==
  /\ failed => work = {} /\ \A e \in Event : before[e] = {}
  /\ \A w \in work : (\E p \in pending : p.ptr = w[2]) \/ (\E t \in HasBlock : call[t].ptr = w[2])
  /\ \A w, x \in work : w[2] = x[2] => w = x
  /\ \A p \in pending : \A w \in work : w[2] = p.ptr => w \in before[p.event]
  /\ \A t \in Freeing : \A w \in work : w[2] = call[t].ptr =>
       IF call[t].at = "recorded" THEN w \in before[call[t].event]
       ELSE w[1] = call[t].stream

(* A block is recorded with at most its size, so that whoever gets it from *)
(* the cache can use what was asked for.                                   *)
LargeEnough ==
  /\ \A b \in DOMAIN cache : cache[b] <= device[b]
  /\ \A p \in pending : p.bytes <= device[p.ptr]
  /\ \A t \in HasBlock : call[t].bytes <= device[call[t].ptr]

(* Nobody takes a block from a queue that the destructor has left.         *)
Teardown ==
  /\ worker \in {"gone", "draining", "destroyed"} => stop
  /\ worker = "destroyed" => cache = [b \in {} |-> 0]

(* What every step preserves: each block and each event has one owner, a   *)
(* block is as large as it is recorded, and unfinished work on a block is  *)
(* waited for by whoever will free it, also when the process exits.        *)
QueueInv ==
  /\ QueueTypeOK
  /\ OneOwner
  /\ EventsOwned
  /\ WorkGuarded
  /\ LargeEnough
  /\ Teardown

(* cached_bytes_ is what the cached blocks are recorded with, and stays    *)
(* within ORT_MUSA_DEFERRED_FREE_CACHE_LIMIT_MB, however many blocks       *)
(* complete at once.                                                       *)
RecordedWithinLimit == cachedBytes = SumFunction(cache) /\ cachedBytes <= Limit

Reuse == INSTANCE GuardedReuse
           WITH mapped <- DOMAIN device,
                held   <- {call[t].ptr : t \in Holding},
                busy   <- {w[2] : w \in work}

(* Device memory is handed out again, or returned to the device, only when *)
(* the work of the kernel that had it is over: the queue promises what the *)
(* pinned pool does.                                                       *)
ImplementsReuse == Reuse!Spec

(* A block whose work is over does not stay pending for ever, although     *)
(* nobody but the worker looks at it: what was pushed before the           *)
(* destructor returns, the worker or the destructor frees, whoever holds   *)
(* the mutex at the exit.  What is pushed later is not.                    *)
DeferredIsFreed ==
  \A b \in Block :
    worker # "destroyed" /\ (\E p \in pending : p.ptr = b) ~> (\A p \in pending : p.ptr # b)

(* The destructor ends: the worker does not sleep through the request, and *)
(* no event is waited for in vain.                                         *)
QueueIsDestroyed == stop ~> worker = "destroyed"

=============================================================================
