--------------------------- MODULE PinnedHostPool ---------------------------
(***************************************************************************)
(* The pool of pinned host memory that copies between host and device are  *)
(* staged in (pinned_host_pool.h), shared by threads that allocate a       *)
(* block, queue device work on it and give it back, either when the work   *)
(* is known to be over (FreeCompleted) or behind an event that is recorded *)
(* on the stream (FreeAsync).  A thread of the pool polls the events.      *)
(*                                                                         *)
(* What runs under mutex_ is one step.  Allocate leaves the mutex before   *)
(* it asks the system for memory, and FreeAsync before it creates and      *)
(* records an event, so each of them is several.                           *)
(*                                                                         *)
(* Outside src/, and modelled as the code relies on it:                    *)
(*  - an event is complete when the work queued before its record is;      *)
(*  - a device in an error state executes nothing any more, and its calls  *)
(*    return the error;                                                    *)
(*  - callers give back only what they were given, once, FreeCompleted     *)
(*    only without unfinished work and FreeAsync only with work on its     *)
(*    stream; none is inside the pool when it is destroyed.                *)
(***************************************************************************)
EXTENDS Integers, FiniteSets, FiniteSetsExt, Functions

CONSTANTS
  Thread,          (* Threads that call the pool.                          *)
  Stream,          (* Native streams.                                      *)
  Block,           (* Addresses that musaHostAlloc may return.             *)
  Event,           (* Event handles.                                       *)
  None,            (* A null handle or address.                            *)
  Granule,         (* RoundSize's kAlignment.                              *)
  Limit,           (* CacheLimitBytes(), constant while the pool lives.    *)
  Request          (* Sizes that callers ask for.                          *)

ASSUME PoolAssumption ==
  /\ Granule \in Nat \ {0}
  /\ Limit \in Nat
  /\ Request \subseteq Nat \ {0}
  /\ None \notin Block \cup Event \cup Stream

VARIABLES
  host,            (* The size of each block musaHostAlloc gave.           *)
  live,            (* live_blocks_                                         *)
  free,            (* free_blocks_, by address.                            *)
  pending,         (* pending_frees_                                       *)
  cached,          (* cached_bytes_                                        *)
  reusable,        (* reusable_events_                                     *)
  events,          (* The events that exist.                               *)
  poller,          (* Where the polling thread is.                         *)
  stop,            (* stop_polling_                                        *)
  call,            (* Where each calling thread is, with its locals.       *)
  work,            (* Unfinished device work: its stream and its block.    *)
  before,          (* The unfinished work each recorded event waits for.   *)
  failed           (* The device is in an error state.                     *)

poolVars == <<live, free, pending, cached, reusable>>
deviceVars == <<work, before, failed>>
vars == <<host, poolVars, events, poller, stop, call, deviceVars>>

Pending == [ptr : Block, size : Nat, event : Event, release : BOOLEAN]

Poller == {"check", "waiting", "asleep", "gone", "destroyed"}

Step == {"out", "hostAlloc", "holds", "leaving", "recorded", "synchronize"}

Rounded(n) == Granule * ((n + Granule - 1) \div Granule)

ShouldRelease(size) == Limit = 0 \/ cached + size > Limit

Put(f, x, y) == [z \in DOMAIN f \cup {x} |-> IF z = x THEN y ELSE f[z]]
Without(f, S) == Restrict(f, DOMAIN f \ S)

Out == [at |-> "out", ptr |-> None, size |-> 0, event |-> None,
        release |-> FALSE, stream |-> None]

Call == [at : Step, ptr : Block \cup {None}, size : Nat, event : Event \cup {None},
         release : BOOLEAN, stream : Stream \cup {None}]

-----------------------------------------------------------------------------
(* Polling                                                                 *)

(* musaEventQuery does not return musaErrorNotReady.                       *)
Ready(e) == failed \/ before[e] = {}

(* Mutant: an event on which work is not ready counts as one in error.     *)
CompletedUnready == {p \in pending : p.event \in events}

Completed == {p \in pending : Ready(p.event)}

(* PollPendingFreesLocked: what it leaves.  An event that is complete can  *)
(* be used again, one in error is destroyed; the block is kept or returned *)
(* as it was decided when it was given back.                               *)
Polled ==
  LET done == Completed
      kept == {p \in done : ~p.release}
  IN  [pending  |-> pending \ done,
       free     |-> [b \in DOMAIN free \cup {p.ptr : p \in kept} |->
                       IF b \in DOMAIN free THEN free[b]
                       ELSE (CHOOSE p \in kept : p.ptr = b).size],
       cached   |-> cached + MapThenSumSet(LAMBDA p : p.size, kept),
       reusable |-> IF failed THEN reusable ELSE reusable \cup {p.event : p \in done},
       events   |-> IF failed THEN events \ {p.event : p \in done} ELSE events,
       host     |-> Without(host, {p.ptr : p \in done \ kept})]

-----------------------------------------------------------------------------
(* Allocate                                                                *)

(* The pool after PollPendingFreesLocked, but for the cached blocks.       *)
Swept(left) ==
  /\ pending' = left.pending
  /\ reusable' = left.reusable
  /\ events' = left.events
  /\ host' = left.host

(* Mutant: cached_bytes_ still counts the block that is taken.             *)
CachedStill(left, b) == left.cached

(* cached_bytes_ after block b is taken.                                   *)
CachedWithout(left, b) == left.cached - left.free[b]

(* After polling, the smallest cached block that is large enough.          *)
AllocateCached(t, n) ==
  /\ call[t].at = "out" /\ ~stop
  /\ LET left == Polled
         fit  == {b \in DOMAIN left.free : left.free[b] >= Rounded(n)}
     IN  \E b \in fit :
           /\ \A c \in fit : left.free[b] <= left.free[c]
           /\ free' = Without(left.free, {b})
           /\ cached' = CachedWithout(left, b)
           /\ live' = Put(live, b, left.free[b])
           /\ call' = [call EXCEPT ![t] = [Out EXCEPT !.at = "holds", !.ptr = b]]
           /\ Swept(left)
  /\ UNCHANGED <<poller, stop, deviceVars>>

(* None is: the mutex is released to ask the system for one.               *)
AllocateMissed(t, n) ==
  /\ call[t].at = "out" /\ ~stop
  /\ LET left == Polled
     IN  /\ \A b \in DOMAIN left.free : left.free[b] < Rounded(n)
         /\ free' = left.free /\ cached' = left.cached
         /\ Swept(left)
  /\ call' = [call EXCEPT ![t] = [Out EXCEPT !.at = "hostAlloc", !.size = Rounded(n)]]
  /\ UNCHANGED <<live, poller, stop, deviceVars>>

(* musaHostAlloc, and the new block is noted.                              *)
HostAlloc(t) ==
  /\ call[t].at = "hostAlloc" /\ ~failed
  /\ \E b \in Block \ DOMAIN host :
       /\ host' = Put(host, b, call[t].size)
       /\ live' = Put(live, b, call[t].size)
       /\ call' = [call EXCEPT ![t] = [Out EXCEPT !.at = "holds", !.ptr = b]]
  /\ UNCHANGED <<free, pending, cached, reusable, events, poller, stop, deviceVars>>

HostAllocFails(t) ==
  /\ call[t].at = "hostAlloc"
  /\ call' = [call EXCEPT ![t] = Out]
  /\ UNCHANGED <<host, poolVars, events, poller, stop, deviceVars>>

-----------------------------------------------------------------------------
(* Free                                                                    *)

LiveWithout(b) == Without(live, {b})

(* The locked part of FreeCompleted, for block b.                          *)
GiveBack(b) ==
  IF b \notin DOMAIN live
  THEN host' = Without(host, {b}) /\ UNCHANGED <<live, free, cached>>
  ELSE /\ live' = LiveWithout(b)
       /\ IF ShouldRelease(live[b])
          THEN host' = Without(host, {b}) /\ UNCHANGED <<free, cached>>
          ELSE /\ free' = Put(free, b, live[b])
               /\ cached' = cached + live[b]
               /\ UNCHANGED host

FreeCompleted(t) ==
  /\ call[t].at = "holds"
  /\ \A w \in work : w[2] # call[t].ptr
  /\ GiveBack(call[t].ptr)
  /\ call' = [call EXCEPT ![t] = Out]
  /\ UNCHANGED <<pending, reusable, events, poller, stop, deviceVars>>

ReusableWithout(e) == reusable \ {e}

(* FreeAsync: the block leaves live_blocks_, what will become of it is     *)
(* decided, and an event is taken if there is one.                         *)
FreeAsync(t, s) ==
  /\ call[t].at = "holds"
  /\ \A w \in work : w[2] = call[t].ptr => w[1] = s
  /\ LET b == call[t].ptr
     IN  /\ live' = LiveWithout(b)
         /\ \E e \in IF reusable = {} THEN {None} ELSE reusable :
              /\ reusable' = ReusableWithout(e)
              /\ call' = [call EXCEPT ![t] =
                            [at |-> "leaving", ptr |-> b, size |-> live[b], event |-> e,
                             release |-> ShouldRelease(live[b]), stream |-> s]]
  /\ UNCHANGED <<host, free, pending, cached, events, poller, stop, deviceVars>>

CreateEvent(t) ==
  /\ call[t].at = "leaving" /\ call[t].event = None /\ ~failed
  /\ \E e \in Event \ events :
       /\ events' = events \cup {e}
       /\ call' = [call EXCEPT ![t].event = e]
  /\ UNCHANGED <<host, poolVars, poller, stop, deviceVars>>

(* Mutant: FreeAsync goes on without an event.                             *)
CreateEventFailsOn(t) ==
  /\ call[t].at = "leaving" /\ call[t].event = None
  /\ call' = [call EXCEPT ![t].at = "recorded"]
  /\ UNCHANGED <<host, poolVars, events, poller, stop, deviceVars>>

CreateEventFails(t) ==
  /\ call[t].at = "leaving" /\ call[t].event = None
  /\ call' = [call EXCEPT ![t].at = "synchronize"]
  /\ UNCHANGED <<host, poolVars, events, poller, stop, deviceVars>>

RecordEvent(t) ==
  /\ call[t].at = "leaving" /\ call[t].event # None /\ ~failed
  /\ before' = [before EXCEPT ![call[t].event] = {w \in work : w[1] = call[t].stream}]
  /\ call' = [call EXCEPT ![t].at = "recorded"]
  /\ UNCHANGED <<host, poolVars, events, poller, stop, work, failed>>

(* Mutant: the event that could not be recorded is forgotten.              *)
RecordEventFailsLeaks(t) ==
  /\ call[t].at = "leaving" /\ call[t].event # None
  /\ call' = [call EXCEPT ![t].at = "synchronize"]
  /\ UNCHANGED <<host, poolVars, events, poller, stop, deviceVars>>

RecordEventFails(t) ==
  /\ call[t].at = "leaving" /\ call[t].event # None
  /\ events' = events \ {call[t].event}
  /\ call' = [call EXCEPT ![t].at = "synchronize"]
  /\ UNCHANGED <<host, poolVars, poller, stop, deviceVars>>

(* Without an event: musaStreamSynchronize, then FreeCompleted.            *)
Synchronize(t) ==
  /\ call[t].at = "synchronize"
  /\ failed \/ \A w \in work : w[1] # call[t].stream
  /\ GiveBack(call[t].ptr)
  /\ call' = [call EXCEPT ![t] = Out]
  /\ UNCHANGED <<pending, reusable, events, poller, stop, deviceVars>>

(* Mutant: poll_cv_ is not notified.                                       *)
NotifiedNot == poller

(* poll_cv_.notify_one, notify_all                                         *)
Notified == IF poller = "waiting" THEN "check" ELSE poller

PushPending(t) ==
  /\ call[t].at = "recorded"
  /\ pending' = pending \cup {[ptr |-> call[t].ptr, size |-> call[t].size,
                               event |-> call[t].event, release |-> call[t].release]}
  /\ poller' = Notified
  /\ call' = [call EXCEPT ![t] = Out]
  /\ UNCHANGED <<host, live, free, cached, reusable, events, stop, deviceVars>>

-----------------------------------------------------------------------------
(* The polling thread, and the destructor                                  *)

PollerWaits ==
  /\ poller = "check" /\ ~stop /\ pending = {}
  /\ poller' = "waiting"
  /\ UNCHANGED <<host, poolVars, events, stop, call, deviceVars>>

PollerPolls ==
  /\ poller = "check" /\ (stop \/ pending # {})
  /\ LET left == Polled
     IN  /\ free' = left.free /\ cached' = left.cached
         /\ Swept(left)
  /\ poller' = IF stop THEN "gone" ELSE "asleep"
  /\ UNCHANGED <<live, stop, call, deviceVars>>

(* Its sleep ends; or it wakes up for no reason.                           *)
PollerWakes ==
  /\ poller \in {"asleep", "waiting"}
  /\ poller' = "check"
  /\ UNCHANGED <<host, poolVars, events, stop, call, deviceVars>>

StopPolling ==
  /\ ~stop /\ \A t \in Thread : call[t].at = "out"
  /\ stop' = TRUE
  /\ poller' = Notified
  /\ UNCHANGED <<host, poolVars, events, call, deviceVars>>

(* Mutant: the destructor does not wait for the pending events.            *)
DestroyPendingNow(p) ==
  /\ poller = "gone" /\ p \in pending
  /\ pending' = pending \ {p}
  /\ events' = events \ {p.event}
  /\ host' = Without(host, {p.ptr})
  /\ UNCHANGED <<live, free, cached, reusable, poller, stop, call, deviceVars>>

(* After the join the destructor waits for each pending event in turn.     *)
DestroyPending(p) ==
  /\ poller = "gone" /\ p \in pending /\ Ready(p.event)
  /\ pending' = pending \ {p}
  /\ events' = events \ {p.event}
  /\ host' = Without(host, {p.ptr})
  /\ UNCHANGED <<live, free, cached, reusable, poller, stop, call, deviceVars>>

(* ... and returns the rest.                                               *)
DestroyRest ==
  /\ poller = "gone" /\ pending = {}
  /\ host' = Without(host, DOMAIN free \cup DOMAIN live)
  /\ events' = events \ reusable
  /\ free' = [b \in {} |-> 0] /\ live' = [b \in {} |-> 0]
  /\ reusable' = {} /\ cached' = 0
  /\ poller' = "destroyed"
  /\ UNCHANGED <<pending, stop, call, deviceVars>>

-----------------------------------------------------------------------------
(* The device                                                              *)

(* A thread queues work on the block it holds.                             *)
Launch(t, s) ==
  /\ call[t].at = "holds" /\ ~failed
  /\ work' = work \cup {<<s, call[t].ptr>>}
  /\ UNCHANGED <<host, poolVars, events, poller, stop, call, before, failed>>

Finish(w) ==
  /\ w \in work
  /\ work' = work \ {w}
  /\ before' = [e \in Event |-> before[e] \ {w}]
  /\ UNCHANGED <<host, poolVars, events, poller, stop, call, failed>>

Fail ==
  /\ ~failed
  /\ failed' = TRUE
  /\ work' = {}
  /\ before' = [e \in Event |-> {}]
  /\ UNCHANGED <<host, poolVars, events, poller, stop, call>>

Init ==
  /\ host = [b \in {} |-> 0]
  /\ live = [b \in {} |-> 0]
  /\ free = [b \in {} |-> 0]
  /\ pending = {}
  /\ cached = 0
  /\ reusable = {}
  /\ events = {}
  /\ poller = "check"
  /\ stop = FALSE
  /\ call = [t \in Thread |-> Out]
  /\ work = {}
  /\ before = [e \in Event |-> {}]
  /\ failed = FALSE

(* A call, once begun, does not wait for other callers.                    *)
InCall(t) ==
  \/ HostAlloc(t) \/ HostAllocFails(t)
  \/ CreateEvent(t) \/ CreateEventFails(t)
  \/ RecordEvent(t) \/ RecordEventFails(t)
  \/ Synchronize(t) \/ PushPending(t)

Poll == PollerWaits \/ PollerPolls \/ PollerWakes

Destroy == DestroyRest \/ \E p \in pending : DestroyPending(p)

(* The pool is gone.                                                       *)
Ended == poller = "destroyed" /\ UNCHANGED vars

Next ==
  \/ \E t \in Thread, n \in Request : AllocateCached(t, n) \/ AllocateMissed(t, n)
  \/ \E t \in Thread : InCall(t) \/ FreeCompleted(t)
  \/ \E t \in Thread, s \in Stream : Launch(t, s) \/ FreeAsync(t, s)
  \/ Poll
  \/ StopPolling
  \/ Destroy
  \/ \E w \in work : Finish(w)
  \/ Fail
  \/ Ended

Spec == Init /\ [][Next]_vars

(* The device finishes whatever it was given or fails, calls that were     *)
(* begun end, and the polling thread and the destructor run.  Nobody has   *)
(* to give a block back or to destroy the pool.                            *)
Fairness ==
  /\ \A w \in Stream \X Block : WF_vars(Finish(w))
  /\ \A t \in Thread : WF_vars(InCall(t))
  /\ WF_vars(PollerWaits \/ PollerPolls \/ (poller = "asleep" /\ PollerWakes))
  /\ WF_vars(Destroy)

FairSpec == Spec /\ Fairness

-----------------------------------------------------------------------------
(* Properties                                                              *)

PartialFunction(f, S, T) == DOMAIN f \subseteq S /\ \A x \in DOMAIN f : f[x] \in T

PoolTypeOK ==
  /\ PartialFunction(host, Block, Nat)
  /\ PartialFunction(live, Block, Nat)
  /\ PartialFunction(free, Block, Nat)
  /\ pending \in SUBSET Pending
  /\ reusable \in SUBSET Event
  /\ events \in SUBSET Event
  /\ poller \in Poller
  /\ stop \in BOOLEAN
  /\ call \in [Thread -> Call]
  /\ work \in SUBSET (Stream \X Block)
  /\ before \in [Event -> SUBSET (Stream \X Block)]
  /\ failed \in BOOLEAN

(* The threads that are between the steps of a FreeAsync.                  *)
Freeing == {t \in Thread : call[t].at \in {"leaving", "recorded", "synchronize"}}

InTransit == {call[t].ptr : t \in Freeing}

(* Each block of pinned memory is in one place: live, cached, pending, or  *)
(* in the hands of one FreeAsync.  None is lost, and none that was given   *)
(* back to the system is left anywhere.                                    *)
OnePlace ==
  /\ DOMAIN host = DOMAIN live \cup DOMAIN free \cup {p.ptr : p \in pending} \cup InTransit
  /\ DOMAIN live \cap DOMAIN free = {}
  /\ \A p \in pending : p.ptr \notin DOMAIN live \cup DOMAIN free
  /\ \A p, q \in pending : p.ptr = q.ptr => p = q
  /\ \A t \in Freeing :
       /\ call[t].ptr \notin DOMAIN live \cup DOMAIN free
       /\ \A p \in pending : p.ptr # call[t].ptr
       /\ \A u \in Freeing : call[u].ptr = call[t].ptr => u = t

(* cached_bytes_ is the size of the cached blocks.                         *)
CachedExact == cached = SumFunction(free)

(* An event guards one block at a time, and one that is free to be used    *)
(* again waits for nothing: recording it for a second block would let the  *)
(* first one be reused too early or too late.                              *)
EventsExclusive ==
  /\ \A p, q \in pending : p.event = q.event => p = q
  /\ \A p \in pending : p.event \in events \ reusable
  /\ \A t \in Freeing : call[t].at # "synchronize" /\ call[t].event # None =>
       /\ call[t].event \in events \ reusable
       /\ \A p \in pending : p.event # call[t].event
       /\ \A u \in Freeing :
            (call[u].at # "synchronize" /\ call[u].event = call[t].event) => u = t
  /\ \A e \in reusable : e \in events /\ before[e] = {}

Holding == {t \in Thread : call[t].at = "holds"}

(* The live blocks are those of the holders, one each; an event was        *)
(* recorded before it is queued; and nobody is inside a pool that is being *)
(* destroyed.                                                              *)
Attended ==
  /\ \A t \in Holding : call[t].ptr \in DOMAIN live
  /\ \A b \in DOMAIN live : \E t \in Holding : call[t].ptr = b
  /\ \A t, u \in Holding : call[t].ptr = call[u].ptr => t = u
  /\ \A t \in Thread : call[t].at = "recorded" => call[t].event # None
  /\ stop => \A t \in Thread : call[t].at = "out"
  /\ poller \in {"gone", "destroyed"} => stop

(* Work on a block is behind the block's event, or will be when the event  *)
(* is recorded; there is none on a cached block.                           *)
Guarded ==
  /\ failed => work = {} /\ \A e \in Event : before[e] = {}
  /\ \A w \in work : w[2] \in DOMAIN host \ DOMAIN free
  /\ \A p \in pending : \A w \in work : w[2] = p.ptr => w \in before[p.event]
  /\ \A t \in Freeing : \A w \in work : w[2] = call[t].ptr =>
       IF call[t].at = "recorded" THEN w \in before[call[t].event]
       ELSE w[1] = call[t].stream

(* What every step preserves.                                              *)
PoolInv ==
  /\ PoolTypeOK
  /\ OnePlace
  /\ EventsExclusive
  /\ Attended
  /\ Guarded

Reuse == INSTANCE GuardedReuse
           WITH mapped <- DOMAIN host,
                held   <- {call[t].ptr : t \in Holding},
                busy   <- {w[2] : w \in work}

(* The pool hands a block out again, or returns it to the system, only     *)
(* when the device has finished with it.                                   *)
ImplementsReuse == Reuse!Spec

(* Memory that a thread holds, or that the device works on, was not         *)
(* returned to the system: not by polling, not by the destructor.           *)
NoUseAfterFree == Reuse!NoUseAfterFree

(* After the destructor no memory and no event of the pool is left.        *)
DestroyedIsEmpty == poller = "destroyed" => host = [b \in {} |-> 0] /\ events = {}

(* A block given back with FreeAsync does not stay pending for ever, even  *)
(* if nobody allocates any more.                                           *)
PendingIsRecycled ==
  \A b \in Block : (\E p \in pending : p.ptr = b) ~> (\A p \in pending : p.ptr # b)

(* The destructor ends: the polling thread does not sleep through the stop *)
(* request, and no event is waited for in vain.                            *)
DestructorEnds == stop ~> poller = "destroyed"

=============================================================================
