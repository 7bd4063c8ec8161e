------------------------ MODULE DeferredFree_proofs ------------------------
(***************************************************************************)
(* Proofs about DeferredFree: each block and each event has one owner,     *)
(* unfinished work is behind the event of whoever will free its block, the *)
(* count of cached bytes is exact and within the limit, and the queue      *)
(* implements GuardedReuse, whose own promise is proved here too.          *)
(***************************************************************************)
EXTENDS DeferredFree, SumLemmas

-----------------------------------------------------------------------------
(* The inductive invariant: QueueInv in terms of single blocks, events and *)
(* threads                                                                 *)

(* The thread has a block.                                                 *)
Has(t) ==
  call[t].at \in {"holds", "leaving", "created", "recorded", "synchronize", "free"}

(* It is giving its block back.                                            *)
Frees(t) == call[t].at \in {"leaving", "created", "recorded", "synchronize", "free"}

(* It has an event for it.                                                 *)
Signals(t) == call[t].at \in {"created", "recorded"}

(* Each block is in one place.                                             *)
BlocksInd ==
  /\ \A b \in DOMAIN cache : b \in DOMAIN device
  /\ \A p \in pending : p.ptr \in DOMAIN device /\ p.ptr \notin DOMAIN cache
  /\ \A p, q \in pending : p.ptr = q.ptr => p = q
  /\ \A t \in Thread : Has(t) =>
       /\ call[t].ptr \in DOMAIN device /\ call[t].ptr \notin DOMAIN cache
       /\ \A p \in pending : p.ptr # call[t].ptr
       /\ \A u \in Thread : Has(u) /\ call[u].ptr = call[t].ptr => u = t

(* Each event guards one block.                                            *)
EventsInd ==
  /\ \A p \in pending : p.event \in events
  /\ \A p, q \in pending : p.event = q.event => p = q
  /\ \A t \in Thread : call[t].event # None <=> Signals(t)
  /\ \A t \in Thread : Signals(t) =>
       /\ call[t].event \in events
       /\ \A p \in pending : p.event # call[t].event
       /\ \A u \in Thread : Signals(u) /\ call[u].event = call[t].event => u = t
  /\ \A e \in events :
       \/ \E p \in pending : p.event = e
       \/ \E t \in Thread : Signals(t) /\ call[t].event = e

(* Work on a block is behind what its free will wait for.                  *)
WorkInd ==
  /\ failed => work = {} /\ \A e \in Event : before[e] = {}
  /\ \A w \in work : \/ \E p \in pending : p.ptr = w[2]
                     \/ \E t \in Thread : Has(t) /\ call[t].ptr = w[2]
  /\ \A w, x \in work : w[2] = x[2] => w = x
  /\ \A p \in pending : \A w \in work : w[2] = p.ptr => w \in before[p.event]
  /\ \A t \in Thread : \A w \in work : Frees(t) /\ w[2] = call[t].ptr =>
       IF call[t].at = "recorded" THEN w \in before[call[t].event]
       ELSE w[1] = call[t].stream

(* A block is at least as large as it is recorded.                         *)
SizeInd ==
  /\ \A b \in DOMAIN cache : cache[b] <= device[b]
  /\ \A p \in pending : p.bytes <= device[p.ptr]
  /\ \A t \in Thread : Has(t) => call[t].bytes <= device[call[t].ptr]

(* What every step preserves.                                              *)
QueueInd ==
  QueueTypeOK /\ BlocksInd /\ EventsInd /\ WorkInd /\ SizeInd /\ Teardown

(* It says no less than QueueInv.                                          *)
LEMMA IndIsInv == QueueInd => QueueInv
<1> SUFFICES ASSUME QueueInd PROVE QueueInv
  OBVIOUS
<1> USE DEF Holding, Freeing, HasBlock, Has, Frees, Signals
<1>1. OneOwner
  <2>1. /\ \A b \in DOMAIN cache : b \in DOMAIN device
        /\ \A p \in pending : p.ptr \in DOMAIN device
        /\ \A t \in HasBlock : call[t].ptr \in DOMAIN device
    BY DEF QueueInd, BlocksInd
  <2>2. DOMAIN cache \cup {p.ptr : p \in pending} \cup {call[t].ptr : t \in HasBlock}
          \subseteq DOMAIN device
    BY <2>1
  <2> QED
    BY <2>2 DEF QueueInd, BlocksInd, OneOwner
<1>2. EventsOwned
  <2>1. events = {p.event : p \in pending}
                   \cup {call[t].event : t \in {u \in Freeing : call[u].event # None}}
    BY DEF QueueInd, EventsInd
  <2>2. \A t \in Freeing : \A p \in pending : p.event # call[t].event
    BY QueueAssumption DEF QueueInd, EventsInd, QueueTypeOK, PendingFree
  <2> QED
    BY <2>1, <2>2 DEF QueueInd, EventsInd, EventsOwned
<1>3. WorkGuarded
  BY DEF QueueInd, WorkInd, WorkGuarded
<1>4. LargeEnough
  BY DEF QueueInd, SizeInd, LargeEnough
<1> QED
  BY <1>1, <1>2, <1>3, <1>4 DEF QueueInd, QueueInv

-----------------------------------------------------------------------------
(* Calls                                                                   *)

(* One call moves on, with these locals; the others stay.                  *)
Becomes(t, a, p, n, e, s) ==
  /\ call' \in [Thread -> Call]
  /\ \A u \in Thread \ {t} : call'[u] = call[u]
  /\ call'[t].at = a /\ call'[t].ptr = p /\ call'[t].bytes = n
  /\ call'[t].event = e /\ call'[t].stream = s

(* Rounded sizes are sizes.                                                *)
LEMMA RoundedNat == \A n \in Request : RoundSize(n) \in Nat
<1> SUFFICES ASSUME NEW n \in Request PROVE RoundSize(n) \in Nat
  OBVIOUS
<1>1. n \in Nat /\ Granule \in Nat /\ Granule > 0
  BY QueueAssumption
<1>2. (n + Granule - 1) \div Granule \in Nat
  BY <1>1
<1> QED
  BY <1>1, <1>2 DEF RoundSize

(* A thread outside the queue.                                             *)
LEMMA OutIsCall ==
  /\ Out \in Call
  /\ Out.at = "out" /\ Out.ptr = None /\ Out.bytes = 0 /\ Out.event = None /\ Out.stream = None
BY DEF Out, Call, Step

(* A call is given new locals.                                             *)
LEMMA CallUpdate ==
  ASSUME call \in [Thread -> Call], NEW t \in Thread, NEW c \in Call,
         call' = [call EXCEPT ![t] = c]
  PROVE  Becomes(t, c.at, c.ptr, c.bytes, c.event, c.stream)
BY DEF Becomes

(* What each action is to its call: every case of Becomes.                 *)
LEMMA CallSteps ==
  ASSUME QueueTypeOK, NEW t \in Thread
  PROVE  /\ \A n \in Request : AllocateMissed(t, n) =>
              Becomes(t, "malloc", None, RoundSize(n), None, None)
         /\ MallocFails(t) \/ MusaFree(t) \/ PushPending(t) =>
              Becomes(t, "out", None, 0, None, None)
         /\ \A s \in Stream \cup {None} : Free(t, s) =>
              Becomes(t, IF s = None THEN "free" ELSE "leaving", call[t].ptr, call[t].bytes,
                      call[t].event, s)
         /\ CreateEventFails(t) =>
              Becomes(t, "synchronize", call[t].ptr, call[t].bytes, call[t].event, call[t].stream)
         /\ RecordEvent(t) =>
              Becomes(t, "recorded", call[t].ptr, call[t].bytes, call[t].event, call[t].stream)
         /\ RecordEventFails(t) =>
              Becomes(t, "synchronize", call[t].ptr, call[t].bytes, None, call[t].stream)
         /\ Synchronize(t) =>
              Becomes(t, "free", call[t].ptr, call[t].bytes, call[t].event, call[t].stream)
<1> USE DEF QueueTypeOK, Becomes, Call, Step
<1>1. \A n \in Request : AllocateMissed(t, n) =>
        Becomes(t, "malloc", None, RoundSize(n), None, None)
  <2> SUFFICES ASSUME NEW n \in Request, AllocateMissed(t, n)
               PROVE  Becomes(t, "malloc", None, RoundSize(n), None, None)
    OBVIOUS
  <2>1. PICK r \in Nat : r = RoundSize(n)
    BY RoundedNat
  <2>2. call' = [call EXCEPT ![t] = [Out EXCEPT !.at = "malloc", !.bytes = r]]
    BY <2>1 DEF AllocateMissed
  <2>3. PICK c \in Call : c = [Out EXCEPT !.at = "malloc", !.bytes = r]
    BY OutIsCall
  <2>4. Becomes(t, c.at, c.ptr, c.bytes, c.event, c.stream)
    BY <2>2, <2>3, CallUpdate
  <2>5. c.at = "malloc" /\ c.ptr = None /\ c.bytes = r /\ c.event = None /\ c.stream = None
    BY <2>3, OutIsCall
  <2> QED
    BY <2>1, <2>4, <2>5
<1>2. MallocFails(t) \/ MusaFree(t) \/ PushPending(t) => Becomes(t, "out", None, 0, None, None)
  BY OutIsCall DEF MallocFails, MusaFree, PushPending
<1>3. \A s \in Stream \cup {None} : Free(t, s) =>
        Becomes(t, IF s = None THEN "free" ELSE "leaving", call[t].ptr, call[t].bytes,
                call[t].event, s)
  <2> SUFFICES ASSUME NEW s \in Stream \cup {None}, Free(t, s)
               PROVE  Becomes(t, IF s = None THEN "free" ELSE "leaving", call[t].ptr,
                              call[t].bytes, call[t].event, s)
    OBVIOUS
  <2>1. PICK a \in Step : a = IF s = None THEN "free" ELSE "leaving"
    OBVIOUS
  <2>2. call' = [call EXCEPT ![t].at = a, ![t].stream = s]
    BY <2>1 DEF Free
  <2>3. Becomes(t, a, call[t].ptr, call[t].bytes, call[t].event, s)
    BY <2>2
  <2> QED
    BY <2>1, <2>3
<1>4. /\ CreateEventFails(t) =>
           Becomes(t, "synchronize", call[t].ptr, call[t].bytes, call[t].event, call[t].stream)
      /\ RecordEvent(t) =>
           Becomes(t, "recorded", call[t].ptr, call[t].bytes, call[t].event, call[t].stream)
      /\ RecordEventFails(t) =>
           Becomes(t, "synchronize", call[t].ptr, call[t].bytes, None, call[t].stream)
      /\ Synchronize(t) =>
           Becomes(t, "free", call[t].ptr, call[t].bytes, call[t].event, call[t].stream)
  BY DEF CreateEventFails, RecordEvent, RecordEventFails, Synchronize
<1> QED
  BY <1>1, <1>2, <1>3, <1>4

-----------------------------------------------------------------------------
(* Allocate preserves the invariant                                        *)

(* A call without a block goes on without one.                             *)
LEMMA EmptyHandsSound ==
  ASSUME QueueInd, NEW t \in Thread,
         MallocFails(t) \/ \E n \in Request : AllocateMissed(t, n)
  PROVE  QueueInd'
<1>1. PICK a \in {"malloc", "out"}, n \in Nat : Becomes(t, a, None, n, None, None)
  BY CallSteps, RoundedNat DEF QueueInd
<1>2. /\ call[t].at \in {"out", "malloc"}
      /\ UNCHANGED <<device, cache, pending, events, worker, stop, work, before, failed>>
  BY DEF MallocFails, AllocateMissed, queueVars, gpuVars
<1>3. \A u \in Thread : /\ Has(u)' <=> Has(u)
                        /\ Frees(u)' <=> Frees(u)
                        /\ Signals(u)' <=> Signals(u)
                        /\ Has(u) => call'[u] = call[u]
  BY <1>1, <1>2 DEF Becomes, Has, Frees, Signals
<1>4. QueueTypeOK'
  BY <1>1, <1>2 DEF QueueInd, QueueTypeOK, Becomes
<1>5. BlocksInd'
  BY <1>2, <1>3 DEF QueueInd, BlocksInd
<1>6. EventsInd'
  <2>1. \A u \in Thread : (call'[u].event # None <=> Signals(u)')
    BY <1>1, <1>2, <1>3 DEF QueueInd, EventsInd, Becomes, Signals
  <2>2. \A u \in Thread : Signals(u) => call'[u] = call[u]
    BY <1>3 DEF Has, Signals
  <2> QED
    BY <1>2, <1>3, <2>1, <2>2 DEF QueueInd, EventsInd
<1>7. WorkInd'
  <2>1. \A u \in Thread : Frees(u) => Has(u)
    BY DEF Frees, Has
  <2> QED
    BY <1>2, <1>3, <2>1 DEF QueueInd, WorkInd
<1>8. SizeInd'
  BY <1>2, <1>3 DEF QueueInd, SizeInd
<1>9. Teardown'
  BY <1>2 DEF QueueInd, Teardown
<1> QED
  BY <1>4, <1>5, <1>6, <1>7, <1>8, <1>9 DEF QueueInd

(* A block from the cache is large enough, and nobody else's.              *)
LEMMA AllocateCachedSound ==
  ASSUME QueueInd, NEW t \in Thread, NEW n \in Request, AllocateCached(t, n)
  PROVE  QueueInd'
<1>1. PICK r \in Nat : r = RoundSize(n)
  BY RoundedNat
<1>2. PICK b \in Fits(r) :
        /\ cache' = Without(cache, {b})
        /\ call' = [call EXCEPT ![t] = [Out EXCEPT !.at = "holds", !.ptr = b, !.bytes = r]]
  BY <1>1 DEF AllocateCached
<1>3. b \in DOMAIN cache /\ cache[b] >= r
  BY DEF Fits
<1>4. b \in Block /\ b \in DOMAIN device /\ cache[b] \in Nat /\ device[b] \in Nat /\ r <= device[b]
  BY <1>3 DEF QueueInd, QueueTypeOK, PartialFunction, BlocksInd, SizeInd
<1>5. Becomes(t, "holds", b, r, None, None)
  <2>1. PICK c \in Call : c = [Out EXCEPT !.at = "holds", !.ptr = b, !.bytes = r]
    BY <1>4, OutIsCall DEF Call, Step
  <2>2. Becomes(t, c.at, c.ptr, c.bytes, c.event, c.stream)
    BY <1>2, <2>1, CallUpdate DEF QueueInd, QueueTypeOK
  <2>3. c.at = "holds" /\ c.ptr = b /\ c.bytes = r /\ c.event = None /\ c.stream = None
    BY <2>1, OutIsCall DEF Call
  <2> QED
    BY <2>2, <2>3
<1>6. /\ call[t].at = "out"
      /\ UNCHANGED <<device, pending, events, worker, stop, work, before, failed>>
  BY DEF AllocateCached, gpuVars
<1>7. /\ DOMAIN cache' = DOMAIN cache \ {b}
      /\ \A c \in DOMAIN cache' : cache'[c] = cache[c]
  BY <1>2 DEF Without, Restrict
<1>8. /\ \A u \in Thread \ {t} : call'[u] = call[u]
      /\ call'[t].at = "holds" /\ call'[t].ptr = b /\ call'[t].bytes = r /\ call'[t].event = None
      /\ ~Has(t) /\ ~Frees(t) /\ ~Signals(t)
  BY <1>5, <1>6 DEF Becomes, Has, Frees, Signals
<1>9. QueueTypeOK'
  BY <1>5, <1>6, <1>7 DEF QueueInd, QueueTypeOK, PartialFunction, Becomes
<1>10. BlocksInd'
  <2>1. \A u \in Thread : Has(u)' <=> Has(u) \/ u = t
    BY <1>8 DEF Has
  <2> QED
    BY <1>3, <1>4, <1>6, <1>7, <1>8, <2>1 DEF QueueInd, BlocksInd
<1>11. EventsInd'
  <2>1. \A u \in Thread : Signals(u)' <=> Signals(u)
    BY <1>8 DEF Signals
  <2> QED
    BY <1>6, <1>8, <2>1 DEF QueueInd, EventsInd
<1>12. WorkInd'
  <2>1. \A u \in Thread : /\ Has(u)' <=> Has(u) \/ u = t
                          /\ Frees(u)' <=> Frees(u)
    BY <1>8 DEF Has, Frees
  <2> QED
    BY <1>6, <1>8, <2>1 DEF QueueInd, WorkInd
<1>13. SizeInd'
  <2>1. \A u \in Thread : Has(u)' <=> Has(u) \/ u = t
    BY <1>8 DEF Has
  <2> QED
    BY <1>4, <1>6, <1>7, <1>8, <2>1 DEF QueueInd, SizeInd
<1>14. Teardown'
  <2>1. worker # "destroyed"
    BY <1>3 DEF QueueInd, Teardown
  <2> QED
    BY <1>6, <2>1 DEF QueueInd, Teardown
<1> QED
  BY <1>9, <1>10, <1>11, <1>12, <1>13, <1>14 DEF QueueInd

(* A new block is nobody's yet.                                            *)
LEMMA MallocSound ==
  ASSUME QueueInd, NEW t \in Thread, Malloc(t)
  PROVE  QueueInd'
<1>1. PICK b \in Block \ DOMAIN device :
        /\ device' = Put(device, b, call[t].bytes)
        /\ call' = [call EXCEPT ![t].at = "holds", ![t].ptr = b]
  BY DEF Malloc
<1>2. /\ call[t].at = "malloc"
      /\ UNCHANGED <<cache, pending, events, worker, stop, work, before, failed>>
  BY DEF Malloc, queueVars, gpuVars
<1>3. PICK r \in Nat : r = call[t].bytes
  BY DEF QueueInd, QueueTypeOK, Call
<1>4. Becomes(t, "holds", b, r, call[t].event, call[t].stream)
  BY <1>1, <1>3 DEF QueueInd, QueueTypeOK, Becomes, Call, Step
<1>5. /\ DOMAIN device' = DOMAIN device \cup {b} /\ device'[b] = r
      /\ \A c \in DOMAIN device : device'[c] = device[c]
  BY <1>1, <1>3 DEF Put
<1>6. /\ \A u \in Thread \ {t} : call'[u] = call[u]
      /\ call'[t].at = "holds" /\ call'[t].ptr = b /\ call'[t].bytes = r
      /\ call'[t].event = call[t].event
      /\ ~Has(t) /\ ~Frees(t) /\ ~Signals(t)
  BY <1>2, <1>4 DEF Becomes, Has, Frees, Signals
<1>7. \A u \in Thread : /\ Has(u)' <=> Has(u) \/ u = t
                        /\ Frees(u)' <=> Frees(u)
                        /\ Signals(u)' <=> Signals(u)
  BY <1>6 DEF Has, Frees, Signals
<1>8. QueueTypeOK'
  BY <1>2, <1>4, <1>5 DEF QueueInd, QueueTypeOK, PartialFunction, Becomes
<1>9. BlocksInd'
  <2>1. b \notin DOMAIN device
    OBVIOUS
  <2>2. \A u \in Thread : Has(u)' => \/ Has(u) /\ u # t /\ call'[u] = call[u]
                                     \/ u = t /\ call'[u].ptr = b
    BY <1>6, <1>7
  <2>3. b \notin DOMAIN cache /\ \A p \in pending : p.ptr # b
    BY <2>1 DEF QueueInd, BlocksInd
  <2>4. \A u \in Thread : Has(u) => call[u].ptr # b
    BY <2>1 DEF QueueInd, BlocksInd
  <2> QED
    BY <1>2, <1>5, <2>2, <2>3, <2>4 DEF QueueInd, BlocksInd
<1>10. EventsInd'
  <2>1. \A u \in Thread : call'[u].event = call[u].event
    BY <1>6
  <2> QED
    BY <1>2, <1>7, <2>1 DEF QueueInd, EventsInd
<1>11. WorkInd'
  BY <1>2, <1>6, <1>7 DEF QueueInd, WorkInd
<1>12. SizeInd'
  <2>1. \A u \in Thread : Has(u)' => \/ Has(u) /\ call'[u] = call[u]
                                     \/ call'[u].ptr = b /\ call'[u].bytes = r
    BY <1>6, <1>7
  <2> QED
    BY <1>2, <1>5, <2>1 DEF QueueInd, BlocksInd, SizeInd
<1>13. Teardown'
  BY <1>2 DEF QueueInd, Teardown
<1> QED
  BY <1>8, <1>9, <1>10, <1>11, <1>12, <1>13 DEF QueueInd

-----------------------------------------------------------------------------
(* Free preserves the invariant                                            *)

(* A call goes on with its block and without an event, on the stream that  *)
(* the work on the block is on.                                            *)
LEMMA KeepsBlockSound ==
  ASSUME QueueInd, NEW t \in Thread, NEW a \in {"leaving", "synchronize", "free"},
         NEW s \in Stream \cup {None}, Has(t), call[t].event = None,
         Becomes(t, a, call[t].ptr, call[t].bytes, None, s),
         \A w \in work : w[2] = call[t].ptr => w[1] = s,
         UNCHANGED <<device, cache, pending, events, worker, stop, work, before, failed>>
  PROVE  QueueInd'
<1>1. /\ \A u \in Thread \ {t} : call'[u] = call[u]
      /\ call'[t].at = a /\ call'[t].stream = s
      /\ \A u \in Thread : /\ call'[u].ptr = call[u].ptr
                           /\ call'[u].bytes = call[u].bytes
                           /\ call'[u].event = call[u].event
  BY DEF Becomes
<1>2. ~Signals(t)
  BY DEF QueueInd, EventsInd
<1>3. \A u \in Thread : /\ Has(u)' <=> Has(u)
                        /\ Frees(u)' <=> Frees(u) \/ u = t
                        /\ Signals(u)' <=> Signals(u)
  BY <1>1, <1>2 DEF Has, Frees, Signals
<1>4. QueueTypeOK'
  BY DEF QueueInd, QueueTypeOK, Becomes
<1>5. BlocksInd'
  BY <1>1, <1>3 DEF QueueInd, BlocksInd
<1>6. EventsInd'
  BY <1>1, <1>3 DEF QueueInd, EventsInd
<1>7. WorkInd'
  <2>1. \A u \in Thread : \A w \in work : Frees(u)' /\ w[2] = call'[u].ptr =>
          IF call'[u].at = "recorded" THEN w \in before[call'[u].event]
          ELSE w[1] = call'[u].stream
    <3> SUFFICES ASSUME NEW u \in Thread, NEW w \in work, Frees(u)', w[2] = call'[u].ptr
                 PROVE  IF call'[u].at = "recorded" THEN w \in before[call'[u].event]
                        ELSE w[1] = call'[u].stream
      OBVIOUS
    <3>1. CASE u = t
      BY <1>1, <3>1
    <3>2. CASE u # t
      BY <1>1, <1>3, <3>2 DEF QueueInd, WorkInd
    <3> QED
      BY <3>1, <3>2
  <2> QED
    BY <1>1, <1>3, <2>1 DEF QueueInd, WorkInd
<1>8. SizeInd'
  BY <1>1, <1>3 DEF QueueInd, SizeInd
<1>9. Teardown'
  BY DEF QueueInd, Teardown
<1> QED
  BY <1>4, <1>5, <1>6, <1>7, <1>8, <1>9 DEF QueueInd

(* Free begins, does without an event, or has waited for the stream.       *)
LEMMA FreeSound ==
  ASSUME QueueInd, NEW t \in Thread,
         \/ \E s \in Stream \cup {None} : Free(t, s)
         \/ CreateEventFails(t) \/ Synchronize(t)
  PROVE  QueueInd'
<1>1. UNCHANGED <<device, cache, pending, events, worker, stop, work, before, failed>>
  BY DEF Free, CreateEventFails, Synchronize, queueVars, gpuVars
<1>2. call[t].at \in {"holds", "leaving", "synchronize"}
  BY DEF Free, CreateEventFails, Synchronize
<1>3. Has(t) /\ call[t].event = None
  BY <1>2 DEF Has, Signals, QueueInd, EventsInd
<1>4. PICK s \in Stream \cup {None}, a \in {"leaving", "synchronize", "free"} :
        /\ Becomes(t, a, call[t].ptr, call[t].bytes, None, s)
        /\ \A w \in work : w[2] = call[t].ptr => w[1] = s
  <2>1. CASE \E s \in Stream \cup {None} : Free(t, s)
    BY <1>3, <2>1, CallSteps DEF QueueInd, Free
  <2>2. CASE CreateEventFails(t) \/ Synchronize(t)
    <3>1. \A w \in work : w[2] = call[t].ptr => w[1] = call[t].stream
      BY <2>2 DEF CreateEventFails, Synchronize, Frees, QueueInd, WorkInd
    <3>2. call[t].stream \in Stream \cup {None}
      BY DEF QueueInd, QueueTypeOK, Call
    <3> QED
      BY <1>3, <2>2, <3>1, <3>2, CallSteps DEF QueueInd
  <2> QED
    BY <2>1, <2>2
<1> QED
  BY <1>1, <1>3, <1>4, KeepsBlockSound

(* The new event is the caller's alone.                                    *)
LEMMA CreateEventSound ==
  ASSUME QueueInd, NEW t \in Thread, CreateEvent(t)
  PROVE  QueueInd'
<1>1. PICK e \in Event \ events :
        /\ events' = events \cup {e}
        /\ call' = [call EXCEPT ![t].at = "created", ![t].event = e]
  BY DEF CreateEvent
<1>2. e \notin events /\ e # None
  BY QueueAssumption
<1>3. /\ call[t].at = "leaving"
      /\ UNCHANGED <<device, cache, pending, worker, stop, work, before, failed>>
  BY DEF CreateEvent, queueVars, gpuVars
<1>4. Becomes(t, "created", call[t].ptr, call[t].bytes, e, call[t].stream)
  BY <1>1 DEF QueueInd, QueueTypeOK, Becomes, Call, Step
<1>5. /\ \A u \in Thread \ {t} : call'[u] = call[u]
      /\ call'[t].at = "created" /\ call'[t].event = e
      /\ \A u \in Thread : /\ call'[u].ptr = call[u].ptr
                           /\ call'[u].bytes = call[u].bytes
                           /\ call'[u].stream = call[u].stream
  BY <1>4 DEF Becomes
<1>6. \A u \in Thread : /\ Has(u)' <=> Has(u)
                        /\ Frees(u)' <=> Frees(u)
                        /\ Signals(u)' <=> Signals(u) \/ u = t
  BY <1>3, <1>5 DEF Has, Frees, Signals
<1>7. QueueTypeOK'
  BY <1>1, <1>3, <1>4 DEF QueueInd, QueueTypeOK, Becomes
<1>8. BlocksInd'
  BY <1>3, <1>5, <1>6 DEF QueueInd, BlocksInd
<1>9. EventsInd'
  <2>1. \A u \in Thread : Signals(u)' => \/ Signals(u) /\ u # t /\ call'[u].event = call[u].event
                                         \/ u = t /\ call'[u].event = e
    BY <1>5, <1>6
  <2>2. \A u \in Thread : Signals(u) => call[u].event # e /\ u # t /\ call'[u].event = call[u].event
    BY <1>2, <1>3, <1>5 DEF QueueInd, EventsInd, Signals
  <2>3. \A u \in Thread : call'[u].event # None <=> Signals(u)'
    BY <1>2, <1>5, <1>6 DEF QueueInd, EventsInd
  <2>4. \A p \in pending : p.event # e
    BY <1>2 DEF QueueInd, EventsInd
  <2>5. events' = events \cup {e}
    BY <1>1
  <2>6. Signals(t)' /\ call'[t].event = e
    BY <1>5, <1>6
  <2>7. \A u \in Thread : Signals(u)' =>
          /\ call'[u].event \in events'
          /\ \A p \in pending : p.event # call'[u].event
          /\ \A v \in Thread : Signals(v)' /\ call'[v].event = call'[u].event => v = u
    BY <2>1, <2>2, <2>4, <2>5 DEF QueueInd, EventsInd
  <2>8. \A f \in events' : \/ \E p \in pending : p.event = f
                           \/ \E u \in Thread : Signals(u)' /\ call'[u].event = f
    BY <1>6, <2>2, <2>5, <2>6 DEF QueueInd, EventsInd
  <2>9. \A p \in pending : p.event \in events'
    BY <2>5 DEF QueueInd, EventsInd
  <2> QED
    BY <1>3, <2>3, <2>7, <2>8, <2>9 DEF QueueInd, EventsInd
<1>10. WorkInd'
  <2>1. \A u \in Thread : \A w \in work : Frees(u)' /\ w[2] = call'[u].ptr =>
          IF call'[u].at = "recorded" THEN w \in before[call'[u].event]
          ELSE w[1] = call'[u].stream
    <3> SUFFICES ASSUME NEW u \in Thread, NEW w \in work, Frees(u)', w[2] = call'[u].ptr
                 PROVE  IF call'[u].at = "recorded" THEN w \in before[call'[u].event]
                        ELSE w[1] = call'[u].stream
      OBVIOUS
    <3>1. CASE u = t
      BY <1>3, <1>5, <1>6, <3>1 DEF QueueInd, WorkInd
    <3>2. CASE u # t
      BY <1>5, <1>6, <3>2 DEF QueueInd, WorkInd
    <3> QED
      BY <3>1, <3>2
  <2> QED
    BY <1>3, <1>5, <1>6, <2>1 DEF QueueInd, WorkInd
<1>11. SizeInd'
  BY <1>3, <1>5, <1>6 DEF QueueInd, SizeInd
<1>12. Teardown'
  BY <1>3 DEF QueueInd, Teardown
<1> QED
  BY <1>7, <1>8, <1>9, <1>10, <1>11, <1>12 DEF QueueInd

(* The record puts the event behind the work on the block.                 *)
LEMMA RecordEventSound ==
  ASSUME QueueInd, NEW t \in Thread, RecordEvent(t)
  PROVE  QueueInd'
<1>1. /\ call[t].at = "created"
      /\ UNCHANGED <<device, cache, pending, events, worker, stop, work, failed>>
  BY DEF RecordEvent, queueVars
<1>2. PICK e \in Event, s \in Stream \cup {None} : e = call[t].event /\ s = call[t].stream
  BY <1>1 DEF QueueInd, QueueTypeOK, EventsInd, Signals, Call
<1>3. before' = [before EXCEPT ![e] = {w \in work : w[1] = s}]
  BY <1>2 DEF RecordEvent
<1>4. Becomes(t, "recorded", call[t].ptr, call[t].bytes, e, s)
  BY <1>2, CallSteps DEF QueueInd
<1>5. /\ \A u \in Thread \ {t} : call'[u] = call[u]
      /\ call'[t].at = "recorded"
      /\ \A u \in Thread : /\ call'[u].ptr = call[u].ptr
                           /\ call'[u].bytes = call[u].bytes
                           /\ call'[u].event = call[u].event
                           /\ call'[u].stream = call[u].stream
  BY <1>2, <1>4 DEF Becomes
<1>6. \A u \in Thread : /\ Has(u)' <=> Has(u)
                        /\ Frees(u)' <=> Frees(u)
                        /\ Signals(u)' <=> Signals(u)
  BY <1>1, <1>5 DEF Has, Frees, Signals
<1>7. /\ \A w \in work : w[1] = s => w \in before'[e]
      /\ \A f \in Event \ {e} : before'[f] = before[f]
      /\ before' \in [Event -> SUBSET ((Stream \cup {None}) \X Block)]
  BY <1>3 DEF QueueInd, QueueTypeOK
<1>8. QueueTypeOK'
  BY <1>1, <1>4, <1>7 DEF QueueInd, QueueTypeOK, Becomes
<1>9. BlocksInd'
  BY <1>1, <1>5, <1>6 DEF QueueInd, BlocksInd
<1>10. EventsInd'
  BY <1>1, <1>5, <1>6 DEF QueueInd, EventsInd
<1>11. WorkInd'
  <2>1. ~failed
    BY DEF RecordEvent
  <2>2. \A p \in pending : \A w \in work : w[2] = p.ptr => w \in before'[p.event]
    <3>1. \A p \in pending : p.event \in Event \ {e}
      BY <1>1, <1>2 DEF QueueInd, QueueTypeOK, PendingFree, EventsInd, Signals
    <3> QED
      BY <1>7, <3>1 DEF QueueInd, WorkInd
  <2>3. \A u \in Thread : \A w \in work : Frees(u)' /\ w[2] = call'[u].ptr =>
          IF call'[u].at = "recorded" THEN w \in before'[call'[u].event]
          ELSE w[1] = call'[u].stream
    <3> SUFFICES ASSUME NEW u \in Thread, NEW w \in work, Frees(u)', w[2] = call'[u].ptr
                 PROVE  IF call'[u].at = "recorded" THEN w \in before'[call'[u].event]
                        ELSE w[1] = call'[u].stream
      OBVIOUS
    <3>0. Frees(u) /\ w[2] = call[u].ptr
      BY <1>5, <1>6
    <3>1. CASE u = t
      <4>1. w[1] = s
        BY <1>1, <1>2, <3>0, <3>1 DEF QueueInd, WorkInd
      <4> QED
        BY <1>2, <1>5, <1>7, <3>1, <4>1
    <3>2. CASE u # t /\ call[u].at = "recorded"
      <4>1. call[u].event # e /\ call[u].event \in Event
        BY <1>1, <1>2, <3>2 DEF QueueInd, QueueTypeOK, EventsInd, Signals
      <4>2. w \in before[call[u].event]
        BY <3>0, <3>2 DEF QueueInd, WorkInd
      <4> QED
        BY <1>5, <1>7, <3>2, <4>1, <4>2
    <3>3. CASE u # t /\ call[u].at # "recorded"
      BY <1>5, <3>0, <3>3 DEF QueueInd, WorkInd
    <3> QED
      BY <3>1, <3>2, <3>3
  <2> QED
    BY <1>1, <1>5, <1>6, <2>1, <2>2, <2>3 DEF QueueInd, WorkInd
<1>12. SizeInd'
  BY <1>1, <1>5, <1>6 DEF QueueInd, SizeInd
<1>13. Teardown'
  BY <1>1 DEF QueueInd, Teardown
<1> QED
  BY <1>8, <1>9, <1>10, <1>11, <1>12, <1>13 DEF QueueInd

(* The event of a failed record is destroyed, and nobody else's.           *)
LEMMA RecordEventFailsSound ==
  ASSUME QueueInd, NEW t \in Thread, RecordEventFails(t)
  PROVE  QueueInd'
<1>1. /\ call[t].at = "created"
      /\ UNCHANGED <<device, cache, pending, worker, stop, work, before, failed>>
  BY DEF RecordEventFails, queueVars, gpuVars
<1>2. PICK e \in Event : e = call[t].event
  BY <1>1 DEF QueueInd, QueueTypeOK, EventsInd, Signals, Call
<1>3. events' = events \ {e}
  BY <1>2 DEF RecordEventFails
<1>4. Becomes(t, "synchronize", call[t].ptr, call[t].bytes, None, call[t].stream)
  BY CallSteps DEF QueueInd
<1>5. /\ \A u \in Thread \ {t} : call'[u] = call[u]
      /\ call'[t].at = "synchronize" /\ call'[t].event = None
      /\ \A u \in Thread : /\ call'[u].ptr = call[u].ptr
                           /\ call'[u].bytes = call[u].bytes
                           /\ call'[u].stream = call[u].stream
  BY <1>4 DEF Becomes
<1>6. \A u \in Thread : /\ Has(u)' <=> Has(u)
                        /\ Frees(u)' <=> Frees(u)
                        /\ Signals(u)' <=> Signals(u) /\ u # t
  BY <1>1, <1>5 DEF Has, Frees, Signals
<1>7. QueueTypeOK'
  BY <1>1, <1>3, <1>4 DEF QueueInd, QueueTypeOK, Becomes
<1>8. BlocksInd'
  BY <1>1, <1>5, <1>6 DEF QueueInd, BlocksInd
<1>9. EventsInd'
  <2>1. \A u \in Thread : Signals(u)' =>
          Signals(u) /\ call'[u].event = call[u].event /\ call[u].event # e
    BY <1>1, <1>2, <1>5, <1>6 DEF QueueInd, EventsInd, Signals
  <2>2. \A p \in pending : p.event # e
    BY <1>1, <1>2 DEF QueueInd, EventsInd, Signals
  <2>3. \A u \in Thread : call'[u].event # None <=> Signals(u)'
    BY <1>5, <1>6 DEF QueueInd, EventsInd
  <2>4. \A f \in events' : \/ \E p \in pending : p.event = f
                           \/ \E u \in Thread : Signals(u)' /\ call'[u].event = f
    BY <1>2, <1>3, <1>5, <1>6 DEF QueueInd, EventsInd
  <2>5. \A p \in pending : p.event \in events'
    BY <1>3, <2>2 DEF QueueInd, EventsInd
  <2>6. \A u \in Thread : Signals(u)' =>
          /\ call'[u].event \in events'
          /\ \A p \in pending : p.event # call'[u].event
          /\ \A v \in Thread : Signals(v)' /\ call'[v].event = call'[u].event => v = u
    BY <1>3, <2>1 DEF QueueInd, EventsInd
  <2> QED
    BY <1>1, <2>3, <2>4, <2>5, <2>6 DEF QueueInd, EventsInd
<1>10. WorkInd'
  <2>1. \A u \in Thread : \A w \in work : Frees(u)' /\ w[2] = call'[u].ptr =>
          IF call'[u].at = "recorded" THEN w \in before[call'[u].event]
          ELSE w[1] = call'[u].stream
    <3> SUFFICES ASSUME NEW u \in Thread, NEW w \in work, Frees(u)', w[2] = call'[u].ptr
                 PROVE  IF call'[u].at = "recorded" THEN w \in before[call'[u].event]
                        ELSE w[1] = call'[u].stream
      OBVIOUS
    <3>1. CASE u = t
      BY <1>1, <1>5, <1>6, <3>1 DEF QueueInd, WorkInd
    <3>2. CASE u # t
      BY <1>5, <1>6, <3>2 DEF QueueInd, WorkInd
    <3> QED
      BY <3>1, <3>2
  <2> QED
    BY <1>1, <1>5, <1>6, <2>1 DEF QueueInd, WorkInd
<1>11. SizeInd'
  BY <1>1, <1>5, <1>6 DEF QueueInd, SizeInd
<1>12. Teardown'
  BY <1>1 DEF QueueInd, Teardown
<1> QED
  BY <1>7, <1>8, <1>9, <1>10, <1>11, <1>12 DEF QueueInd

(* The caller returns its block to the device.                             *)
LEMMA MusaFreeSound ==
  ASSUME QueueInd, NEW t \in Thread, MusaFree(t)
  PROVE  QueueInd'
<1>1. /\ call[t].at = "free" /\ \A w \in work : w[2] # call[t].ptr
      /\ UNCHANGED <<cache, pending, events, worker, stop, work, before, failed>>
  BY DEF MusaFree, queueVars, gpuVars
<1>2. Has(t) /\ Frees(t) /\ ~Signals(t)
  BY <1>1 DEF Has, Frees, Signals
<1>3. PICK b \in Block : b = call[t].ptr
  BY <1>2 DEF QueueInd, QueueTypeOK, PartialFunction, BlocksInd
<1>4. device' = Without(device, {b})
  BY <1>3 DEF MusaFree
<1>5. /\ DOMAIN device' = DOMAIN device \ {b}
      /\ \A c \in DOMAIN device' : device'[c] = device[c]
  BY <1>4 DEF Without, Restrict
<1>6. Becomes(t, "out", None, 0, None, None)
  BY CallSteps DEF QueueInd
<1>7. /\ \A u \in Thread \ {t} : call'[u] = call[u]
      /\ call'[t].at = "out" /\ call'[t].event = None
      /\ \A u \in Thread : call'[u].event = call[u].event
  BY <1>2, <1>6 DEF Becomes, QueueInd, EventsInd
<1>8. \A u \in Thread : /\ Has(u)' <=> Has(u) /\ u # t
                        /\ Frees(u)' <=> Frees(u) /\ u # t
                        /\ Signals(u)' <=> Signals(u)
  BY <1>2, <1>7 DEF Has, Frees, Signals
<1>9. /\ b \notin DOMAIN cache
      /\ \A p \in pending : p.ptr # b
      /\ \A u \in Thread : Has(u) /\ u # t => call[u].ptr # b
  BY <1>2, <1>3 DEF QueueInd, BlocksInd
<1>10. QueueTypeOK'
  BY <1>1, <1>5, <1>6 DEF QueueInd, QueueTypeOK, PartialFunction, Becomes
<1>11. BlocksInd'
  BY <1>1, <1>5, <1>7, <1>8, <1>9 DEF QueueInd, BlocksInd
<1>12. EventsInd'
  BY <1>1, <1>7, <1>8 DEF QueueInd, EventsInd
<1>13. WorkInd'
  <2>1. \A u \in Thread : Has(u)' => call'[u] = call[u]
    BY <1>7, <1>8
  <2>2. \A u \in Thread : Frees(u)' => call'[u] = call[u]
    BY <1>7, <1>8
  <2>3. \A w \in work : \/ \E p \in pending : p.ptr = w[2]
                        \/ \E u \in Thread : Has(u)' /\ call'[u].ptr = w[2]
    BY <1>1, <1>7, <1>8 DEF QueueInd, WorkInd
  <2> QED
    BY <1>1, <1>8, <2>2, <2>3 DEF QueueInd, WorkInd
<1>14. SizeInd'
  <2>1. \A c \in DOMAIN cache : c \in DOMAIN device'
    BY <1>5, <1>9 DEF QueueInd, BlocksInd
  <2>2. \A p \in pending : p.ptr \in DOMAIN device'
    BY <1>5, <1>9 DEF QueueInd, BlocksInd
  <2>3. \A u \in Thread : Has(u)' =>
          Has(u) /\ call'[u] = call[u] /\ call[u].ptr \in DOMAIN device'
    BY <1>5, <1>7, <1>8, <1>9 DEF QueueInd, BlocksInd
  <2> QED
    BY <1>1, <1>5, <2>1, <2>2, <2>3 DEF QueueInd, SizeInd
<1>15. Teardown'
  BY <1>1 DEF QueueInd, Teardown
<1> QED
  BY <1>10, <1>11, <1>12, <1>13, <1>14, <1>15 DEF QueueInd

(* The block is pending behind its event: both change hands at once.       *)
LEMMA PushPendingSound ==
  ASSUME QueueInd, NEW t \in Thread, PushPending(t)
  PROVE  QueueInd'
<1>1. /\ call[t].at = "recorded"
      /\ UNCHANGED <<device, cache, events, stop, work, before, failed>>
  BY DEF PushPending, gpuVars
<1>2. Has(t) /\ Frees(t) /\ Signals(t)
  BY <1>1 DEF Has, Frees, Signals
<1>3. PICK b \in Block, e \in Event, n \in Nat :
        b = call[t].ptr /\ e = call[t].event /\ n = call[t].bytes
  BY <1>2 DEF QueueInd, QueueTypeOK, PartialFunction, BlocksInd, EventsInd, Call
<1>4. PICK q \in PendingFree : q.ptr = b /\ q.event = e /\ q.bytes = n
                               /\ q = [ptr |-> b, event |-> e, bytes |-> n]
  BY DEF PendingFree
<1>5. pending' = pending \cup {q}
  BY <1>3, <1>4 DEF PushPending
<1>6. Becomes(t, "out", None, 0, None, None)
  BY CallSteps DEF QueueInd
<1>7. /\ \A u \in Thread \ {t} : call'[u] = call[u]
      /\ call'[t].at = "out" /\ call'[t].event = None
  BY <1>6 DEF Becomes
<1>8. /\ \A u \in Thread : /\ Has(u)' <=> Has(u) /\ u # t
                           /\ Frees(u)' <=> Frees(u) /\ u # t
                           /\ Signals(u)' <=> Signals(u) /\ u # t
      /\ \A u \in Thread : Has(u)' \/ Frees(u)' \/ Signals(u)' => call'[u] = call[u]
  BY <1>2, <1>7 DEF Has, Frees, Signals
<1>9. /\ b \in DOMAIN device /\ b \notin DOMAIN cache
      /\ \A p \in pending : p.ptr # b
      /\ \A u \in Thread : Has(u) /\ u # t => call[u].ptr # b
  BY <1>2, <1>3 DEF QueueInd, BlocksInd
<1>10. /\ e \in events
       /\ \A p \in pending : p.event # e
       /\ \A u \in Thread : Signals(u) /\ u # t => call[u].event # e
  BY <1>2, <1>3 DEF QueueInd, EventsInd
<1>11. \A p \in pending' : p \in pending \/ p = q
  BY <1>5
<1>12. worker' \in Worker /\ (worker' \in {"gone", "draining", "destroyed"} => worker' = worker)
  BY DEF PushPending, Notified, Worker, QueueInd, QueueTypeOK
<1>13. QueueTypeOK'
  BY <1>1, <1>4, <1>5, <1>6, <1>12 DEF QueueInd, QueueTypeOK, Becomes
<1>14. BlocksInd'
  <2>1. \A p \in pending' : p.ptr \in DOMAIN device /\ p.ptr \notin DOMAIN cache
    BY <1>4, <1>9, <1>11 DEF QueueInd, BlocksInd
  <2>2. \A p, r \in pending' : p.ptr = r.ptr => p = r
    BY <1>4, <1>9, <1>11 DEF QueueInd, BlocksInd
  <2>3. \A u \in Thread : Has(u)' =>
          /\ call'[u].ptr \in DOMAIN device /\ call'[u].ptr \notin DOMAIN cache
          /\ \A p \in pending' : p.ptr # call'[u].ptr
          /\ \A v \in Thread : Has(v)' /\ call'[v].ptr = call'[u].ptr => v = u
    BY <1>4, <1>8, <1>9, <1>11 DEF QueueInd, BlocksInd
  <2> QED
    BY <1>1, <2>1, <2>2, <2>3 DEF QueueInd, BlocksInd
<1>15. EventsInd'
  <2>1. \A p \in pending' : p.event \in events
    BY <1>4, <1>10, <1>11 DEF QueueInd, EventsInd
  <2>2. \A p, r \in pending' : p.event = r.event => p = r
    BY <1>4, <1>10, <1>11 DEF QueueInd, EventsInd
  <2>3. \A u \in Thread : Signals(u)' =>
          /\ call'[u].event \in events
          /\ \A p \in pending' : p.event # call'[u].event
          /\ \A v \in Thread : Signals(v)' /\ call'[v].event = call'[u].event => v = u
    BY <1>4, <1>8, <1>10, <1>11 DEF QueueInd, EventsInd
  <2>4. \A u \in Thread : call'[u].event # None <=> Signals(u)'
    BY <1>7, <1>8 DEF QueueInd, EventsInd
  <2>5. \A f \in events : \/ \E p \in pending' : p.event = f
                          \/ \E u \in Thread : Signals(u)' /\ call'[u].event = f
    BY <1>3, <1>4, <1>5, <1>8 DEF QueueInd, EventsInd
  <2> QED
    BY <1>1, <2>1, <2>2, <2>3, <2>4, <2>5 DEF EventsInd
<1>16. WorkInd'
  <2>1. \A w \in work : \/ \E p \in pending' : p.ptr = w[2]
                        \/ \E u \in Thread : Has(u)' /\ call'[u].ptr = w[2]
    BY <1>3, <1>4, <1>5, <1>8 DEF QueueInd, WorkInd
  <2>2. \A w \in work : w[2] = q.ptr => w \in before[q.event]
    BY <1>1, <1>2, <1>3, <1>4 DEF QueueInd, WorkInd
  <2>3. \A p \in pending' : \A w \in work : w[2] = p.ptr => w \in before[p.event]
    BY <1>11, <2>2 DEF QueueInd, WorkInd
  <2>4. \A u \in Thread : Frees(u)' => Frees(u) /\ call'[u] = call[u]
    BY <1>8
  <2> QED
    BY <1>1, <2>1, <2>3, <2>4 DEF QueueInd, WorkInd
<1>17. SizeInd'
  <2>1. q.bytes <= device[q.ptr]
    BY <1>2, <1>3, <1>4 DEF QueueInd, SizeInd
  <2>2. \A u \in Thread : Has(u)' => Has(u) /\ call'[u] = call[u]
    BY <1>8
  <2> QED
    BY <1>1, <1>11, <2>1, <2>2 DEF QueueInd, SizeInd
<1>18. Teardown'
  BY <1>1, <1>12 DEF QueueInd, Teardown
<1> QED
  BY <1>13, <1>14, <1>15, <1>16, <1>17, <1>18 DEF QueueInd

-----------------------------------------------------------------------------
(* The worker and the destructor preserve the invariant                    *)

(* The worker and the destructor move without touching a block.            *)
LEMMA MovesSound ==
  ASSUME QueueInd,
         WorkerWaits \/ WorkerReturns \/ WorkerGoes \/ WorkerWakes \/ Stop \/ Join
  PROVE  QueueInd'
<1>1. UNCHANGED <<device, cache, pending, events, call, work, before, failed>>
  BY DEF WorkerWaits, WorkerReturns, WorkerGoes, WorkerWakes, Stop, Join, queueVars, gpuVars
<1>2. /\ worker' \in Worker /\ stop' \in BOOLEAN /\ (stop => stop')
      /\ (worker' \in {"gone", "draining", "destroyed"} => stop')
      /\ (worker' = "destroyed" => worker = "destroyed")
  BY DEF WorkerWaits, WorkerReturns, WorkerGoes, WorkerWakes, Stop, Join, Notified, Worker,
         QueueInd, QueueTypeOK, Teardown
<1>3. QueueTypeOK'
  BY <1>1, <1>2 DEF QueueInd, QueueTypeOK
<1>4. BlocksInd' /\ SizeInd'
  BY <1>1 DEF QueueInd, BlocksInd, SizeInd, Has
<1>5. EventsInd'
  BY <1>1 DEF QueueInd, EventsInd, Signals
<1>6. WorkInd'
  BY <1>1 DEF QueueInd, WorkInd, Has, Frees
<1>7. Teardown'
  BY <1>1, <1>2 DEF QueueInd, Teardown
<1> QED
  BY <1>3, <1>4, <1>5, <1>6, <1>7 DEF QueueInd

(* Blocks whose events are ready leave pending_: some become cached, the   *)
(* rest is returned to the device.                                         *)
LEMMA CompletedSound ==
  ASSUME QueueInd, NEW done \in SUBSET pending, NEW kept \in SUBSET done,
         \A p \in done : Ready(p.event),
         pending' = pending \ done,
         events' = events \ {p.event : p \in done},
         device' = Without(device, {p.ptr : p \in done \ kept}),
         DOMAIN cache' = DOMAIN cache \cup {p.ptr : p \in kept},
         \A b \in DOMAIN cache : cache'[b] = cache[b],
         \A p \in kept : cache'[p.ptr] = p.bytes,
         worker' \in {"asleep", "draining"}, worker' = "draining" => worker = "draining",
         UNCHANGED <<stop, call, work, before, failed>>
  PROVE  QueueInd'
<1>1. /\ \A u \in Thread : /\ Has(u)' <=> Has(u)
                           /\ Frees(u)' <=> Frees(u)
                           /\ Signals(u)' <=> Signals(u)
      /\ call' = call
  BY DEF Has, Frees, Signals
<1>2. /\ \A b \in DOMAIN device' : b \in DOMAIN device /\ device'[b] = device[b]
      /\ \A b \in DOMAIN device : (\A p \in done \ kept : p.ptr # b) => b \in DOMAIN device'
  BY DEF Without, Restrict
<1>3. /\ \A p \in pending' : p \in pending /\ p \notin done
      /\ \A p \in pending : p \in pending' \/ p \in done
  OBVIOUS
<1>4. \A b \in DOMAIN cache' : b \in DOMAIN cache \/ \E p \in kept : p.ptr = b /\ p \in pending
  OBVIOUS
<1>5. \A p \in done : \A w \in work : w[2] # p.ptr
  BY DEF Ready, QueueInd, WorkInd
<1>6. QueueTypeOK'
  <2>1. PartialFunction(device', Block, Nat)
    BY <1>2 DEF QueueInd, QueueTypeOK, PartialFunction
  <2>2. PartialFunction(cache', Block, Nat)
    BY <1>4 DEF QueueInd, QueueTypeOK, PartialFunction, PendingFree
  <2> QED
    BY <2>1, <2>2 DEF QueueInd, QueueTypeOK, Worker
<1>7. BlocksInd'
  <2>1. \A p, q \in pending : p.ptr = q.ptr => p = q
    BY DEF QueueInd, BlocksInd
  <2>2. \A b \in DOMAIN cache : b \in DOMAIN device'
    BY <1>2 DEF QueueInd, BlocksInd
  <2>3. \A p \in pending' \cup kept : p.ptr \in DOMAIN device'
    BY <1>2, <1>3, <2>1 DEF QueueInd, BlocksInd
  <2>4. \A p \in pending' : p.ptr \notin DOMAIN cache'
    BY <1>3, <1>4, <2>1 DEF QueueInd, BlocksInd
  <2>5. \A u \in Thread : Has(u) => call[u].ptr \in DOMAIN device'
    BY <1>2 DEF QueueInd, BlocksInd
  <2>6. \A u \in Thread : Has(u) => call[u].ptr \notin DOMAIN cache'
    BY <1>4 DEF QueueInd, BlocksInd
  <2>7. \A b \in DOMAIN cache' : b \in DOMAIN device'
    BY <1>4, <2>2, <2>3
  <2>8. \A u \in Thread : Has(u) =>
          /\ \A p \in pending' : p.ptr # call[u].ptr
          /\ \A v \in Thread : Has(v) /\ call[v].ptr = call[u].ptr => v = u
    BY <1>3 DEF QueueInd, BlocksInd
  <2>9. \A p, q \in pending' : p.ptr = q.ptr => p = q
    BY <1>3, <2>1
  <2> QED
    BY <1>1, <2>3, <2>4, <2>5, <2>6, <2>7, <2>8, <2>9 DEF BlocksInd
<1>8. EventsInd'
  <2>1. \A p, q \in pending : p.event = q.event => p = q
    BY DEF QueueInd, EventsInd
  <2>2. \A p \in pending' : p.event \in events'
    BY <1>3, <2>1 DEF QueueInd, EventsInd
  <2>3. \A u \in Thread : Signals(u) => call[u].event \in events'
    BY DEF QueueInd, EventsInd
  <2>4. \A e \in events' : e \in events /\ \A p \in done : p.event # e
    OBVIOUS
  <2>5. \A e \in events' : \/ \E p \in pending' : p.event = e
                           \/ \E t \in Thread : Signals(t) /\ call[t].event = e
    BY <1>3, <2>4 DEF QueueInd, EventsInd
  <2> QED
    BY <1>1, <1>3, <2>1, <2>2, <2>3, <2>5 DEF QueueInd, EventsInd
<1>9. WorkInd'
  <2>1. \A w \in work : \/ \E p \in pending' : p.ptr = w[2]
                        \/ \E t \in Thread : Has(t) /\ call[t].ptr = w[2]
    BY <1>3, <1>5 DEF QueueInd, WorkInd
  <2> QED
    BY <1>1, <1>3, <2>1 DEF QueueInd, WorkInd
<1>10. SizeInd'
  <2>1. \A b \in DOMAIN cache' : b \in DOMAIN device'
    BY <1>7 DEF BlocksInd
  <2>2. \A b \in DOMAIN cache' : cache'[b] <= device[b]
    BY <1>4 DEF QueueInd, SizeInd
  <2>3. \A b \in DOMAIN cache' : cache'[b] <= device'[b]
    BY <1>2, <2>1, <2>2
  <2>4. \A p \in pending' : p.bytes <= device'[p.ptr]
    BY <1>2, <1>3, <1>7 DEF QueueInd, BlocksInd, SizeInd
  <2>5. \A u \in Thread : Has(u) => call[u].bytes <= device'[call[u].ptr]
    BY <1>1, <1>2, <1>7 DEF QueueInd, BlocksInd, SizeInd
  <2> QED
    BY <1>1, <2>3, <2>4, <2>5 DEF SizeInd
<1>11. Teardown'
  BY DEF QueueInd, Teardown
<1> QED
  BY <1>6, <1>7, <1>8, <1>9, <1>10, <1>11 DEF QueueInd

(* A poll looks at all that is pending.                                    *)
LEMMA PollPendingSound ==
  ASSUME QueueInd, PollPending
  PROVE  QueueInd'
<1>1. PICK kept \in SUBSET Completed :
        /\ cache' = [b \in DOMAIN cache \cup {p.ptr : p \in kept} |->
                       IF b \in DOMAIN cache THEN cache[b]
                       ELSE (CHOOSE p \in kept : p.ptr = b).bytes]
        /\ device' = Without(device, {p.ptr : p \in Completed \ kept})
  BY DEF PollPending
<1>2. Completed \in SUBSET pending /\ \A p \in Completed : Ready(p.event)
  BY DEF Completed
<1>3. \A p \in kept : cache'[p.ptr] = p.bytes
  <2> SUFFICES ASSUME NEW p \in kept PROVE cache'[p.ptr] = p.bytes
    OBVIOUS
  <2>1. p.ptr \notin DOMAIN cache /\ \A q \in kept : q.ptr = p.ptr => q = p
    BY <1>2 DEF QueueInd, BlocksInd
  <2>2. (CHOOSE q \in kept : q.ptr = p.ptr) = p
    BY <2>1
  <2>3. p.ptr \in DOMAIN cache \cup {q.ptr : q \in kept}
    OBVIOUS
  <2>4. cache'[p.ptr] = (CHOOSE q \in kept : q.ptr = p.ptr).bytes
    BY <1>1, <2>1, <2>3
  <2> QED
    BY <2>2, <2>4
<1>4. /\ DOMAIN cache' = DOMAIN cache \cup {p.ptr : p \in kept}
      /\ \A b \in DOMAIN cache : cache'[b] = cache[b]
  BY <1>1
<1>5. /\ pending' = pending \ Completed /\ events' = events \ {p.event : p \in Completed}
      /\ worker' = "asleep"
      /\ UNCHANGED <<stop, call, work, before, failed>>
  BY DEF PollPending, gpuVars
<1>6. device' = Without(device, {p.ptr : p \in Completed \ kept})
  BY <1>1
<1> QED
  BY <1>2, <1>3, <1>4, <1>5, <1>6, CompletedSound

(* The destructor waits for the events one by one.                         *)
LEMMA DrainSound ==
  ASSUME QueueInd, NEW p \in pending, Drain(p)
  PROVE  QueueInd'
<1>1. /\ pending' = pending \ {p} /\ Ready(p.event)
      /\ events' = events \ {q.event : q \in {p}}
      /\ device' = Without(device, {q.ptr : q \in {p} \ {}})
  <2>1. {q.event : q \in {p}} = {p.event} /\ {q.ptr : q \in {p} \ {}} = {p.ptr}
    OBVIOUS
  <2> QED
    BY <2>1 DEF Drain
<1>2. /\ worker' = "draining" /\ worker = "draining"
      /\ UNCHANGED <<cache, stop, call, work, before, failed>>
  BY DEF Drain, gpuVars
<1>3. {p} \in SUBSET pending /\ {} \in SUBSET {p} /\ \A q \in {p} : Ready(q.event)
  BY <1>1
<1>4. /\ DOMAIN cache' = DOMAIN cache \cup {q.ptr : q \in {}}
      /\ \A b \in DOMAIN cache : cache'[b] = cache[b]
      /\ \A q \in {} : cache'[q.ptr] = q.bytes
  BY <1>2
<1> QED
  BY <1>1, <1>2, <1>3, <1>4, CompletedSound

(* The cached blocks are forgotten last.                                   *)
LEMMA ForgetSound ==
  ASSUME QueueInd, Forget
  PROVE  QueueInd'
<1>1. /\ worker = "draining" /\ pending = {} /\ cache' = [b \in {} |-> 0] /\ worker' = "destroyed"
      /\ UNCHANGED <<device, pending, events, stop, call, work, before, failed>>
  BY DEF Forget, gpuVars
<1>2. DOMAIN cache' = {}
  BY <1>1
<1>3. QueueTypeOK'
  BY <1>1, <1>2 DEF QueueInd, QueueTypeOK, PartialFunction, Worker
<1>4. BlocksInd' /\ SizeInd'
  BY <1>1, <1>2 DEF QueueInd, BlocksInd, SizeInd, Has
<1>5. EventsInd'
  BY <1>1 DEF QueueInd, EventsInd, Signals
<1>6. WorkInd'
  BY <1>1 DEF QueueInd, WorkInd, Has, Frees
<1>7. Teardown'
  BY <1>1 DEF QueueInd, Teardown
<1> QED
  BY <1>3, <1>4, <1>5, <1>6, <1>7 DEF QueueInd

-----------------------------------------------------------------------------
(* The device preserves the invariant                                      *)

(* Work is queued on the holder's block, on one stream.                    *)
LEMMA LaunchSound ==
  ASSUME QueueInd, NEW t \in Thread, NEW s \in Stream \cup {None}, Launch(t, s)
  PROVE  QueueInd'
<1>1. /\ call[t].at = "holds" /\ ~failed
      /\ \A w \in work : w[2] = call[t].ptr => w[1] = s
      /\ UNCHANGED <<device, cache, pending, events, worker, stop, call, before, failed>>
  BY DEF Launch, queueVars
<1>2. Has(t) /\ ~Frees(t)
  BY <1>1 DEF Has, Frees
<1>3. PICK b \in Block : b = call[t].ptr
  BY <1>2 DEF QueueInd, QueueTypeOK, PartialFunction, BlocksInd
<1>4. PICK x \in (Stream \cup {None}) \X Block : x = <<s, b>> /\ x[1] = s /\ x[2] = b
  <2>1. <<s, b>> \in (Stream \cup {None}) \X Block /\ <<s, b>>[1] = s /\ <<s, b>>[2] = b
    OBVIOUS
  <2> QED
    BY <2>1
<1>5. work' = work \cup {x}
  BY <1>3, <1>4 DEF Launch
<1>6. /\ \A p \in pending : p.ptr # b
      /\ \A u \in Thread : Frees(u) => call[u].ptr # b
  <2>1. \A u \in Thread : Frees(u) => Has(u) /\ u # t
    BY <1>2 DEF Has, Frees
  <2> QED
    BY <1>2, <1>3, <2>1 DEF QueueInd, BlocksInd
<1>7. \A w \in work : w[2] = b => w = x
  <2> SUFFICES ASSUME NEW w \in work, w[2] = b PROVE w = x
    OBVIOUS
  <2>1. w[1] = s /\ w \in (Stream \cup {None}) \X Block
    BY <1>1, <1>3 DEF QueueInd, QueueTypeOK
  <2> QED
    BY <1>4, <2>1
<1>8. QueueTypeOK'
  BY <1>1, <1>5 DEF QueueInd, QueueTypeOK
<1>9. BlocksInd' /\ SizeInd'
  BY <1>1 DEF QueueInd, BlocksInd, SizeInd, Has
<1>10. EventsInd'
  BY <1>1 DEF QueueInd, EventsInd, Signals
<1>11. WorkInd'
  <2>1. \A u \in Thread : (Has(u)' <=> Has(u)) /\ (Frees(u)' <=> Frees(u)) /\ call'[u] = call[u]
    BY <1>1 DEF Has, Frees
  <2>2. \A w \in work' : w \in work \/ w = x
    BY <1>5
  <2>3. \A w \in work' : \/ \E p \in pending : p.ptr = w[2]
                         \/ \E u \in Thread : Has(u) /\ call[u].ptr = w[2]
    BY <1>2, <1>3, <1>4, <2>2 DEF QueueInd, WorkInd
  <2>4. \A v, w \in work' : v[2] = w[2] => v = w
    BY <1>4, <1>7, <2>2 DEF QueueInd, WorkInd
  <2>5. \A p \in pending : \A w \in work' : w[2] = p.ptr => w \in before[p.event]
    BY <1>4, <1>6, <2>2 DEF QueueInd, WorkInd
  <2>6. \A u \in Thread : \A w \in work' : Frees(u) /\ w[2] = call[u].ptr =>
          IF call[u].at = "recorded" THEN w \in before[call[u].event]
          ELSE w[1] = call[u].stream
    BY <1>4, <1>6, <2>2 DEF QueueInd, WorkInd
  <2> QED
    BY <1>1, <2>1, <2>3, <2>4, <2>5, <2>6 DEF WorkInd
<1>12. Teardown'
  BY <1>1 DEF QueueInd, Teardown
<1> QED
  BY <1>8, <1>9, <1>10, <1>11, <1>12 DEF QueueInd

(* Work ends, or all of it with the device.                                *)
LEMMA DeviceSound ==
  ASSUME QueueInd, Fail \/ \E w \in work : Finish(w)
  PROVE  QueueInd'
<1>1. UNCHANGED <<device, cache, pending, events, worker, stop, call>>
  BY DEF Fail, Finish, queueVars
<1>2. \A u \in Thread : (Has(u)' <=> Has(u)) /\ (Frees(u)' <=> Frees(u)) /\ (Signals(u)' <=> Signals(u))
  BY <1>1 DEF Has, Frees, Signals
<1>3. /\ work' \subseteq work
      /\ before' \in [Event -> SUBSET ((Stream \cup {None}) \X Block)]
      /\ failed' \in BOOLEAN
      /\ \A e \in Event : \A w \in work' : w \in before[e] => w \in before'[e]
      /\ failed' => work' = {} /\ \A e \in Event : before'[e] = {}
  <2>1. CASE Fail
    BY <2>1 DEF Fail
  <2>2. CASE \E w \in work : Finish(w)
    <3>1. PICK w \in work : Finish(w)
      BY <2>2
    <3>2. before' \in [Event -> SUBSET ((Stream \cup {None}) \X Block)]
      BY <3>1 DEF Finish, QueueInd, QueueTypeOK
    <3>3. /\ work' = work \ {w} /\ failed' = failed
          /\ \A e \in Event : before'[e] = before[e] \ {w}
      BY <3>1 DEF Finish
    <3>4. failed \in BOOLEAN /\ (failed => work = {} /\ \A e \in Event : before[e] = {})
      BY DEF QueueInd, QueueTypeOK, WorkInd
    <3> QED
      BY <3>2, <3>3, <3>4
  <2> QED
    BY <2>1, <2>2
<1>4. QueueTypeOK'
  BY <1>1, <1>3 DEF QueueInd, QueueTypeOK
<1>5. BlocksInd' /\ SizeInd'
  BY <1>1, <1>2 DEF QueueInd, BlocksInd, SizeInd
<1>6. EventsInd'
  BY <1>1, <1>2 DEF QueueInd, EventsInd
<1>7. WorkInd'
  <2>1. \A p \in pending : p.event \in Event
    BY DEF QueueInd, QueueTypeOK, PendingFree
  <2>2. \A p \in pending : \A w \in work' : w[2] = p.ptr => w \in before'[p.event]
    BY <1>3, <2>1 DEF QueueInd, WorkInd
  <2>3. \A u \in Thread : call[u].at = "recorded" => call[u].event \in Event
    BY DEF QueueInd, QueueTypeOK, EventsInd, Signals
  <2>4. \A u \in Thread : \A w \in work' : Frees(u) /\ w[2] = call[u].ptr =>
          IF call[u].at = "recorded" THEN w \in before'[call[u].event]
          ELSE w[1] = call[u].stream
    BY <1>3, <2>3 DEF QueueInd, WorkInd
  <2>5. /\ \A w \in work' : \/ \E p \in pending : p.ptr = w[2]
                            \/ \E u \in Thread : Has(u) /\ call[u].ptr = w[2]
        /\ \A v, w \in work' : v[2] = w[2] => v = w
    BY <1>3 DEF QueueInd, WorkInd
  <2> QED
    BY <1>1, <1>2, <1>3, <2>2, <2>4, <2>5 DEF WorkInd
<1>8. Teardown'
  BY <1>1 DEF QueueInd, Teardown
<1> QED
  BY <1>4, <1>5, <1>6, <1>7, <1>8 DEF QueueInd

-----------------------------------------------------------------------------
(* QueueInv holds in every execution                                       *)

(* The queue begins empty.                                                 *)
LEMMA QueueIndInit == Init => QueueInd
<1> SUFFICES ASSUME Init PROVE QueueInd
  OBVIOUS
<1>1. \A t \in Thread : call[t] = Out /\ ~Has(t) /\ ~Frees(t) /\ ~Signals(t)
  BY OutIsCall DEF Init, Has, Frees, Signals
<1>2. QueueTypeOK
  BY OutIsCall DEF Init, QueueTypeOK, PartialFunction, Worker
<1>3. BlocksInd /\ SizeInd
  BY <1>1 DEF Init, BlocksInd, SizeInd
<1>4. EventsInd
  BY <1>1, OutIsCall DEF Init, EventsInd
<1>5. WorkInd
  BY <1>1 DEF Init, WorkInd
<1>6. Teardown
  BY DEF Init, Teardown
<1> QED
  BY <1>2, <1>3, <1>4, <1>5, <1>6 DEF QueueInd

(* Every step preserves it.                                                *)
LEMMA QueueIndStep ==
  ASSUME QueueInd, [Next]_vars
  PROVE  QueueInd'
<1>1. ASSUME NEW t \in Thread, NEW n \in Request, AllocateCached(t, n) \/ AllocateMissed(t, n)
      PROVE  QueueInd'
  BY <1>1, AllocateCachedSound, EmptyHandsSound
<1>2. ASSUME NEW t \in Thread, InCall(t)
      PROVE  QueueInd'
  BY <1>2, MallocSound, EmptyHandsSound, CreateEventSound, FreeSound, RecordEventSound,
     RecordEventFailsSound, MusaFreeSound, PushPendingSound DEF InCall
<1>3. ASSUME NEW t \in Thread, NEW s \in Stream \cup {None}, Launch(t, s) \/ Free(t, s)
      PROVE  QueueInd'
  BY <1>3, LaunchSound, FreeSound
<1>4. CASE WorkerSteps \/ WorkerWakes \/ Stop \/ Destroy
  BY <1>4, MovesSound, PollPendingSound, DrainSound, ForgetSound DEF WorkerSteps, Destroy
<1>5. CASE Fail \/ \E w \in work : Finish(w)
  BY <1>5, DeviceSound
<1>6. CASE Ended \/ UNCHANGED vars
  <2>1. UNCHANGED <<device, cache, pending, events, worker, stop, call, work, before, failed>>
    BY <1>6 DEF Ended, vars, queueVars, gpuVars
  <2>2. QueueTypeOK' /\ Teardown'
    BY <2>1 DEF QueueInd, QueueTypeOK, Teardown
  <2>3. BlocksInd' /\ SizeInd'
    BY <2>1 DEF QueueInd, BlocksInd, SizeInd, Has
  <2>4. EventsInd'
    BY <2>1 DEF QueueInd, EventsInd, Signals
  <2>5. WorkInd'
    BY <2>1 DEF QueueInd, WorkInd, Has, Frees
  <2> QED
    BY <2>2, <2>3, <2>4, <2>5 DEF QueueInd
<1> QED
  BY <1>1, <1>2, <1>3, <1>4, <1>5, <1>6 DEF Next

(* DeferredDeviceFreeQueue, for any number of threads, streams, blocks and *)
(* events, any limit and any sizes: each block and each event has one      *)
(* owner, a block is as large as it is recorded, and unfinished work on a  *)
(* block is behind the event, or on the stream, that its free waits for.   *)
THEOREM QueueInvAlways == Spec => []QueueInv
  BY QueueIndInit, QueueIndStep, IndIsInv, PTL DEF Spec

-----------------------------------------------------------------------------
(* The promise of GuardedReuse                                             *)

(* The blocks that kernels have.                                           *)
Held == {call[t].ptr : t \in Holding}

(* The blocks that the device works on.                                    *)
Busy == {w[2] : w \in work}

(* Blocks in use exist.                                                    *)
LEMMA UseIsMapped ==
  ASSUME QueueInd
  PROVE  Held \cup Busy \subseteq DOMAIN device
<1>1. \A t \in Holding : call[t].ptr \in DOMAIN device
  BY DEF QueueInd, BlocksInd, Holding, Has
<1>2. \A w \in work : w[2] \in DOMAIN device
  BY DEF QueueInd, BlocksInd, WorkInd
<1> QED
  BY <1>1, <1>2 DEF Held, Busy

(* The kinds of step as steps of GuardedReuse: a block is given out;       *)
LEMMA AcquireStep ==
  ASSUME QueueInd', NEW b \in Block, b \notin Held \cup Busy, Held' = Held \cup {b},
         work' = work, DOMAIN device' = DOMAIN device \cup {b}
  PROVE  Reuse!Next
<1>1. Busy' = Busy
  BY DEF Busy
<1>2. \E gone \in SUBSET ((DOMAIN device \cup {b}) \ (Held' \cup Busy')) :
        DOMAIN device' = (DOMAIN device \cup {b}) \ gone
  <2>1. {} \in SUBSET ((DOMAIN device \cup {b}) \ (Held' \cup Busy'))
    OBVIOUS
  <2> QED
    BY <2>1
<1>3. Reuse!Acquire(b)
  BY <1>1, <1>2 DEF Reuse!Acquire, Reuse!Unmap, Held, Busy
<1> QED
  BY <1>3 DEF Reuse!Next

(* a block is given back;                                                  *)
LEMMA DisposeStep ==
  ASSUME QueueInd', NEW b \in Block, b \in Held, Held' = Held \ {b}, work' = work,
         DOMAIN device' = DOMAIN device
  PROVE  Reuse!Next
<1>1. Busy' = Busy
  BY DEF Busy
<1>2. \E gone \in SUBSET (DOMAIN device \ (Held' \cup Busy')) : DOMAIN device' = DOMAIN device \ gone
  <2>1. {} \in SUBSET (DOMAIN device \ (Held' \cup Busy'))
    OBVIOUS
  <2> QED
    BY <2>1
<1>3. Reuse!Dispose(b)
  BY <1>1, <1>2 DEF Reuse!Dispose, Reuse!Unmap, Held, Busy
<1> QED
  BY <1>3 DEF Reuse!Next

(* idle blocks return to the device, or nothing changes;                   *)
LEMMA SweepStep ==
  ASSUME QueueInd', Held' = Held, work' = work, DOMAIN device' \subseteq DOMAIN device
  PROVE  Reuse!Next
<1>1. Busy' = Busy
  BY DEF Busy
<1>2. Held' \cup Busy' \subseteq DOMAIN device'
  BY UseIsMapped DEF QueueInd, Held, Busy, BlocksInd, WorkInd, Holding, Has
<1>3. \E gone \in SUBSET (DOMAIN device \ (Held' \cup Busy')) : DOMAIN device' = DOMAIN device \ gone
  <2> DEFINE gone == DOMAIN device \ DOMAIN device'
  <2>1. gone \in SUBSET (DOMAIN device \ (Held' \cup Busy')) /\ DOMAIN device' = DOMAIN device \ gone
    BY <1>2
  <2> HIDE DEF gone
  <2> QED
    BY <2>1
<1>4. Reuse!Sweep
  BY <1>1, <1>3 DEF Reuse!Sweep, Reuse!Unmap, Held, Busy
<1> QED
  BY <1>4 DEF Reuse!Next

(* a holder queues work;                                                   *)
LEMMA LaunchStep ==
  ASSUME QueueInd, NEW t \in Thread, NEW s \in Stream \cup {None}, Launch(t, s)
  PROVE  Reuse!Next
<1>1. call[t].at = "holds" /\ UNCHANGED <<device, call>>
  BY DEF Launch
<1>2. PICK b \in Block : b = call[t].ptr
  BY <1>1 DEF QueueInd, QueueTypeOK, PartialFunction, BlocksInd, Has
<1>3. work' = work \cup {<<s, b>>}
  BY <1>2 DEF Launch
<1>4. Busy' = Busy \cup {b}
  <2>1. \A w \in work' : w[2] \in Busy \cup {b}
    BY <1>3 DEF Busy
  <2>2. <<s, b>> \in work' /\ <<s, b>>[2] = b /\ work \subseteq work'
    BY <1>3
  <2>3. Busy \cup {b} \subseteq Busy'
    BY <2>2 DEF Busy
  <2> QED
    BY <2>1, <2>3 DEF Busy
<1>5. b \in Held /\ Held' = Held
  BY <1>1, <1>2 DEF Held, Holding
<1>6. Reuse!Launch(b)
  BY <1>1, <1>4, <1>5 DEF Reuse!Launch, Held, Busy
<1> QED
  BY <1>6 DEF Reuse!Next

(* work ends.                                                              *)
LEMMA FinishStep ==
  ASSUME QueueInd, Fail \/ \E w \in work : Finish(w)
  PROVE  Reuse!Next
<1>1. UNCHANGED <<device, call>> /\ work' \subseteq work
  BY DEF Fail, Finish
<1>2. Busy' \subseteq Busy /\ Busy \subseteq Block
  BY <1>1 DEF Busy, QueueInd, QueueTypeOK
<1>3. PICK S \in SUBSET Block : S = Busy \ Busy'
  BY <1>2
<1>4. Busy' = Busy \ S /\ Held' = Held
  BY <1>1, <1>2, <1>3 DEF Held, Holding
<1>5. Reuse!Finish(S)
  BY <1>1, <1>4 DEF Reuse!Finish, Held, Busy
<1> QED
  BY <1>5 DEF Reuse!Next

(* How the blocks that are held change with one call.                      *)
LEMMA HeldChanges ==
  ASSUME QueueInd, NEW t \in Thread, \A u \in Thread \ {t} : call'[u] = call[u]
  PROVE  /\ call[t].at # "holds" /\ call'[t].at # "holds" => Held' = Held
         /\ call[t].at # "holds" /\ call'[t].at = "holds" => Held' = Held \cup {call'[t].ptr}
         /\ call[t].at = "holds" /\ call'[t].at # "holds" => Held' = Held \ {call[t].ptr}
<1>1. \A u \in Thread \ {t} : (u \in Holding <=> u \in Holding') /\ call'[u] = call[u]
  BY DEF Holding
<1>2. \A u, v \in Holding : call[u].ptr = call[v].ptr => u = v
  BY DEF QueueInd, BlocksInd, Holding, Has
<1>3. (t \in Holding <=> call[t].at = "holds") /\ (t \in Holding' <=> call'[t].at = "holds")
  BY DEF Holding
<1>4. Holding \subseteq Thread /\ Holding' \subseteq Thread
  BY DEF Holding
<1>5. ASSUME call[t].at # "holds", call'[t].at # "holds" PROVE Held' = Held
  BY <1>1, <1>3, <1>4, <1>5 DEF Held
<1>6. ASSUME call[t].at # "holds", call'[t].at = "holds" PROVE Held' = Held \cup {call'[t].ptr}
  BY <1>1, <1>3, <1>4, <1>6 DEF Held
<1>7. ASSUME call[t].at = "holds", call'[t].at # "holds" PROVE Held' = Held \ {call[t].ptr}
  BY <1>1, <1>2, <1>3, <1>4, <1>7 DEF Held
<1> QED
  BY <1>5, <1>6, <1>7

(* A block that nobody has is not worked on either.                        *)
LEMMA UnusedBlock ==
  ASSUME QueueInd, NEW b \in Block, b \in DOMAIN cache \/ b \notin DOMAIN device
  PROVE  b \notin Held \cup Busy
<1>1. \A t \in Holding : call[t].ptr # b
  BY DEF QueueInd, BlocksInd, Holding, Has
<1>2. \A w \in work : w[2] # b
  BY DEF QueueInd, BlocksInd, WorkInd
<1> QED
  BY <1>1, <1>2 DEF Held, Busy

(* Which of them each action is: Allocate gives a block out;               *)
LEMMA AllocateReuses ==
  ASSUME QueueInd, QueueInd', NEW t \in Thread,
         Malloc(t) \/ \E n \in Request : AllocateCached(t, n)
  PROVE  Reuse!Next
<1>1. PICK b \in Block :
        /\ b \in DOMAIN cache \/ b \notin DOMAIN device
        /\ call'[t].at = "holds" /\ call'[t].ptr = b
        /\ DOMAIN device' = DOMAIN device \cup {b}
  <2>1. CASE Malloc(t)
    BY <2>1, ZenonT(60) DEF Malloc, Put, QueueInd, QueueTypeOK, Call
  <2>2. CASE \E n \in Request : AllocateCached(t, n)
    <3>1. PICK n \in Request : AllocateCached(t, n)
      BY <2>2
    <3>2. PICK r \in Nat : r = RoundSize(n)
      BY RoundedNat
    <3>3. PICK b \in Fits(r) :
            call' = [call EXCEPT ![t] = [Out EXCEPT !.at = "holds", !.ptr = b, !.bytes = r]]
      BY <3>1, <3>2 DEF AllocateCached
    <3>4. b \in DOMAIN cache /\ b \in DOMAIN device /\ b \in Block
      BY DEF Fits, QueueInd, QueueTypeOK, PartialFunction, BlocksInd
    <3>5. device' = device
      BY <3>1 DEF AllocateCached
    <3>6. call'[t].at = "holds" /\ call'[t].ptr = b
      BY <3>3, OutIsCall DEF QueueInd, QueueTypeOK, Call
    <3> QED
      BY <3>4, <3>5, <3>6
  <2> QED
    BY <2>1, <2>2
<1>2. /\ \A u \in Thread \ {t} : call'[u] = call[u]
      /\ call[t].at # "holds" /\ work' = work
  BY DEF Malloc, AllocateCached, gpuVars, QueueInd, QueueTypeOK
<1>3. Held' = Held \cup {b}
  BY <1>1, <1>2, HeldChanges
<1> QED
  BY <1>1, <1>2, <1>3, UnusedBlock, AcquireStep

(* Free begins with giving the block back;                                 *)
LEMMA FreeReuses ==
  ASSUME QueueInd, QueueInd', NEW t \in Thread, NEW s \in Stream \cup {None}, Free(t, s)
  PROVE  Reuse!Next
<1>1. call[t].at = "holds" /\ work' = work /\ device' = device
  BY DEF Free, gpuVars
<1>2. PICK b \in Block : b = call[t].ptr
  BY <1>1 DEF QueueInd, QueueTypeOK, PartialFunction, BlocksInd, Has
<1>3. \A u \in Thread \ {t} : call'[u] = call[u]
  BY DEF Free, QueueInd, QueueTypeOK
<1>4. call'[t].at # "holds"
  <2>1. Becomes(t, IF s = None THEN "free" ELSE "leaving", call[t].ptr, call[t].bytes,
                call[t].event, s)
    BY CallSteps DEF QueueInd
  <2> QED
    BY <2>1 DEF Becomes
<1>5. Held' = Held \ {b} /\ b \in Held
  BY <1>1, <1>2, <1>3, <1>4, HeldChanges DEF Held, Holding
<1> QED
  BY <1>1, <1>5, DisposeStep

(* the rest of a call holds no block;                                      *)
LEMMA CallReuses ==
  ASSUME QueueInd, QueueInd', NEW t \in Thread,
         \/ \E n \in Request : AllocateMissed(t, n)
         \/ MallocFails(t) \/ CreateEvent(t) \/ CreateEventFails(t) \/ RecordEvent(t)
         \/ RecordEventFails(t) \/ Synchronize(t) \/ MusaFree(t) \/ PushPending(t)
  PROVE  Reuse!Next
<1>1. /\ call[t].at # "holds" /\ work' = work
      /\ \A u \in Thread \ {t} : call'[u] = call[u]
  BY DEF AllocateMissed, MallocFails, CreateEvent, CreateEventFails, RecordEvent,
         RecordEventFails, Synchronize, MusaFree, PushPending, gpuVars, QueueInd, QueueTypeOK
<1>2. call'[t].at # "holds"
  <2>1. CASE CreateEvent(t)
    BY <2>1 DEF CreateEvent, QueueInd, QueueTypeOK, Call
  <2>2. CASE ~CreateEvent(t)
    BY <2>2, CallSteps DEF QueueInd, Becomes
  <2> QED
    BY <2>1, <2>2
<1>3. DOMAIN device' \subseteq DOMAIN device
  BY DEF AllocateMissed, MallocFails, CreateEvent, CreateEventFails, RecordEvent,
         RecordEventFails, Synchronize, MusaFree, PushPending, Without, Restrict
<1> QED
  BY <1>1, <1>2, <1>3, HeldChanges, SweepStep

(* the worker and the destructor return idle blocks.                       *)
LEMMA QueueReuses ==
  ASSUME QueueInd, QueueInd', WorkerSteps \/ WorkerWakes \/ Stop \/ Destroy \/ Ended \/ UNCHANGED vars
  PROVE  Reuse!Next
<1>1. call' = call /\ work' = work /\ DOMAIN device' \subseteq DOMAIN device
  <2>1. CASE PollPending
    BY <2>1 DEF PollPending, gpuVars, Without, Restrict
  <2>2. CASE \E p \in pending : Drain(p)
    BY <2>2 DEF Drain, gpuVars, Without, Restrict
  <2>3. CASE ~PollPending /\ ~\E p \in pending : Drain(p)
    BY <2>3 DEF WorkerSteps, Destroy, WorkerWaits, WorkerReturns, WorkerGoes, WorkerWakes,
                Stop, Join, Forget, Ended, vars, gpuVars
  <2> QED
    BY <2>1, <2>2, <2>3
<1>2. Held' = Held
  BY <1>1 DEF Held, Holding
<1> QED
  BY <1>1, <1>2, SweepStep

(* Every step of the queue is one that GuardedReuse allows.                *)
LEMMA ReuseStep ==
  ASSUME QueueInd, QueueInd', [Next]_vars
  PROVE  [Reuse!Next]_(Reuse!vars)
<1>1. ASSUME NEW t \in Thread, NEW n \in Request, AllocateCached(t, n) \/ AllocateMissed(t, n)
      PROVE  Reuse!Next
  BY <1>1, AllocateReuses, CallReuses
<1>2. ASSUME NEW t \in Thread, InCall(t)
      PROVE  Reuse!Next
  BY <1>2, AllocateReuses, CallReuses DEF InCall
<1>3. ASSUME NEW t \in Thread, NEW s \in Stream \cup {None}, Launch(t, s) \/ Free(t, s)
      PROVE  Reuse!Next
  BY <1>3, LaunchStep, FreeReuses
<1>4. CASE Fail \/ \E w \in work : Finish(w)
  BY <1>4, FinishStep
<1>5. CASE WorkerSteps \/ WorkerWakes \/ Stop \/ Destroy \/ Ended \/ UNCHANGED vars
  BY <1>5, QueueReuses
<1> QED
  BY <1>1, <1>2, <1>3, <1>4, <1>5 DEF Next

(* Device memory that a kernel gave back is handed out again, or returned  *)
(* to the device, only when the device has finished with it, whatever the  *)
(* numbers of threads, streams, blocks and events and the cache limit.     *)
THEOREM QueueImplementsReuse == Spec => ImplementsReuse
<1>1. Init => Reuse!Init
  <2> SUFFICES ASSUME Init PROVE Reuse!Init
    OBVIOUS
  <2>1. DOMAIN device = {} /\ {w[2] : w \in work} = {}
    BY DEF Init
  <2>2. {call[t].ptr : t \in Holding} = {}
    BY OutIsCall DEF Init, Holding
  <2> QED
    BY <2>1, <2>2 DEF Reuse!Init
<1>2. QueueInd /\ QueueInd' /\ [Next]_vars => [Reuse!Next]_(Reuse!vars)
  BY ReuseStep
<1> QED
  BY <1>1, <1>2, QueueIndInit, QueueIndStep, PTL DEF Spec, ImplementsReuse, Reuse!Spec

-----------------------------------------------------------------------------
(* What the promise of both pools is worth: however blocks are given back, *)
(* swept and handed out again, memory in use exists                        *)

(* Every step keeps memory in use mapped.                                  *)
LEMMA NoUseAfterFreeStep ==
  ASSUME Reuse!NoUseAfterFree, [Reuse!Next]_(Reuse!vars)
  PROVE  Reuse!NoUseAfterFree'
<1>1. ASSUME NEW b \in Block, Reuse!Acquire(b) PROVE Reuse!NoUseAfterFree'
  <2>1. /\ (Held \cup Busy)' \subseteq DOMAIN device \cup {b}
        /\ \E gone \in SUBSET ((DOMAIN device \cup {b}) \ (Held \cup Busy)') :
             DOMAIN device' = (DOMAIN device \cup {b}) \ gone
    BY <1>1 DEF Reuse!Acquire, Reuse!Unmap, Reuse!NoUseAfterFree, Held, Busy
  <2> QED
    BY <2>1 DEF Reuse!NoUseAfterFree, Held, Busy
<1>2. ASSUME NEW b \in Block, Reuse!Launch(b) PROVE Reuse!NoUseAfterFree'
  BY <1>2 DEF Reuse!Launch, Reuse!NoUseAfterFree
<1>3. ASSUME NEW b \in Block, Reuse!Dispose(b) PROVE Reuse!NoUseAfterFree'
  <2>1. /\ (Held \cup Busy)' \subseteq DOMAIN device
        /\ \E gone \in SUBSET (DOMAIN device \ (Held \cup Busy)') : DOMAIN device' = DOMAIN device \ gone
    BY <1>3 DEF Reuse!Dispose, Reuse!Unmap, Reuse!NoUseAfterFree, Held, Busy
  <2> QED
    BY <2>1 DEF Reuse!NoUseAfterFree, Held, Busy
<1>4. ASSUME NEW S \in SUBSET Block, Reuse!Finish(S) PROVE Reuse!NoUseAfterFree'
  BY <1>4 DEF Reuse!Finish, Reuse!NoUseAfterFree
<1>5. CASE Reuse!Sweep
  <2>1. /\ (Held \cup Busy)' \subseteq DOMAIN device
        /\ \E gone \in SUBSET (DOMAIN device \ (Held \cup Busy)') : DOMAIN device' = DOMAIN device \ gone
    BY <1>5 DEF Reuse!Sweep, Reuse!Unmap, Reuse!NoUseAfterFree, Held, Busy
  <2> QED
    BY <2>1 DEF Reuse!NoUseAfterFree, Held, Busy
<1>6. CASE UNCHANGED Reuse!vars
  BY <1>6 DEF Reuse!vars, Reuse!NoUseAfterFree
<1> QED
  BY <1>1, <1>2, <1>3, <1>4, <1>5, <1>6 DEF Reuse!Next

(* The promise alone keeps every block mapped that a caller holds or that  *)
(* unfinished device work accesses.                                        *)
THEOREM NoUseAfterFreeEver == Reuse!Spec => []Reuse!NoUseAfterFree
<1>1. Reuse!Init => Reuse!NoUseAfterFree
  BY DEF Reuse!Init, Reuse!NoUseAfterFree
<1> QED
  BY <1>1, NoUseAfterFreeStep, PTL DEF Reuse!Spec

(* A kernel's temporary memory, and what the device works on, was not      *)
(* returned with musaFree: not by the worker, not by the destructor.       *)
THEOREM QueueNeverFreesInUse == Spec => []Reuse!NoUseAfterFree
  BY QueueImplementsReuse, NoUseAfterFreeEver DEF ImplementsReuse

-----------------------------------------------------------------------------
(* cached_bytes_                                                           *)

(* cached_bytes_ is the total of what the cached blocks are recorded with, *)
(* of which there are finitely many; so are the pending ones.              *)
RecordedInv ==
  /\ IsFiniteSet(pending)
  /\ Weights(cache, DOMAIN cache)
  /\ cachedBytes = Total(cache, DOMAIN cache)
  /\ cachedBytes <= Limit

(* What pending records are recorded with.                                 *)
PendingBytes(K) == [p \in K |-> p.bytes]

(* The sum that CacheCompleted adds is a total.                            *)
LEMMA PendingTotal ==
  ASSUME NEW K, IsFiniteSet(K)
  PROVE  MapThenSumSet(LAMBDA p : p.bytes, K) = Total(PendingBytes(K), K)
<1> DEFINE w == PendingBytes(K)
           P(g) == g = [s \in SUBSET K |->
                          IF s = {} THEN 0 ELSE Pick(s).bytes + g[s \ {Pick(s)}]]
           f == CHOOSE g : P(g)
<1>1. MapThenSumSet(LAMBDA p : p.bytes, K) = f[K]
  BY DEF MapThenSumSet, MapThenFoldSet, Pick
<1>2. \A g : P(g) <=> Summing(w, K, g)
  <2> SUFFICES ASSUME NEW g
               PROVE  [s \in SUBSET K |-> IF s = {} THEN 0 ELSE Pick(s).bytes + g[s \ {Pick(s)}]]
                       = [s \in SUBSET K |-> IF s = {} THEN 0 ELSE w[Pick(s)] + g[s \ {Pick(s)}]]
    BY DEF Summing
  <2>1. \A s \in SUBSET K : s # {} => w[Pick(s)] = Pick(s).bytes
    BY DEF Pick, PendingBytes
  <2> HIDE DEF w
  <2> QED
    BY <2>1
<1>3. P(f)
  <2>1. \E g : P(g)
    <3> HIDE DEF P
    <3> QED
      BY <1>2, SummingExists
  <2> HIDE DEF P
  <2> QED
    BY <2>1
<1>4. Summing(w, K, f)
  <2> HIDE DEF P, f
  <2> QED
    BY <1>2, <1>3
<1>5. Total(w, K) = f[K]
  <2> HIDE DEF P, f, w
  <2> QED
    BY <1>4, TotalIs
<1> QED
  BY <1>1, <1>5

(* The cache with the blocks of some pending records.                      *)
CacheWith(K) ==
  [b \in DOMAIN cache \cup {p.ptr : p \in K} |->
     IF b \in DOMAIN cache THEN cache[b] ELSE (CHOOSE p \in K : p.ptr = b).bytes]

(* Each block that completes is counted once, with what it is recorded     *)
(* with.                                                                   *)
LEMMA CompletedCounted ==
  ASSUME QueueInd, RecordedInv, NEW K \in SUBSET pending
  PROVE  /\ Weights(CacheWith(K), DOMAIN CacheWith(K))
         /\ cachedBytes + MapThenSumSet(LAMBDA p : p.bytes, K)
              = Total(CacheWith(K), DOMAIN CacheWith(K))
<1> DEFINE g  == CacheWith(K)
           D  == {p.ptr : p \in K}
           at == [p \in K |-> p.ptr]
           w  == PendingBytes(K)
<1>1. /\ \A p \in K : p.bytes \in Nat /\ p.ptr \notin DOMAIN cache
      /\ \A p, q \in K : p.ptr = q.ptr => p = q
  BY DEF QueueInd, QueueTypeOK, PendingFree, BlocksInd
<1>2. \A p \in K : (CHOOSE q \in K : q.ptr = p.ptr) = p
  BY <1>1
<1>3. IsFiniteSet(K)
  BY FS_Subset DEF RecordedInv
<1>4. /\ DOMAIN g = DOMAIN cache \cup D
      /\ \A b \in DOMAIN cache : g[b] = cache[b]
      /\ \A p \in K : p.ptr \in D /\ g[p.ptr] = p.bytes
  <2>1. DOMAIN g = DOMAIN cache \cup D /\ \A b \in DOMAIN cache : g[b] = cache[b]
    BY DEF CacheWith
  <2>2. ASSUME NEW p \in K PROVE p.ptr \in D /\ g[p.ptr] = p.bytes
    <3>1. p.ptr \in D /\ p.ptr \notin DOMAIN cache
      BY <1>1
    <3>2. g[p.ptr] = (CHOOSE q \in K : q.ptr = p.ptr).bytes
      BY <3>1 DEF CacheWith
    <3> QED
      BY <3>1, <3>2, <1>2
  <2> QED
    BY <2>1, <2>2
<1>5. Weights(w, K) /\ \A p \in K : w[p] = p.bytes
  BY <1>1, <1>3 DEF PendingBytes, Weights
<1>6. (\A p \in K : at[p] = p.ptr) /\ {at[p] : p \in K} = D
  OBVIOUS
<1>7. D \cap DOMAIN cache = {}
  BY <1>1
<1> HIDE DEF g, D, at, w
<1>8. /\ \A p, q \in K : at[p] = at[q] => p = q
      /\ \A p \in K : g[at[p]] = w[p]
  BY <1>1, <1>4, <1>5, <1>6
<1>9. /\ IsFiniteSet({at[p] : p \in K})
      /\ Total(g, {at[p] : p \in K}) = Total(w, K)
  BY <1>5, <1>8, TotalImage
<1>10. IsFiniteSet(D) /\ Total(g, D) = Total(w, K)
  BY <1>6, <1>9, Zenon
<1>11. \A b \in D : g[b] \in Int
  BY <1>1, <1>4 DEF D
<1>12. /\ Weights(g, DOMAIN g)
       /\ Total(g, DOMAIN g) = Total(cache, DOMAIN cache) + Total(g, D)
  BY <1>4, <1>7, <1>10, <1>11, TotalJoin DEF RecordedInv
<1>13. MapThenSumSet(LAMBDA p : p.bytes, K) = Total(w, K)
  BY <1>3, PendingTotal DEF w
<1> QED
  BY <1>10, <1>12, <1>13 DEF g, RecordedInv

(* Allocate takes a cached block with what it is recorded with.            *)
LEMMA TakenCounted ==
  ASSUME QueueInd, RecordedInv, NEW b \in DOMAIN cache,
         cache' = Without(cache, {b}), cachedBytes' = cachedBytes - cache[b]
  PROVE  /\ Weights(cache', DOMAIN cache')
         /\ cachedBytes' = Total(cache', DOMAIN cache')
         /\ cachedBytes' <= Limit
<1>1. cache' = Restrict(cache, DOMAIN cache \ {b}) /\ {b} \subseteq DOMAIN cache
  BY DEF Without
<1>2. /\ Total(cache', DOMAIN cache') = Total(cache, DOMAIN cache) - Total(cache, {b})
      /\ IsFiniteSet(DOMAIN cache')
  BY <1>1, TotalRestrict DEF RecordedInv
<1>3. Total(cache, {b}) = cache[b] /\ cache[b] \in Nat
  BY TotalOne DEF RecordedInv, QueueInd, QueueTypeOK, PartialFunction
<1>4. \A x \in DOMAIN cache' : cache'[x] \in Int
  BY <1>1 DEF Restrict, RecordedInv, Weights
<1>5. cachedBytes \in Int /\ cachedBytes <= Limit /\ Limit \in Nat
  BY TotalType, QueueAssumption DEF RecordedInv
<1>6. cachedBytes' = Total(cache', DOMAIN cache')
  BY <1>2, <1>3 DEF RecordedInv
<1>7. cachedBytes' <= Limit
  BY <1>3, <1>5
<1> QED
  BY <1>2, <1>4, <1>6, <1>7 DEF Weights

(* Every step keeps the count exact and within the limit.                  *)
LEMMA RecordedStep ==
  ASSUME QueueInd, RecordedInv, [Next]_vars
  PROVE  RecordedInv'
<1> USE DEF queueVars, gpuVars
<1>1. ASSUME NEW t \in Thread, NEW n \in Request, AllocateCached(t, n)
      PROVE  RecordedInv'
  <2>1. PICK b \in Fits(RoundSize(n)) :
          cache' = Without(cache, {b}) /\ cachedBytes' = cachedBytes - cache[b]
    BY <1>1 DEF AllocateCached
  <2>2. b \in DOMAIN cache /\ pending' = pending
    BY <1>1 DEF Fits, AllocateCached
  <2> QED
    BY <2>1, <2>2, TakenCounted DEF RecordedInv
<1>2. ASSUME NEW t \in Thread, PushPending(t)
      PROVE  RecordedInv'
  BY <1>2, FS_AddElement DEF PushPending, RecordedInv
<1>3. CASE PollPending
  <2>1. PICK kept \in SUBSET Completed :
          /\ kept # {} => ~failed /\ Cacheable(kept)
          /\ cache' = CacheWith(kept)
          /\ cachedBytes' = cachedBytes + MapThenSumSet(LAMBDA p : p.bytes, kept)
    BY <1>3 DEF PollPending, CacheWith
  <2>2. kept \in SUBSET pending /\ IsFiniteSet(pending')
    BY <1>3, FS_Subset DEF PollPending, Completed, RecordedInv
  <2>3. Weights(cache', DOMAIN cache') /\ cachedBytes' = Total(cache', DOMAIN cache')
    BY <2>1, <2>2, CompletedCounted
  <2>4. cachedBytes' <= Limit
    <3>1. CASE kept # {}
      BY <2>1, <3>1 DEF Cacheable
    <3>2. CASE kept = {}
      <4>1. MapThenSumSet(LAMBDA p : p.bytes, kept) = 0
        BY <3>2, FS_EmptySet, PendingTotal, TotalEmpty
      <4>2. cachedBytes \in Int
        BY TotalType DEF RecordedInv
      <4> QED
        BY <2>1, <4>1, <4>2 DEF RecordedInv
    <3> QED
      BY <3>1, <3>2
  <2> QED
    BY <2>2, <2>3, <2>4 DEF RecordedInv
<1>4. ASSUME NEW p \in pending, Drain(p)
      PROVE  RecordedInv'
  BY <1>4, FS_RemoveElement DEF Drain, RecordedInv
<1>5. CASE Forget
  <2>1. DOMAIN cache' = {} /\ cachedBytes' = 0 /\ pending' = pending
    BY <1>5 DEF Forget
  <2>2. Weights(cache', {}) /\ Total(cache', {}) = 0 /\ 0 <= Limit
    BY FS_EmptySet, TotalEmpty, QueueAssumption DEF Weights
  <2> QED
    BY <2>1, <2>2 DEF RecordedInv
<1>6. ASSUME \/ \E t \in Thread, n \in Request : AllocateMissed(t, n)
             \/ \E t \in Thread : InCall(t) /\ ~PushPending(t)
             \/ \E t \in Thread, s \in Stream \cup {None} : Launch(t, s) \/ Free(t, s)
             \/ WorkerWaits \/ WorkerReturns \/ WorkerGoes \/ WorkerWakes \/ Stop \/ Join
             \/ \E w \in work : Finish(w)
             \/ Fail \/ Ended \/ UNCHANGED vars
      PROVE  UNCHANGED <<cache, cachedBytes, pending>>
  BY <1>6 DEF AllocateMissed, InCall, Malloc, MallocFails, CreateEvent, CreateEventFails,
              RecordEvent, RecordEventFails, Synchronize, MusaFree, Launch, Free, WorkerWaits,
              WorkerReturns, WorkerGoes, WorkerWakes, Stop, Join, Finish, Fail, Ended, vars
<1>7. ASSUME UNCHANGED <<cache, cachedBytes, pending>>
      PROVE  RecordedInv'
  BY <1>7 DEF RecordedInv
<1> QED
  BY <1>1, <1>2, <1>3, <1>4, <1>5, <1>6, <1>7 DEF Next, WorkerSteps, Destroy

(* cached_bytes_ is at all times what the cached blocks are recorded with  *)
(* and stays within the limit, however many blocks complete at once.       *)
THEOREM RecordedAlwaysWithinLimit == Spec => []RecordedWithinLimit
<1>1. Init => RecordedInv
  BY FS_EmptySet, TotalEmpty, QueueAssumption DEF Init, RecordedInv, Weights
<1>2. RecordedInv => RecordedWithinLimit
  BY SumIsTotal DEF RecordedInv, RecordedWithinLimit
<1>3. Init => QueueInd
  BY QueueIndInit
<1>4. QueueInd /\ RecordedInv /\ [Next]_vars => (QueueInd /\ RecordedInv)'
  BY QueueIndStep, RecordedStep
<1> QED
  BY <1>1, <1>2, <1>3, <1>4, PTL DEF Spec

=============================================================================
