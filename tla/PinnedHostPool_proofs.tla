------------------------ MODULE PinnedHostPool_proofs ------------------------
(***************************************************************************)
(* Proofs about PinnedHostPool and about the copies that StagedCopies      *)
(* stages in it: each block and each event is in one place, the count of   *)
(* cached bytes is exact, the pool implements GuardedReuse and leaves      *)
(* nothing behind; and the bytes that a copy stages are the ones that      *)
(* arrive.                                                                 *)
(***************************************************************************)
EXTENDS StagedCopies, SumLemmas

-----------------------------------------------------------------------------
(* Sets of blocks and of pending records, apart from the state             *)

(* Blocks H are in one of the places L, F, T, or pending in P.             *)
Placed(H, L, F, P, T) ==
  /\ H = L \cup F \cup {p.ptr : p \in P} \cup T
  /\ L \cap F = {}
  /\ T \cap (L \cup F) = {}
  /\ \A p \in P : p.ptr \notin L \cup F \cup T
  /\ \A p, q \in P : p.ptr = q.ptr => p = q

(* Two calls of FreeAsync have different blocks.                           *)
FreeingApart == \A t, u \in Freeing : call[t].ptr = call[u].ptr => t = u

(* OnePlace in these terms.                                                *)
LEMMA Places ==
  OnePlace <=> /\ Placed(DOMAIN host, DOMAIN live, DOMAIN free, pending, InTransit)
               /\ FreeingApart
  BY DEF OnePlace, Placed, FreeingApart, InTransit

(* The same of the next state.                                             *)
LEMMA PlacesNext ==
  OnePlace' <=> /\ Placed(DOMAIN host', DOMAIN live', DOMAIN free', pending', InTransit')
                /\ FreeingApart'
  BY DEF OnePlace, Placed, FreeingApart, InTransit

(* Polling: of the pending blocks D, those of K are cached, the others go. *)
LEMMA SweepPlaced ==
  ASSUME NEW H, NEW L, NEW F, NEW P, NEW T, NEW D \in SUBSET P, NEW K \in SUBSET D,
         Placed(H, L, F, P, T)
  PROVE  Placed(H \ {p.ptr : p \in D \ K}, L, F \cup {p.ptr : p \in K}, P \ D, T)
  BY DEF Placed

(* Allocate: a cached block becomes live.                                  *)
LEMMA TakePlaced ==
  ASSUME NEW H, NEW L, NEW F, NEW P, NEW T, NEW b \in F, Placed(H, L, F, P, T)
  PROVE  Placed(H, L \cup {b}, F \ {b}, P, T)
  BY DEF Placed

(* A live block is returned to the system, cached, or given to a FreeAsync. *)
LEMMA LeavePlaced ==
  ASSUME NEW H, NEW L, NEW F, NEW P, NEW T, NEW b \in L, Placed(H, L, F, P, T)
  PROVE  /\ Placed(H \ {b}, L \ {b}, F, P, T)
         /\ Placed(H, L \ {b}, F \cup {b}, P, T)
         /\ Placed(H, L \ {b}, F, P, T \cup {b})
  BY DEF Placed

-----------------------------------------------------------------------------
(* Calls                                                                   *)

(* A call gets a new value, the others stay.                               *)
LEMMA CallUpdate ==
  ASSUME call \in [Thread -> Call], NEW t \in Thread, NEW c \in Call,
         call' = [call EXCEPT ![t] = c]
  PROVE  /\ call' \in [Thread -> Call]
         /\ call'[t] = c
         /\ \A u \in Thread \ {t} : call'[u] = call[u]
  OBVIOUS

(* A thread outside the pool.                                              *)
LEMMA OutType == Out \in Call /\ Out.at = "out"
  BY DEF Out, Call, Step

-----------------------------------------------------------------------------
(* Polling                                                                 *)

(* What PollPendingFreesLocked leaves, in terms of domains: the device has *)
(* finished with the blocks that it frees.                                 *)
LEMMA PolledShape ==
  ASSUME PoolInv
  PROVE  /\ \A p \in Completed : p \in pending /\ \A w \in work : w[2] # p.ptr
         /\ Polled.pending = pending \ Completed
         /\ DOMAIN Polled.free =
              DOMAIN free \cup {p.ptr : p \in {q \in Completed : ~q.release}}
         /\ \A b \in DOMAIN Polled.free : Polled.free[b] \in Nat
         /\ DOMAIN Polled.host =
              DOMAIN host \ {p.ptr : p \in Completed \ {q \in Completed : ~q.release}}
         /\ \A b \in DOMAIN Polled.host : Polled.host[b] \in Nat
<1> DEFINE kept == {p \in Completed : ~p.release}
<1>1. \A p \in Completed : p \in pending /\ p \in Pending /\ Ready(p.event)
  BY DEF Completed, PoolInv, PoolTypeOK
<1>2. \A p \in Completed : \A w \in work : w[2] # p.ptr
  BY <1>1 DEF Ready, PoolInv, Guarded, Pending
<1>3. DOMAIN Polled.free = DOMAIN free \cup {p.ptr : p \in kept}
  BY DEF Polled
<1>4. \A b \in DOMAIN Polled.free : Polled.free[b] \in Nat
  <2>1. \A b \in DOMAIN free : Polled.free[b] = free[b] /\ free[b] \in Nat
    BY DEF Polled, PoolInv, PoolTypeOK, PartialFunction
  <2>2. ASSUME NEW b, b \notin DOMAIN free, b \in DOMAIN Polled.free
        PROVE  Polled.free[b] \in Nat
    <3>1. Polled.free[b] = (CHOOSE p \in kept : p.ptr = b).size
      BY <2>2, <1>3 DEF Polled
    <3>2. \E p \in kept : p.ptr = b
      BY <2>2, <1>3
    <3> QED
      BY <3>1, <3>2, <1>1 DEF Pending
  <2> QED
    BY <2>1, <2>2
<1>5. /\ DOMAIN Polled.host = DOMAIN host \ {p.ptr : p \in Completed \ kept}
      /\ \A b \in DOMAIN Polled.host : Polled.host[b] \in Nat
  BY DEF Polled, Without, Restrict, PoolInv, PoolTypeOK, PartialFunction
<1>6. Polled.pending = pending \ Completed
  BY DEF Polled
<1> QED
  BY <1>1, <1>2, <1>3, <1>4, <1>5, <1>6

-----------------------------------------------------------------------------
(* What becomes of the blocks in transit when one thread moves on          *)

(* The thread is in a FreeAsync, with the same block, before and after, or *)
(* neither before nor after.                                               *)
LEMMA TransitSame ==
  ASSUME call \in [Thread -> Call], NEW t \in Thread, NEW c \in Call,
         call' = [call EXCEPT ![t] = c], FreeingApart,
         \/ t \notin Freeing /\ c.at \notin {"leaving", "recorded", "synchronize"}
         \/ t \in Freeing /\ c.at \in {"leaving", "recorded", "synchronize"} /\ c.ptr = call[t].ptr
  PROVE  InTransit' = InTransit /\ FreeingApart' /\ Freeing' = Freeing
<1>1. call'[t] = c /\ \A u \in Thread \ {t} : call'[u] = call[u]
  BY CallUpdate
<1>2. Freeing' = Freeing
  BY <1>1 DEF Freeing
<1>3. \A u \in Freeing : call'[u].ptr = call[u].ptr
  BY <1>1 DEF Freeing
<1> QED
  BY <1>2, <1>3 DEF InTransit, FreeingApart

(* A FreeAsync begins.                                                     *)
LEMMA TransitJoin ==
  ASSUME call \in [Thread -> Call], NEW t \in Thread, NEW c \in Call,
         call' = [call EXCEPT ![t] = c], FreeingApart,
         t \notin Freeing, c.at \in {"leaving", "recorded", "synchronize"}, c.ptr \notin InTransit
  PROVE  InTransit' = InTransit \cup {c.ptr} /\ FreeingApart' /\ Freeing' = Freeing \cup {t}
<1>1. call'[t] = c /\ \A u \in Thread \ {t} : call'[u] = call[u]
  BY CallUpdate
<1>2. Freeing' = Freeing \cup {t}
  BY <1>1 DEF Freeing
<1>3. \A u \in Freeing : call'[u].ptr = call[u].ptr
  BY <1>1 DEF Freeing
<1> QED
  BY <1>1, <1>2, <1>3 DEF InTransit, FreeingApart

(* A FreeAsync ends.                                                       *)
LEMMA TransitLeave ==
  ASSUME call \in [Thread -> Call], NEW t \in Thread, NEW c \in Call,
         call' = [call EXCEPT ![t] = c], FreeingApart,
         t \in Freeing, c.at \notin {"leaving", "recorded", "synchronize"}
  PROVE  InTransit' = InTransit \ {call[t].ptr} /\ FreeingApart' /\ Freeing' = Freeing \ {t}
<1>1. call'[t] = c /\ \A u \in Thread \ {t} : call'[u] = call[u]
  BY CallUpdate
<1>2. Freeing' = Freeing \ {t}
  BY <1>1 DEF Freeing
<1>3. \A u \in Freeing' : call'[u].ptr = call[u].ptr
  BY <1>1, <1>2
<1> QED
  BY <1>2, <1>3 DEF InTransit, FreeingApart

(* A holder gives its block up, one way or another.                        *)
LEMMA OwnersLeave ==
  ASSUME Attended, NEW t \in Holding, \A u \in Thread \ {t} : call'[u] = call[u],
         call'[t].at # "holds", DOMAIN live' = DOMAIN live \ {call[t].ptr}
  PROVE  /\ \A u \in Holding' : u \in Holding /\ u # t /\ call'[u] = call[u]
         /\ \A u \in Holding' : call'[u].ptr \in DOMAIN live'
         /\ \A b \in DOMAIN live' : \E u \in Holding' : call'[u].ptr = b
         /\ \A u, v \in Holding' : call'[u].ptr = call'[v].ptr => u = v
<1>1. \A u \in Holding' : u \in Holding /\ u # t /\ call'[u] = call[u]
  BY DEF Holding
<1>2. \A u \in Holding : u # t => u \in Holding' /\ call'[u] = call[u]
  BY DEF Holding
<1> QED
  BY <1>1, <1>2 DEF Attended

-----------------------------------------------------------------------------
(* One lemma per action                                                    *)

(* A new block is live.                                                    *)
LEMMA HostAllocSound ==
  ASSUME PoolInv, NEW t \in Thread, HostAlloc(t)
  PROVE  PoolInv'
<1>1. PICK b \in Block \ DOMAIN host :
        /\ host' = Put(host, b, call[t].size)
        /\ live' = Put(live, b, call[t].size)
        /\ call' = [call EXCEPT ![t] = [Out EXCEPT !.at = "holds", !.ptr = b]]
  BY DEF HostAlloc
<1>2. /\ UNCHANGED <<free, pending, cached, reusable, events, poller, stop, work, before, failed>>
      /\ call[t].at = "hostAlloc"
  BY DEF HostAlloc, deviceVars
<1> DEFINE c == [Out EXCEPT !.at = "holds", !.ptr = b]
<1>3. c \in Call /\ c.at = "holds" /\ c.ptr = b /\ c.event = None
  BY DEF Out, Call, Step
<1>4. call \in [Thread -> Call] /\ call[t].size \in Nat
  BY DEF PoolInv, PoolTypeOK, Call
<1>5. call' \in [Thread -> Call] /\ call'[t] = c /\ \A u \in Thread \ {t} : call'[u] = call[u]
  BY <1>1, <1>3, <1>4, CallUpdate
<1>6. InTransit' = InTransit /\ FreeingApart' /\ Freeing' = Freeing
  BY <1>1, <1>2, <1>3, <1>4, TransitSame, Places DEF PoolInv, Freeing
<1> HIDE DEF c
<1>7. DOMAIN host' = DOMAIN host \cup {b} /\ DOMAIN live' = DOMAIN live \cup {b}
  BY <1>1 DEF Put
<1>8. PoolTypeOK'
  BY <1>1, <1>2, <1>4, <1>5 DEF PoolInv, PoolTypeOK, PartialFunction, Put
<1>9. OnePlace'
  BY <1>1, <1>2, <1>6, <1>7, Places, PlacesNext DEF PoolInv, Placed
<1>10. EventsExclusive'
  BY <1>2, <1>5, <1>6 DEF PoolInv, EventsExclusive, Freeing
<1>11. Attended'
  BY <1>1, <1>2, <1>3, <1>5, <1>7, Places DEF PoolInv, Attended, Holding, Placed
<1>12. Guarded'
  BY <1>1, <1>2, <1>5, <1>6, <1>7, Places DEF PoolInv, Guarded, Freeing, Placed
<1> QED
  BY <1>8, <1>9, <1>10, <1>11, <1>12 DEF PoolInv

(* The locked part of FreeCompleted, for a block that is live.             *)
LEMMA GiveBackLive ==
  ASSUME PoolInv, NEW b \in DOMAIN live, GiveBack(b)
  PROVE  /\ DOMAIN live' = DOMAIN live \ {b}
         /\ \/ DOMAIN host' = DOMAIN host \ {b} /\ free' = free
            \/ DOMAIN host' = DOMAIN host /\ DOMAIN free' = DOMAIN free \cup {b}
         /\ PartialFunction(host', Block, Nat)
         /\ PartialFunction(live', Block, Nat)
         /\ PartialFunction(free', Block, Nat)
  BY DEF GiveBack, LiveWithout, Without, Restrict, Put, PoolInv, PoolTypeOK, PartialFunction

(* The block becomes cached or leaves.                                     *)
LEMMA FreeCompletedSound ==
  ASSUME PoolInv, NEW t \in Thread, FreeCompleted(t)
  PROVE  PoolInv'
<1> DEFINE b == call[t].ptr
<1>1. /\ call[t].at = "holds"
      /\ \A w \in work : w[2] # b
      /\ GiveBack(b)
      /\ call' = [call EXCEPT ![t] = Out]
      /\ UNCHANGED <<pending, reusable, events, poller, stop, work, before, failed>>
  BY DEF FreeCompleted, deviceVars
<1>2. b \in DOMAIN live
  BY <1>1 DEF PoolInv, Attended, Holding
<1>3. /\ DOMAIN live' = DOMAIN live \ {b}
      /\ \/ DOMAIN host' = DOMAIN host \ {b} /\ free' = free
         \/ DOMAIN host' = DOMAIN host /\ DOMAIN free' = DOMAIN free \cup {b}
      /\ PartialFunction(host', Block, Nat)
      /\ PartialFunction(live', Block, Nat)
      /\ PartialFunction(free', Block, Nat)
  BY <1>1, <1>2, GiveBackLive
<1>4. call \in [Thread -> Call]
  BY DEF PoolInv, PoolTypeOK
<1>5. call' \in [Thread -> Call] /\ call'[t] = Out /\ \A u \in Thread \ {t} : call'[u] = call[u]
  BY <1>1, <1>4, OutType, CallUpdate
<1>6. InTransit' = InTransit /\ FreeingApart' /\ Freeing' = Freeing
  BY <1>1, <1>4, OutType, TransitSame, Places DEF PoolInv, Freeing
<1>7. /\ \A u \in Holding' : call'[u].ptr \in DOMAIN live'
      /\ \A x \in DOMAIN live' : \E u \in Holding' : call'[u].ptr = x
      /\ \A u, v \in Holding' : call'[u].ptr = call'[v].ptr => u = v
  <2>1. t \in Holding
    BY <1>1 DEF Holding
  <2> QED
    BY <2>1, <1>3, <1>5, OutType, OwnersLeave DEF PoolInv
<1> HIDE DEF b
<1>8. PoolTypeOK'
  BY <1>1, <1>3, <1>5 DEF PoolInv, PoolTypeOK
<1>9. OnePlace'
  <2>1. /\ Placed(DOMAIN host \ {b}, DOMAIN live \ {b}, DOMAIN free, pending, InTransit)
        /\ Placed(DOMAIN host, DOMAIN live \ {b}, DOMAIN free \cup {b}, pending, InTransit)
    BY <1>2, Places, LeavePlaced DEF PoolInv
  <2> QED
    BY <1>1, <1>3, <1>6, <2>1, PlacesNext
<1>10. EventsExclusive'
  BY <1>1, <1>5, <1>6 DEF PoolInv, EventsExclusive, Freeing
<1>11. Attended'
  BY <1>1, <1>3, <1>5, <1>7, OutType DEF PoolInv, Attended
<1>12. Guarded'
  BY <1>1, <1>3, <1>5, <1>6 DEF PoolInv, Guarded, Freeing
<1> QED
  BY <1>8, <1>9, <1>10, <1>11, <1>12 DEF PoolInv

(* The block becomes one in transit, and the event, if there is one, is no *)
(* longer reusable.                                                        *)
LEMMA FreeAsyncSound ==
  ASSUME PoolInv, NEW t \in Thread, NEW s \in Stream, FreeAsync(t, s)
  PROVE  PoolInv'
<1> DEFINE b == call[t].ptr
<1>1. PICK e \in IF reusable = {} THEN {None} ELSE reusable :
        /\ reusable' = reusable \ {e}
        /\ call' = [call EXCEPT ![t] =
                      [at |-> "leaving", ptr |-> b, size |-> live[b], event |-> e,
                       release |-> ShouldRelease(live[b]), stream |-> s]]
  BY DEF FreeAsync, ReusableWithout
<1>2. /\ call[t].at = "holds"
      /\ \A w \in work : w[2] = b => w[1] = s
      /\ live' = Without(live, {b})
      /\ UNCHANGED <<host, free, pending, events, poller, stop, work, before, failed>>
  BY DEF FreeAsync, LiveWithout, deviceVars
<1>3. b \in DOMAIN live /\ live[b] \in Nat /\ b \in Block
  BY <1>2 DEF PoolInv, PoolTypeOK, PartialFunction, Attended, Holding
<1> DEFINE c == [at |-> "leaving", ptr |-> b, size |-> live[b], event |-> e,
                 release |-> ShouldRelease(live[b]), stream |-> s]
<1>4. /\ c \in Call /\ c.at = "leaving" /\ c.ptr = b /\ c.event = e /\ c.stream = s
      /\ call \in [Thread -> Call]
  BY <1>3 DEF PoolInv, PoolTypeOK, Call, Step, ShouldRelease
<1> HIDE DEF c
<1>5. call' \in [Thread -> Call] /\ call'[t] = c /\ \A u \in Thread \ {t} : call'[u] = call[u]
  BY <1>1, <1>4, CallUpdate DEF c
<1>6. b \notin InTransit /\ b \notin DOMAIN free /\ \A p \in pending : p.ptr # b
  BY <1>3, Places DEF PoolInv, Placed
<1>7. /\ InTransit' = InTransit \cup {b} /\ FreeingApart' /\ Freeing' = Freeing \cup {t}
      /\ t \notin Freeing
  <2>1. t \notin Freeing
    BY <1>2 DEF Freeing
  <2> QED
    BY <2>1, <1>1, <1>4, <1>6, TransitJoin, Places DEF PoolInv, c
<1>13. DOMAIN live' = DOMAIN live \ {b} /\ PartialFunction(live', Block, Nat)
  BY <1>2 DEF Without, Restrict, PoolInv, PoolTypeOK, PartialFunction
<1>14. /\ \A u \in Holding' : call'[u].ptr \in DOMAIN live'
       /\ \A x \in DOMAIN live' : \E u \in Holding' : call'[u].ptr = x
       /\ \A u, v \in Holding' : call'[u].ptr = call'[v].ptr => u = v
  <2>1. t \in Holding
    BY <1>2 DEF Holding
  <2> QED
    BY <2>1, <1>4, <1>5, <1>13, OwnersLeave DEF PoolInv
<1> HIDE DEF b
<1>8. PoolTypeOK'
  BY <1>1, <1>2, <1>5, <1>13 DEF PoolInv, PoolTypeOK
<1>9. OnePlace'
  <2>1. Placed(DOMAIN host, DOMAIN live \ {b}, DOMAIN free, pending, InTransit \cup {b})
    BY <1>3, Places, LeavePlaced DEF PoolInv
  <2> QED
    BY <1>2, <1>7, <1>13, <2>1, PlacesNext
<1>10. EventsExclusive'
  BY <1>1, <1>2, <1>4, <1>5, <1>7 DEF PoolInv, EventsExclusive
<1>11. Attended'
  <2>1. ~stop
    BY <1>2 DEF PoolInv, Attended
  <2>2. \A u \in Thread : call'[u].at = "recorded" => u # t /\ call'[u] = call[u]
    BY <1>4, <1>5
  <2> QED
    BY <1>2, <1>14, <2>1, <2>2 DEF PoolInv, Attended
<1>12. Guarded'
  <2>1. \A u \in Freeing : call'[u] = call[u]
    BY <1>5, <1>7 DEF Freeing
  <2>2. \A w \in work : w[2] = call'[t].ptr => w[1] = call'[t].stream
    BY <1>2, <1>4, <1>5
  <2>3. call'[t].at # "recorded"
    BY <1>4, <1>5
  <2> QED
    BY <1>2, <1>7, <2>1, <2>2, <2>3 DEF PoolInv, Guarded
<1> QED
  BY <1>8, <1>9, <1>10, <1>11, <1>12 DEF PoolInv

(* The block in transit leaves: it is not in live_blocks_ any more.        *)
LEMMA SynchronizeSound ==
  ASSUME PoolInv, NEW t \in Thread, Synchronize(t)
  PROVE  PoolInv'
<1> DEFINE b == call[t].ptr
<1>1. /\ call[t].at = "synchronize"
      /\ failed \/ \A w \in work : w[1] # call[t].stream
      /\ GiveBack(b)
      /\ call' = [call EXCEPT ![t] = Out]
      /\ UNCHANGED <<pending, reusable, events, poller, stop, work, before, failed>>
  BY DEF Synchronize, deviceVars
<1>2. t \in Freeing /\ b \in InTransit /\ b \notin DOMAIN live
  BY <1>1, Places DEF Freeing, InTransit, PoolInv, Placed
<1>3. /\ DOMAIN host' = DOMAIN host \ {b} /\ UNCHANGED <<live, free>>
      /\ PartialFunction(host', Block, Nat)
  BY <1>1, <1>2 DEF GiveBack, Without, Restrict, PoolInv, PoolTypeOK, PartialFunction
<1>4. call \in [Thread -> Call]
  BY DEF PoolInv, PoolTypeOK
<1>5. call' \in [Thread -> Call] /\ call'[t] = Out /\ \A u \in Thread \ {t} : call'[u] = call[u]
  BY <1>1, <1>4, OutType, CallUpdate
<1>6. InTransit' = InTransit \ {b} /\ FreeingApart' /\ Freeing' = Freeing \ {t}
  BY <1>1, <1>2, <1>4, OutType, TransitLeave, Places DEF PoolInv
<1>7. Holding' = Holding /\ \A u \in Holding : call'[u] = call[u]
  BY <1>1, <1>5, OutType DEF Holding
<1>13. \A w \in work : w[2] # b
  BY <1>1, <1>2 DEF PoolInv, Guarded
<1> HIDE DEF b
<1>8. PoolTypeOK'
  BY <1>1, <1>3, <1>5 DEF PoolInv, PoolTypeOK
<1>9. OnePlace'
  BY <1>1, <1>2, <1>3, <1>6, Places, PlacesNext DEF PoolInv, Placed
<1>10. EventsExclusive'
  BY <1>1, <1>5, <1>6 DEF PoolInv, EventsExclusive, Freeing
<1>11. Attended'
  BY <1>1, <1>3, <1>5, <1>7, OutType DEF PoolInv, Attended
<1>12. Guarded'
  BY <1>1, <1>3, <1>5, <1>6, <1>13 DEF PoolInv, Guarded, Freeing
<1> QED
  BY <1>8, <1>9, <1>10, <1>11, <1>12 DEF PoolInv

(* A call goes on with another step, or an event, and the pool's blocks    *)
(* stay where they are.                                                    *)
LEMMA CreateEventSound ==
  ASSUME PoolInv, NEW t \in Thread, CreateEvent(t)
  PROVE  PoolInv'
<1>1. PICK e \in Event \ events :
        /\ events' = events \cup {e}
        /\ call' = [call EXCEPT ![t].event = e]
  BY DEF CreateEvent
<1>2. /\ call[t].at = "leaving" /\ call[t].event = None
      /\ UNCHANGED <<host, live, free, pending, reusable, poller, stop, work, before, failed>>
  BY DEF CreateEvent, poolVars, deviceVars
<1> DEFINE c == [call[t] EXCEPT !.event = e]
<1>3. /\ call \in [Thread -> Call] /\ c \in Call /\ call' = [call EXCEPT ![t] = c]
      /\ c.at = "leaving" /\ c.event = e /\ c.ptr = call[t].ptr /\ c.stream = call[t].stream
  BY <1>1, <1>2 DEF PoolInv, PoolTypeOK, Call
<1> HIDE DEF c
<1>5. call' \in [Thread -> Call] /\ call'[t] = c /\ \A u \in Thread \ {t} : call'[u] = call[u]
  BY <1>3, CallUpdate
<1>6. InTransit' = InTransit /\ FreeingApart' /\ Freeing' = Freeing /\ t \in Freeing
  <2>1. t \in Freeing
    BY <1>2 DEF Freeing
  <2> QED
    BY <2>1, <1>3, TransitSame, Places DEF PoolInv
<1>7. Holding' = Holding /\ t \notin Holding
  BY <1>2, <1>3, <1>5 DEF Holding
<1>8. PoolTypeOK'
  BY <1>1, <1>2, <1>5 DEF PoolInv, PoolTypeOK
<1>9. OnePlace'
  BY <1>2, <1>6, Places, PlacesNext DEF PoolInv
<1>10. EventsExclusive'
  BY <1>1, <1>2, <1>3, <1>5, <1>6 DEF PoolInv, EventsExclusive
<1>11. Attended'
  BY <1>2, <1>3, <1>5, <1>7 DEF PoolInv, Attended
<1>12. Guarded'
  BY <1>2, <1>3, <1>5, <1>6 DEF PoolInv, Guarded
<1> QED
  BY <1>8, <1>9, <1>10, <1>11, <1>12 DEF PoolInv

(* Neither created nor recorded: the event, if any, is gone.               *)
LEMMA NoEventSound ==
  ASSUME PoolInv, NEW t \in Thread, CreateEventFails(t) \/ RecordEventFails(t)
  PROVE  PoolInv'
<1>1. /\ call[t].at = "leaving"
      /\ \/ call[t].event = None /\ events' = events
         \/ call[t].event # None /\ events' = events \ {call[t].event}
      /\ call' = [call EXCEPT ![t].at = "synchronize"]
      /\ UNCHANGED <<host, live, free, pending, reusable, poller, stop, work, before, failed>>
  BY DEF CreateEventFails, RecordEventFails, poolVars, deviceVars
<1> DEFINE c == [call[t] EXCEPT !.at = "synchronize"]
<1>3. /\ call \in [Thread -> Call] /\ c \in Call /\ call' = [call EXCEPT ![t] = c]
      /\ c.at = "synchronize" /\ c.ptr = call[t].ptr /\ c.stream = call[t].stream
  BY <1>1 DEF PoolInv, PoolTypeOK, Call, Step
<1> HIDE DEF c
<1>5. call' \in [Thread -> Call] /\ call'[t] = c /\ \A u \in Thread \ {t} : call'[u] = call[u]
  BY <1>3, CallUpdate
<1>6. InTransit' = InTransit /\ FreeingApart' /\ Freeing' = Freeing /\ t \in Freeing
  <2>1. t \in Freeing
    BY <1>1 DEF Freeing
  <2> QED
    BY <2>1, <1>3, TransitSame, Places DEF PoolInv
<1>7. Holding' = Holding /\ t \notin Holding
  BY <1>1, <1>3, <1>5 DEF Holding
<1>8. PoolTypeOK'
  BY <1>1, <1>5 DEF PoolInv, PoolTypeOK
<1>9. OnePlace'
  BY <1>1, <1>6, Places, PlacesNext DEF PoolInv
<1>10. EventsExclusive'
  BY <1>1, <1>3, <1>5, <1>6 DEF PoolInv, EventsExclusive
<1>11. Attended'
  BY <1>1, <1>3, <1>5, <1>7 DEF PoolInv, Attended
<1>12. Guarded'
  BY <1>1, <1>3, <1>5, <1>6 DEF PoolInv, Guarded
<1> QED
  BY <1>8, <1>9, <1>10, <1>11, <1>12 DEF PoolInv

(* What is unfinished on the stream is behind the event.                   *)
LEMMA RecordEventSound ==
  ASSUME PoolInv, NEW t \in Thread, RecordEvent(t)
  PROVE  PoolInv'
<1> DEFINE e == call[t].event
<1>1. /\ call[t].at = "leaving" /\ e # None /\ ~failed
      /\ before' = [before EXCEPT ![e] = {w \in work : w[1] = call[t].stream}]
      /\ call' = [call EXCEPT ![t].at = "recorded"]
      /\ UNCHANGED <<host, live, free, pending, reusable, events, poller, stop, work, failed>>
  BY DEF RecordEvent, poolVars
<1> DEFINE c == [call[t] EXCEPT !.at = "recorded"]
<1>3. /\ call \in [Thread -> Call] /\ c \in Call /\ call' = [call EXCEPT ![t] = c]
      /\ c.at = "recorded" /\ c.ptr = call[t].ptr /\ c.stream = call[t].stream /\ c.event = e
  BY <1>1 DEF PoolInv, PoolTypeOK, Call, Step
<1> HIDE DEF c
<1>5. call' \in [Thread -> Call] /\ call'[t] = c /\ \A u \in Thread \ {t} : call'[u] = call[u]
  BY <1>3, CallUpdate
<1>6. InTransit' = InTransit /\ FreeingApart' /\ Freeing' = Freeing /\ t \in Freeing
  <2>1. t \in Freeing
    BY <1>1 DEF Freeing
  <2> QED
    BY <2>1, <1>3, TransitSame, Places DEF PoolInv
<1>7. Holding' = Holding /\ t \notin Holding
  BY <1>1, <1>3, <1>5 DEF Holding
<1>13. /\ e \in Event /\ e \notin reusable /\ \A p \in pending : p.event # e
       /\ \A u \in Freeing \ {t} : call[u].at = "recorded" => call[u].event # e
  BY <1>1, <1>6, <1>3 DEF PoolInv, PoolTypeOK, EventsExclusive, Call, Attended, Freeing
<1>14. /\ before' \in [Event -> SUBSET (Stream \X Block)]
       /\ before'[e] = {w \in work : w[1] = call[t].stream}
       /\ \A x \in Event \ {e} : before'[x] = before[x]
  BY <1>1, <1>13 DEF PoolInv, PoolTypeOK
<1> HIDE DEF e
<1>8. PoolTypeOK'
  BY <1>1, <1>5, <1>14 DEF PoolInv, PoolTypeOK
<1>9. OnePlace'
  BY <1>1, <1>6, Places, PlacesNext DEF PoolInv
<1>10. EventsExclusive'
  BY <1>1, <1>3, <1>5, <1>6, <1>13, <1>14 DEF PoolInv, EventsExclusive, PoolTypeOK, e
<1>11. Attended'
  <2>1. ~stop /\ call'[t].event # None
    BY <1>1, <1>3, <1>5 DEF PoolInv, Attended, e
  <2>2. \A u \in Holding : call'[u] = call[u]
    BY <1>5, <1>7 DEF Holding
  <2> QED
    BY <1>1, <1>5, <1>7, <2>1, <2>2 DEF PoolInv, Attended
<1>12. Guarded'
  <2>1. \A p \in pending : p.event \in Event \ {e}
    BY <1>13 DEF PoolInv, PoolTypeOK, Pending
  <2>2. \A u \in Freeing \ {t} : call[u].at = "recorded" => call[u].event \in Event \ {e}
    BY <1>13, <1>3 DEF PoolInv, Attended, Call, Freeing
  <2>3. \A u \in Freeing \ {t} : call'[u] = call[u]
    BY <1>5 DEF Freeing
  <2>4. \A w \in work : w[2] = call'[t].ptr => w \in before'[call'[t].event]
    <3>1. \A w \in work : w[2] = call[t].ptr => w[1] = call[t].stream
      BY <1>1, <1>6 DEF PoolInv, Guarded
    <3>2. call'[t].ptr = call[t].ptr /\ call'[t].event = e
      BY <1>3, <1>5
    <3> QED
      BY <3>1, <3>2, <1>14
  <2>5. call'[t].at = "recorded"
    BY <1>3, <1>5
  <2>6. \A q \in pending : \A w \in work : w[2] = q.ptr => w \in before'[q.event]
    BY <1>14, <2>1 DEF PoolInv, Guarded
  <2>7. \A u \in Freeing \ {t} : \A w \in work : w[2] = call'[u].ptr =>
          IF call'[u].at = "recorded" THEN w \in before'[call'[u].event]
          ELSE w[1] = call'[u].stream
    BY <1>14, <2>2, <2>3 DEF PoolInv, Guarded
  <2>8. \A u \in Freeing' : \A w \in work : w[2] = call'[u].ptr =>
          IF call'[u].at = "recorded" THEN w \in before'[call'[u].event]
          ELSE w[1] = call'[u].stream
    BY <1>6, <2>4, <2>5, <2>7
  <2> QED
    BY <1>1, <2>6, <2>8 DEF PoolInv, Guarded
<1> QED
  BY <1>8, <1>9, <1>10, <1>11, <1>12 DEF PoolInv

(* The block in transit becomes a pending one, with its event.             *)
LEMMA PushPendingSound ==
  ASSUME PoolInv, NEW t \in Thread, PushPending(t)
  PROVE  PoolInv'
<1> DEFINE b == call[t].ptr
           p == [ptr |-> b, size |-> call[t].size, event |-> call[t].event,
                 release |-> call[t].release]
<1>1. /\ call[t].at = "recorded"
      /\ pending' = pending \cup {p}
      /\ poller' \in {poller, "check"} /\ (poller' = "check" => poller \notin {"gone", "destroyed"})
      /\ call' = [call EXCEPT ![t] = Out]
      /\ UNCHANGED <<host, live, free, reusable, events, stop, work, before, failed>>
  BY DEF PushPending, Notified, deviceVars
<1>2. t \in Freeing /\ b \in InTransit /\ call[t].event # None /\ call \in [Thread -> Call]
  BY <1>1 DEF Freeing, InTransit, PoolInv, Attended, PoolTypeOK
<1>3. b \in Block /\ b \notin DOMAIN live \cup DOMAIN free /\ \A q \in pending : q.ptr # b
  BY <1>2, Places DEF PoolInv, PoolTypeOK, PartialFunction, Placed
<1>4. p \in Pending /\ p.ptr = b /\ p.event = call[t].event
  BY <1>2, <1>3 DEF Pending, Call
<1>5. call' \in [Thread -> Call] /\ call'[t] = Out /\ \A u \in Thread \ {t} : call'[u] = call[u]
  BY <1>1, <1>2, OutType, CallUpdate
<1>6. InTransit' = InTransit \ {b} /\ FreeingApart' /\ Freeing' = Freeing \ {t}
  BY <1>1, <1>2, OutType, TransitLeave, Places DEF PoolInv
<1>7. Holding' = Holding
  BY <1>1, <1>5, OutType DEF Holding
<1> HIDE DEF p
<1>8. PoolTypeOK'
  BY <1>1, <1>4, <1>5 DEF PoolInv, PoolTypeOK, Poller
<1>9. OnePlace'
  BY <1>1, <1>2, <1>3, <1>4, <1>6, Places, PlacesNext DEF PoolInv, Placed
<1>10. EventsExclusive'
  BY <1>1, <1>2, <1>4, <1>5, <1>6 DEF PoolInv, EventsExclusive, Freeing
<1>11. Attended'
  BY <1>1, <1>5, <1>7, <1>2, OutType DEF PoolInv, Attended, Holding, Freeing
<1>12. Guarded'
  BY <1>1, <1>2, <1>4, <1>5, <1>6 DEF PoolInv, Guarded, Freeing
<1> QED
  BY <1>8, <1>9, <1>10, <1>11, <1>12 DEF PoolInv


(* What polling does to the invariant, before Allocate takes a block of    *)
(* what it leaves.                                                         *)
LEMMA PolledEvents ==
  ASSUME PoolInv
  PROVE  /\ \A p, q \in pending \ Completed : p.event = q.event => p = q
         /\ \A p \in pending \ Completed : p.event \in Polled.events \ Polled.reusable
         /\ \A e \in Polled.reusable : e \in Polled.events /\ before[e] = {}
         /\ \A e \in events \ reusable : (\A p \in pending : p.event # e) =>
              e \in Polled.events \ Polled.reusable
         /\ Polled.reusable \subseteq Event /\ Polled.events \subseteq Event
<1>1. \A p \in Completed : p \in pending /\ Ready(p.event) /\ p.event \in Event
  BY DEF Completed, PoolInv, PoolTypeOK, Pending
<1>2. /\ \A p, q \in pending : p.event = q.event => p = q
      /\ \A p \in pending : p.event \in events \ reusable
      /\ \A e \in reusable : e \in events /\ before[e] = {}
      /\ reusable \subseteq Event /\ events \subseteq Event
      /\ failed => \A e \in Event : before[e] = {}
  BY DEF PoolInv, PoolTypeOK, EventsExclusive, Guarded
<1>3. CASE failed
  <2>1. /\ Polled.reusable = reusable
        /\ Polled.events = events \ {p.event : p \in Completed}
    BY <1>3 DEF Polled
  <2>2. \A p \in Completed : p.event \notin reusable
    BY <1>1, <1>2
  <2> QED
    BY <1>1, <1>2, <2>1, <2>2
<1>4. CASE ~failed
  <2>1. /\ Polled.reusable = reusable \cup {p.event : p \in Completed}
        /\ Polled.events = events
    BY <1>4 DEF Polled
  <2>2. \A p \in Completed : before[p.event] = {}
    BY <1>1, <1>4 DEF Ready
  <2> QED
    BY <1>1, <1>2, <2>1, <2>2
<1> QED
  BY <1>3, <1>4

(* Polling keeps the blocks in their places and leaves no work on those it *)
(* frees.                                                                  *)
LEMMA PolledPlaces ==
  ASSUME PoolInv
  PROVE  /\ Placed(DOMAIN Polled.host, DOMAIN live, DOMAIN Polled.free, Polled.pending, InTransit)
         /\ FreeingApart
         /\ \A w \in work : w[2] \in DOMAIN Polled.host \ DOMAIN Polled.free
         /\ Polled.pending \subseteq pending
         /\ DOMAIN Polled.host \subseteq Block /\ DOMAIN Polled.free \subseteq Block
<1> DEFINE kept == {p \in Completed : ~p.release}
<1>1. Placed(DOMAIN host, DOMAIN live, DOMAIN free, pending, InTransit) /\ FreeingApart
  BY Places DEF PoolInv
<1>2. Completed \in SUBSET pending /\ kept \in SUBSET Completed
  BY DEF Completed
<1>3. Placed(DOMAIN host \ {p.ptr : p \in Completed \ kept}, DOMAIN live,
             DOMAIN free \cup {p.ptr : p \in kept}, pending \ Completed, InTransit)
  BY <1>1, <1>2, SweepPlaced
<1>4. /\ Polled.pending = pending \ Completed
      /\ DOMAIN Polled.free = DOMAIN free \cup {p.ptr : p \in kept}
      /\ DOMAIN Polled.host = DOMAIN host \ {p.ptr : p \in Completed \ kept}
      /\ \A p \in Completed : \A w \in work : w[2] # p.ptr
  BY PolledShape
<1>5. DOMAIN host \subseteq Block /\ DOMAIN free \subseteq Block
      /\ \A w \in work : w[2] \in DOMAIN host \ DOMAIN free
  BY DEF PoolInv, PoolTypeOK, PartialFunction, Guarded
<1>6. \A p \in Completed : p.ptr \in Block
  BY <1>2 DEF PoolInv, PoolTypeOK, Pending
<1> HIDE DEF kept
<1> QED
  BY <1>1, <1>2, <1>3, <1>4, <1>5, <1>6

(* The events after polling, whatever step polls.                          *)
LEMMA PolledExclusive ==
  ASSUME PoolInv,
         pending' = Polled.pending, reusable' = Polled.reusable, events' = Polled.events,
         before' = before, Freeing' = Freeing, \A u \in Freeing : call'[u] = call[u]
  PROVE  EventsExclusive'
<1>1. /\ \A p, q \in pending' : p.event = q.event => p = q
      /\ \A p \in pending' : p.event \in events' \ reusable'
      /\ \A e \in reusable' : e \in events' /\ before'[e] = {}
      /\ \A e \in events \ reusable : (\A p \in pending : p.event # e) =>
           e \in events' \ reusable'
      /\ pending' \subseteq pending
  BY PolledEvents, PolledShape
<1>2. \A t \in Freeing' : call'[t].at # "synchronize" /\ call'[t].event # None =>
        /\ call'[t].event \in events' \ reusable'
        /\ \A p \in pending' : p.event # call'[t].event
        /\ \A u \in Freeing' :
             (call'[u].at # "synchronize" /\ call'[u].event = call'[t].event) => u = t
  BY <1>1 DEF PoolInv, EventsExclusive
<1> QED
  BY <1>1, <1>2 DEF EventsExclusive

(* A step that polls and moves no thread into or out of a block's hands.   *)
LEMMA SweptSound ==
  ASSUME PoolInv, Swept(Polled), free' = Polled.free,
         UNCHANGED <<live, work, before, failed>>, call' \in [Thread -> Call],
         InTransit' = InTransit, FreeingApart', Freeing' = Freeing, Holding' = Holding,
         \A u \in Freeing \cup Holding : call'[u] = call[u],
         \A u \in Thread : call'[u].at = "recorded" => u \in Freeing,
         stop' \in BOOLEAN, poller' \in Poller,
         stop' => \A u \in Thread : call'[u].at = "out",
         poller' \in {"gone", "destroyed"} => stop'
  PROVE  PoolInv'
<1>1. /\ pending' = Polled.pending /\ reusable' = Polled.reusable
      /\ events' = Polled.events /\ host' = Polled.host
  BY DEF Swept
<1>2. /\ Placed(DOMAIN host', DOMAIN live, DOMAIN free', pending', InTransit)
      /\ \A w \in work : w[2] \in DOMAIN host' \ DOMAIN free'
      /\ pending' \subseteq pending
      /\ DOMAIN host' \subseteq Block /\ DOMAIN free' \subseteq Block
  BY <1>1, PolledPlaces
<1>3. PartialFunction(free', Block, Nat) /\ PartialFunction(host', Block, Nat)
  BY <1>1, <1>2, PolledShape DEF PartialFunction
<1>4. PoolTypeOK'
  BY <1>1, <1>2, <1>3, PolledEvents DEF PoolInv, PoolTypeOK
<1>5. OnePlace'
  BY <1>2, PlacesNext
<1>6. EventsExclusive'
  BY <1>1, PolledExclusive
<1>7. Attended'
  BY DEF PoolInv, Attended, Freeing
<1>8. Guarded'
  BY <1>2 DEF PoolInv, Guarded, Freeing
<1> QED
  BY <1>4, <1>5, <1>6, <1>7, <1>8 DEF PoolInv

(* A size rounded up is a size.                                            *)
LEMMA RoundedNat == \A n \in Request : Rounded(n) \in Nat
<1> SUFFICES ASSUME NEW n \in Request PROVE Rounded(n) \in Nat
  OBVIOUS
<1>1. n \in Nat /\ Granule \in Nat /\ Granule > 0
  BY PoolAssumption
<1>2. (n + Granule - 1) \in Nat
  BY <1>1
<1>3. \A m \in Nat : m \div Granule \in Nat
  BY <1>1
<1>4. \A a, b \in Nat : a * b \in Nat
  OBVIOUS
<1> QED
  BY <1>1, <1>2, <1>3, <1>4 DEF Rounded

(* Polling, and a cached block becomes live.                               *)
LEMMA AllocateCachedSound ==
  ASSUME PoolInv, NEW t \in Thread, NEW n \in Request, AllocateCached(t, n)
  PROVE  PoolInv'
<1>1. PICK b \in DOMAIN Polled.free :
        /\ free' = Without(Polled.free, {b})
        /\ cached' = CachedWithout(Polled, b)
        /\ live' = Put(live, b, Polled.free[b])
        /\ call' = [call EXCEPT ![t] = [Out EXCEPT !.at = "holds", !.ptr = b]]
        /\ Swept(Polled)
  BY DEF AllocateCached
<1>2. /\ call[t].at = "out" /\ ~stop
      /\ UNCHANGED <<poller, stop, work, before, failed>>
      /\ pending' = Polled.pending /\ reusable' = Polled.reusable
      /\ events' = Polled.events /\ host' = Polled.host
  BY <1>1 DEF AllocateCached, deviceVars, Swept
<1>3. /\ Placed(DOMAIN Polled.host, DOMAIN live, DOMAIN Polled.free, Polled.pending, InTransit)
      /\ FreeingApart
      /\ \A w \in work : w[2] \in DOMAIN Polled.host \ DOMAIN Polled.free
      /\ Polled.pending \subseteq pending
      /\ DOMAIN Polled.host \subseteq Block /\ DOMAIN Polled.free \subseteq Block
  BY PolledPlaces
<1>4. /\ \A x \in DOMAIN Polled.free : Polled.free[x] \in Nat
      /\ \A x \in DOMAIN Polled.host : Polled.host[x] \in Nat
      /\ Polled.pending = pending \ Completed
  BY PolledShape
<1> DEFINE c == [Out EXCEPT !.at = "holds", !.ptr = b]
<1>5. c \in Call /\ c.at = "holds" /\ c.ptr = b
  BY <1>3 DEF Out, Call, Step
<1>6. call \in [Thread -> Call]
  BY DEF PoolInv, PoolTypeOK
<1>7. call' \in [Thread -> Call] /\ call'[t] = c /\ \A u \in Thread \ {t} : call'[u] = call[u]
  BY <1>1, <1>5, <1>6, CallUpdate
<1>8. InTransit' = InTransit /\ FreeingApart' /\ Freeing' = Freeing
  BY <1>1, <1>2, <1>3, <1>5, <1>6, TransitSame DEF Freeing
<1> HIDE DEF c
<1>9. /\ DOMAIN free' = DOMAIN Polled.free \ {b}
      /\ DOMAIN live' = DOMAIN live \cup {b}
      /\ PartialFunction(free', Block, Nat)
      /\ PartialFunction(live', Block, Nat)
      /\ PartialFunction(host', Block, Nat)
  BY <1>1, <1>2, <1>3, <1>4 DEF Without, Restrict, Put, PoolInv, PoolTypeOK, PartialFunction
<1>10. PoolTypeOK'
  BY <1>2, <1>3, <1>7, <1>9, PolledEvents DEF PoolInv, PoolTypeOK
<1>11. OnePlace'
  <2>1. Placed(DOMAIN Polled.host, DOMAIN live \cup {b}, DOMAIN Polled.free \ {b},
               Polled.pending, InTransit)
    BY <1>1, <1>3, TakePlaced
  <2> QED
    BY <1>2, <1>8, <1>9, <2>1, PlacesNext
<1>12. EventsExclusive'
  <2>1. \A u \in Freeing : call'[u] = call[u]
    BY <1>2, <1>7 DEF Freeing
  <2> QED
    BY <1>2, <1>8, <2>1, PolledExclusive
<1>13. Attended'
  <2>1. \A u \in Holding : call[u].ptr \in DOMAIN live /\ call[u].ptr # b
    BY <1>3 DEF PoolInv, Attended, Placed
  <2>2. \A u \in Holding' : u = t \/ (u \in Holding /\ u # t /\ call'[u] = call[u])
    BY <1>7 DEF Holding
  <2>3. call'[t].ptr = b /\ call'[t].at = "holds"
    BY <1>5, <1>7
  <2>4. \A u \in Thread : call'[u].at = "recorded" => call'[u].event # None
    BY <1>7, <2>3 DEF PoolInv, Attended
  <2>5. \A x \in DOMAIN live' : \E u \in Holding' : call'[u].ptr = x
    <3>1. t \in Holding' /\ \A u \in Holding : u \in Holding' /\ call'[u] = call[u]
      BY <1>2, <1>7, <2>3 DEF Holding
    <3> QED
      BY <1>9, <2>3, <3>1 DEF PoolInv, Attended
  <2>6. /\ \A u \in Holding' : call'[u].ptr \in DOMAIN live'
        /\ \A u, v \in Holding' : call'[u].ptr = call'[v].ptr => u = v
    BY <1>9, <2>1, <2>2, <2>3 DEF PoolInv, Attended
  <2> QED
    BY <1>2, <2>4, <2>5, <2>6 DEF PoolInv, Attended
<1>14. Guarded'
  BY <1>2, <1>3, <1>7, <1>8, <1>9 DEF PoolInv, Guarded, Freeing
<1> QED
  BY <1>10, <1>11, <1>12, <1>13, <1>14 DEF PoolInv

(* Polling only.                                                           *)
LEMMA AllocateMissedSound ==
  ASSUME PoolInv, NEW t \in Thread, NEW n \in Request, AllocateMissed(t, n)
  PROVE  PoolInv'
<1>1. /\ free' = Polled.free
      /\ call' = [call EXCEPT ![t] = [Out EXCEPT !.at = "hostAlloc", !.size = Rounded(n)]]
      /\ call[t].at = "out" /\ ~stop
      /\ UNCHANGED <<live, poller, stop, work, before, failed>>
      /\ Swept(Polled)
  BY DEF AllocateMissed, deviceVars
<1> DEFINE c == [Out EXCEPT !.at = "hostAlloc", !.size = Rounded(n)]
<1>2. Rounded(n) \in Nat
  BY RoundedNat
<1>3. c \in Call /\ c.at = "hostAlloc"
  BY <1>2 DEF Out, Call, Step
<1>4. call \in [Thread -> Call]
  BY DEF PoolInv, PoolTypeOK
<1>5. call' \in [Thread -> Call] /\ call'[t] = c /\ \A u \in Thread \ {t} : call'[u] = call[u]
  BY <1>1, <1>3, <1>4, CallUpdate
<1>6. InTransit' = InTransit /\ FreeingApart' /\ Freeing' = Freeing
  BY <1>1, <1>3, <1>4, TransitSame, Places DEF PoolInv, Freeing
<1> HIDE DEF c
<1>7. Holding' = Holding
  BY <1>1, <1>3, <1>5 DEF Holding
<1>8. \A u \in Freeing \cup Holding : call'[u] = call[u]
  BY <1>1, <1>5 DEF Freeing, Holding
<1>9. \A u \in Thread : call'[u].at = "recorded" => u \in Freeing
  BY <1>3, <1>5 DEF Freeing
<1>10. /\ poller' \in {"gone", "destroyed"} => stop'
       /\ stop' \in BOOLEAN /\ ~stop' /\ poller' \in Poller
  BY <1>1 DEF PoolInv, Attended, PoolTypeOK
<1> QED
  BY <1>1, <1>5, <1>6, <1>7, <1>8, <1>9, <1>10, SweptSound

(* The polling thread's round.                                             *)
LEMMA PollerPollsSound ==
  ASSUME PoolInv, PollerPolls
  PROVE  PoolInv'
<1>1. /\ Swept(Polled) /\ free' = Polled.free
      /\ UNCHANGED <<live, stop, call, work, before, failed>>
      /\ poller' \in Poller /\ (poller' \in {"gone", "destroyed"} => stop')
  BY DEF PollerPolls, Poller, deviceVars
<1>2. /\ InTransit' = InTransit /\ FreeingApart' /\ Freeing' = Freeing /\ Holding' = Holding
      /\ \A u \in Freeing \cup Holding : call'[u] = call[u]
      /\ \A u \in Thread : call'[u].at = "recorded" => u \in Freeing
  BY <1>1, Places DEF InTransit, Freeing, FreeingApart, Holding, PoolInv
<1> QED
  BY <1>1, <1>2, SweptSound DEF PoolInv, PoolTypeOK, Attended

(* The system has no memory: the call ends.                                *)
LEMMA HostAllocFailsSound ==
  ASSUME PoolInv, NEW t \in Thread, HostAllocFails(t)
  PROVE  PoolInv'
<1>1. /\ call[t].at = "hostAlloc"
      /\ call' = [call EXCEPT ![t] = Out]
      /\ UNCHANGED <<host, live, free, pending, reusable, events, poller, stop>>
      /\ UNCHANGED <<work, before, failed>>
  BY DEF HostAllocFails, poolVars, deviceVars
<1>2. call \in [Thread -> Call]
  BY DEF PoolInv, PoolTypeOK
<1>3. call' \in [Thread -> Call] /\ call'[t] = Out /\ \A u \in Thread \ {t} : call'[u] = call[u]
  BY <1>1, <1>2, OutType, CallUpdate
<1>4. InTransit' = InTransit /\ FreeingApart' /\ Freeing' = Freeing
  BY <1>1, <1>2, OutType, TransitSame, Places DEF PoolInv, Freeing
<1>5. Holding' = Holding /\ \A u \in Freeing \cup Holding : call'[u] = call[u]
  BY <1>1, <1>3, OutType DEF Holding, Freeing
<1>6. PoolTypeOK'
  BY <1>1, <1>3 DEF PoolInv, PoolTypeOK
<1>7. OnePlace'
  BY <1>1, <1>4, Places, PlacesNext DEF PoolInv
<1>8. EventsExclusive'
  BY <1>1, <1>4, <1>5 DEF PoolInv, EventsExclusive
<1>9. Attended'
  BY <1>1, <1>3, <1>5, OutType DEF PoolInv, Attended
<1>10. Guarded'
  BY <1>1, <1>4, <1>5 DEF PoolInv, Guarded
<1> QED
  BY <1>6, <1>7, <1>8, <1>9, <1>10 DEF PoolInv

(* The steps that leave every call as it is.                               *)
LEMMA CallsSame ==
  ASSUME UNCHANGED call
  PROVE  InTransit' = InTransit /\ Freeing' = Freeing /\ Holding' = Holding
         /\ (FreeingApart => FreeingApart')
  BY DEF InTransit, Freeing, Holding, FreeingApart

(* The polling thread sleeps, wakes up, or is told to stop.                *)
LEMMA PollerMovesSound ==
  ASSUME PoolInv, PollerWaits \/ PollerWakes \/ StopPolling
  PROVE  PoolInv'
<1>1. /\ UNCHANGED <<host, live, free, pending, reusable, events, call, work, before, failed>>
      /\ poller' \in Poller /\ stop' \in BOOLEAN
      /\ stop' => \A u \in Thread : call'[u].at = "out"
      /\ poller' \in {"gone", "destroyed"} => stop'
  <2>1. /\ poller \in Poller /\ stop \in BOOLEAN
        /\ stop => \A u \in Thread : call[u].at = "out"
        /\ poller \in {"gone", "destroyed"} => stop
    BY DEF PoolInv, PoolTypeOK, Attended
  <2>2. CASE PollerWaits
    BY <2>1, <2>2 DEF PollerWaits, Poller, poolVars, deviceVars
  <2>3. CASE PollerWakes
    BY <2>1, <2>3 DEF PollerWakes, Poller, poolVars, deviceVars
  <2>4. CASE StopPolling
    BY <2>1, <2>4 DEF StopPolling, Notified, Poller, poolVars, deviceVars
  <2> QED
    BY <2>2, <2>3, <2>4
<1>2. InTransit' = InTransit /\ Freeing' = Freeing /\ Holding' = Holding
      /\ (FreeingApart => FreeingApart')
  BY <1>1, CallsSame
<1>3. PoolTypeOK'
  BY <1>1 DEF PoolInv, PoolTypeOK
<1>4. OnePlace'
  BY <1>1, <1>2, Places, PlacesNext DEF PoolInv
<1>5. EventsExclusive'
  BY <1>1, <1>2 DEF PoolInv, EventsExclusive
<1>6. Attended'
  BY <1>1, <1>2 DEF PoolInv, Attended
<1>7. Guarded'
  BY <1>1, <1>2 DEF PoolInv, Guarded
<1> QED
  BY <1>3, <1>4, <1>5, <1>6, <1>7 DEF PoolInv


(* The destructor: nobody holds a block any more.                          *)
LEMMA DestroyPendingSound ==
  ASSUME PoolInv, NEW p \in pending, DestroyPending(p)
  PROVE  PoolInv'
<1>1. /\ poller = "gone" /\ Ready(p.event)
      /\ pending' = pending \ {p}
      /\ events' = events \ {p.event}
      /\ host' = Without(host, {p.ptr})
      /\ UNCHANGED <<live, free, reusable, poller, stop, call, work, before, failed>>
  BY DEF DestroyPending, deviceVars
<1>2. InTransit' = InTransit /\ Freeing' = Freeing /\ Holding' = Holding
      /\ (FreeingApart => FreeingApart')
  BY <1>1, CallsSame
<1>3. Freeing = {}
  BY <1>1 DEF Freeing, PoolInv, Attended
<1>4. DOMAIN host' = DOMAIN host \ {p.ptr} /\ PartialFunction(host', Block, Nat)
  BY <1>1 DEF Without, Restrict, PoolInv, PoolTypeOK, PartialFunction
<1>5. \A w \in work : w[2] # p.ptr
  BY <1>1 DEF Ready, PoolInv, Guarded, PoolTypeOK, Pending
<1>6. PoolTypeOK'
  BY <1>1, <1>4 DEF PoolInv, PoolTypeOK
<1>7. OnePlace'
  <2>1. Placed(DOMAIN host, DOMAIN live, DOMAIN free, pending, InTransit) /\ FreeingApart
    BY Places DEF PoolInv
  <2>2. Placed(DOMAIN host \ {q.ptr : q \in {p} \ {}}, DOMAIN live,
               DOMAIN free \cup {q.ptr : q \in {}}, pending \ {p}, InTransit)
    BY <2>1, SweepPlaced
  <2>3. {q.ptr : q \in {p} \ {}} = {p.ptr} /\ DOMAIN free \cup {q.ptr : q \in {}} = DOMAIN free
    OBVIOUS
  <2> QED
    BY <1>1, <1>2, <1>4, <2>1, <2>2, <2>3, PlacesNext
<1>8. EventsExclusive'
  BY <1>1, <1>2, <1>3 DEF PoolInv, EventsExclusive
<1>9. Attended'
  BY <1>1, <1>2 DEF PoolInv, Attended
<1>10. Guarded'
  BY <1>1, <1>2, <1>4, <1>5 DEF PoolInv, Guarded
<1> QED
  BY <1>6, <1>7, <1>8, <1>9, <1>10 DEF PoolInv

(* Nothing is left, and the device does nothing with it.                   *)
LEMMA DestroyRestSound ==
  ASSUME PoolInv, DestroyRest
  PROVE  PoolInv' /\ work = {} /\ DOMAIN host' = {}
<1>1. /\ poller = "gone" /\ pending = {}
      /\ host' = Without(host, DOMAIN free \cup DOMAIN live)
      /\ events' = events \ reusable
      /\ free' = [b \in {} |-> 0] /\ live' = [b \in {} |-> 0]
      /\ reusable' = {} /\ poller' = "destroyed"
      /\ UNCHANGED <<pending, stop, call, work, before, failed>>
  BY DEF DestroyRest, deviceVars
<1>2. InTransit' = InTransit /\ Freeing' = Freeing /\ Holding' = Holding
      /\ (FreeingApart => FreeingApart')
  BY <1>1, CallsSame
<1>3. stop /\ Freeing = {} /\ Holding = {} /\ InTransit = {}
  BY <1>1 DEF Freeing, Holding, InTransit, PoolInv, Attended
<1>4. DOMAIN host = DOMAIN free /\ DOMAIN live = {}
  <2>1. DOMAIN live = {}
    BY <1>3 DEF PoolInv, Attended
  <2>2. {p.ptr : p \in pending} = {}
    BY <1>1
  <2> QED
    BY <1>3, <2>1, <2>2 DEF PoolInv, OnePlace
<1>5. work = {}
  BY <1>4 DEF PoolInv, Guarded
<1>6. DOMAIN host' = {} /\ DOMAIN live' = {} /\ DOMAIN free' = {}
  BY <1>1, <1>4 DEF Without, Restrict
<1>7. PoolTypeOK'
  BY <1>1, <1>6 DEF PoolInv, PoolTypeOK, PartialFunction, Poller
<1>8. OnePlace'
  BY <1>1, <1>2, <1>3, <1>6 DEF OnePlace
<1>9. EventsExclusive'
  BY <1>1, <1>2, <1>3 DEF PoolInv, EventsExclusive
<1>10. Attended'
  BY <1>1, <1>2, <1>3, <1>6 DEF PoolInv, Attended
<1>11. Guarded'
  BY <1>1, <1>2, <1>3, <1>5 DEF PoolInv, Guarded
<1> QED
  BY <1>5, <1>6, <1>7, <1>8, <1>9, <1>10, <1>11 DEF PoolInv

-----------------------------------------------------------------------------
(* The device                                                              *)

(* Work is queued on a live block, ends, or is dropped by an error.        *)
LEMMA DeviceSound ==
  ASSUME PoolInv,
         \/ \E t \in Thread, s \in Stream : Launch(t, s)
         \/ \E w \in work : Finish(w)
         \/ Fail
  PROVE  PoolInv'
<1>1. UNCHANGED <<host, live, free, pending, reusable, events, poller, stop, call>>
  BY DEF Launch, Finish, Fail, poolVars
<1>2. InTransit' = InTransit /\ Freeing' = Freeing /\ Holding' = Holding
      /\ (FreeingApart => FreeingApart')
  BY <1>1, CallsSame
<1>3. OnePlace'
  BY <1>1, <1>2, Places, PlacesNext DEF PoolInv
<1>4. Attended'
  BY <1>1, <1>2 DEF PoolInv, Attended
<1>5. ASSUME NEW t \in Thread, NEW s \in Stream, Launch(t, s)
      PROVE  PoolTypeOK' /\ EventsExclusive' /\ Guarded'
  <2>1. /\ call[t].at = "holds" /\ ~failed /\ UNCHANGED <<before, failed>>
        /\ work' = work \cup {<<s, call[t].ptr>>}
    BY <1>5 DEF Launch
  <2>2. /\ call[t].ptr \in DOMAIN live /\ call[t].ptr \in Block
        /\ call[t].ptr \in DOMAIN host \ DOMAIN free
        /\ \A p \in pending : p.ptr # call[t].ptr
        /\ \A u \in Freeing : call[u].ptr # call[t].ptr
    BY <2>1 DEF PoolInv, PoolTypeOK, PartialFunction, Attended, Holding, OnePlace
  <2>3. PoolTypeOK'
    BY <1>1, <2>1, <2>2 DEF PoolInv, PoolTypeOK
  <2>4. EventsExclusive'
    BY <1>1, <1>2, <2>1 DEF PoolInv, EventsExclusive
  <2>5. Guarded'
    BY <1>1, <1>2, <2>1, <2>2 DEF PoolInv, Guarded
  <2> QED
    BY <2>3, <2>4, <2>5
<1>6. ASSUME NEW w \in work, Finish(w)
      PROVE  PoolTypeOK' /\ EventsExclusive' /\ Guarded'
  <2>1. /\ work' = work \ {w} /\ UNCHANGED failed
        /\ before' = [e \in Event |-> before[e] \ {w}]
    BY <1>6 DEF Finish
  <2>2. \A e \in Event : before'[e] = before[e] \ {w}
    BY <2>1
  <2>3. PoolTypeOK'
    BY <1>1, <2>1 DEF PoolInv, PoolTypeOK
  <2>4. EventsExclusive'
    BY <1>1, <1>2, <2>1, <2>2 DEF PoolInv, PoolTypeOK, EventsExclusive
  <2>5. Guarded'
    BY <1>1, <1>2, <2>1, <2>2 DEF PoolInv, PoolTypeOK, Pending, Call, Attended, Freeing, Guarded
  <2> QED
    BY <2>3, <2>4, <2>5
<1>7. ASSUME Fail
      PROVE  PoolTypeOK' /\ EventsExclusive' /\ Guarded'
  BY <1>1, <1>2, <1>7 DEF Fail, PoolInv, PoolTypeOK, EventsExclusive, Guarded
<1> QED
  BY <1>3, <1>4, <1>5, <1>6, <1>7 DEF PoolInv

-----------------------------------------------------------------------------
(* The invariant                                                           *)

(* The constructor establishes the invariant.                              *)
LEMMA PoolInvInit == Init => PoolInv
<1> SUFFICES ASSUME Init PROVE PoolInv
  OBVIOUS
<1>1. call \in [Thread -> Call] /\ \A t \in Thread : call[t].at = "out"
  BY OutType DEF Init
<1>2. Freeing = {} /\ Holding = {} /\ InTransit = {}
  BY <1>1 DEF Freeing, Holding, InTransit
<1>3. DOMAIN host = {} /\ DOMAIN live = {} /\ DOMAIN free = {} /\ pending = {}
  BY DEF Init
<1>4. PoolTypeOK
  BY <1>1, <1>3 DEF Init, PoolTypeOK, PartialFunction, Poller
<1>5. OnePlace
  BY <1>2, <1>3 DEF OnePlace
<1>6. EventsExclusive
  BY <1>2, <1>3 DEF Init, EventsExclusive
<1>7. Attended
  BY <1>1, <1>2, <1>3 DEF Init, Attended
<1>8. Guarded
  BY <1>2, <1>3 DEF Init, Guarded
<1> QED
  BY <1>4, <1>5, <1>6, <1>7, <1>8 DEF PoolInv

(* Nothing happens.                                                        *)
LEMMA StutterSound ==
  ASSUME PoolInv, UNCHANGED vars
  PROVE  PoolInv'
<1>1. /\ UNCHANGED <<host, live, free, pending, reusable, events, poller, stop, call>>
      /\ UNCHANGED <<work, before, failed>>
  BY DEF vars, poolVars, deviceVars
<1>2. InTransit' = InTransit /\ Freeing' = Freeing /\ Holding' = Holding
      /\ (FreeingApart => FreeingApart')
  BY <1>1, CallsSame
<1>3. PoolTypeOK'
  BY <1>1 DEF PoolInv, PoolTypeOK
<1>4. OnePlace'
  BY <1>1, <1>2, Places, PlacesNext DEF PoolInv
<1>5. EventsExclusive'
  BY <1>1, <1>2 DEF PoolInv, EventsExclusive
<1>6. Attended'
  BY <1>1, <1>2 DEF PoolInv, Attended
<1>7. Guarded'
  BY <1>1, <1>2 DEF PoolInv, Guarded
<1> QED
  BY <1>3, <1>4, <1>5, <1>6, <1>7 DEF PoolInv

(* Every step preserves the invariant.                                     *)
LEMMA PoolInvStep ==
  ASSUME PoolInv, [Next]_vars
  PROVE  PoolInv'
<1>1. ASSUME NEW t \in Thread, NEW n \in Request, AllocateCached(t, n) \/ AllocateMissed(t, n)
      PROVE  PoolInv'
  BY <1>1, AllocateCachedSound, AllocateMissedSound
<1>2. ASSUME NEW t \in Thread, InCall(t) \/ FreeCompleted(t)
      PROVE  PoolInv'
  BY <1>2, HostAllocSound, HostAllocFailsSound, CreateEventSound, NoEventSound,
     RecordEventSound, SynchronizeSound, PushPendingSound, FreeCompletedSound DEF InCall
<1>3. ASSUME NEW t \in Thread, NEW s \in Stream, Launch(t, s) \/ FreeAsync(t, s)
      PROVE  PoolInv'
  BY <1>3, DeviceSound, FreeAsyncSound
<1>4. CASE Poll \/ StopPolling
  BY <1>4, PollerMovesSound, PollerPollsSound DEF Poll
<1>5. CASE Destroy
  BY <1>5, DestroyRestSound, DestroyPendingSound DEF Destroy
<1>6. CASE Fail \/ \E w \in work : Finish(w)
  BY <1>6, DeviceSound
<1>7. CASE Ended \/ UNCHANGED vars
  BY <1>7, StutterSound DEF Ended
<1> QED
  BY <1>1, <1>2, <1>3, <1>4, <1>5, <1>6, <1>7 DEF Next

(* The invariant of pinned_host_pool.h, for any number of threads, streams *)
(* and blocks, any cache limit and any sizes.                              *)
THEOREM PoolInvAlways == Spec => []PoolInv
  BY PoolInvInit, PoolInvStep, PTL DEF Spec

(* live_blocks_, free_blocks_, pending_frees_ and the frees under way      *)
(* share out the pinned memory, and none of it is in two places or in none. *)
THEOREM OnePlaceAlways == Spec => []OnePlace
<1>1. PoolInv => OnePlace
  BY DEF PoolInv
<1> QED
  BY <1>1, PoolInvAlways, PTL

(* reusable_events_ and pending_frees_ never share an event: no event is   *)
(* recorded again while a block waits for it.                              *)
THEOREM EventsAlwaysExclusive == Spec => []EventsExclusive
<1>1. PoolInv => EventsExclusive
  BY DEF PoolInv
<1> QED
  BY <1>1, PoolInvAlways, PTL

-----------------------------------------------------------------------------
(* The promise of GuardedReuse                                             *)

(* The blocks that the device works on.                                    *)
Busy == {w[2] : w \in work}

(* The holders' blocks are the live ones.                                  *)
LEMMA HeldIsLive ==
  ASSUME PoolInv
  PROVE  {call[t].ptr : t \in Holding} = DOMAIN live
<1>1. /\ \A t \in Holding : call[t].ptr \in DOMAIN live
      /\ \A b \in DOMAIN live : \E t \in Holding : call[t].ptr = b
  BY DEF PoolInv, Attended
<1> QED
  BY <1>1

(* Blocks in use exist.                                                    *)
LEMMA UseIsMapped ==
  ASSUME PoolInv
  PROVE  DOMAIN live \cup Busy \subseteq DOMAIN host
  BY DEF PoolInv, OnePlace, Guarded, Busy

(* Memory that a thread holds or the device works on was not returned to   *)
(* the system with musaFreeHost.                                           *)
THEOREM NoUseAfterFreeAlways == Spec => []NoUseAfterFree
<1>1. PoolInv => NoUseAfterFree
  BY HeldIsLive, UseIsMapped DEF NoUseAfterFree, Reuse!NoUseAfterFree, Busy
<1> QED
  BY <1>1, PoolInvAlways, PTL

(* What GuardedReuse's variables are, before and after a step.             *)
LEMMA ReuseState ==
  ASSUME PoolInv, PoolInv'
  PROVE  /\ {call[t].ptr : t \in Holding} = DOMAIN live
         /\ {call[t].ptr : t \in Holding}' = DOMAIN live'
         /\ DOMAIN live' \cup Busy' \subseteq DOMAIN host'
<1>1. {call[t].ptr : t \in Holding}' = DOMAIN live'
  <2>1. /\ \A t \in Holding' : call'[t].ptr \in DOMAIN live'
        /\ \A b \in DOMAIN live' : \E t \in Holding' : call'[t].ptr = b
    BY DEF PoolInv, Attended
  <2> QED
    BY <2>1
<1>2. DOMAIN live' \cup Busy' \subseteq DOMAIN host'
  BY DEF PoolInv, OnePlace, Guarded, Busy
<1> QED
  BY <1>1, <1>2, HeldIsLive

(* The five kinds of step as steps of GuardedReuse: a block is given out;  *)
LEMMA AcquireStep ==
  ASSUME PoolInv, PoolInv', NEW b \in Block, b \notin DOMAIN live \cup Busy,
         DOMAIN live' = DOMAIN live \cup {b}, work' = work,
         DOMAIN host' \subseteq DOMAIN host \cup {b}
  PROVE  Reuse!Next
<1>1. \E gone \in SUBSET ((DOMAIN host \cup {b}) \ (DOMAIN live' \cup Busy')) :
        DOMAIN host' = (DOMAIN host \cup {b}) \ gone
  <2> DEFINE gone == (DOMAIN host \cup {b}) \ DOMAIN host'
  <2>1. gone \in SUBSET ((DOMAIN host \cup {b}) \ (DOMAIN live' \cup Busy')) /\ DOMAIN host' = (DOMAIN host \cup {b}) \ gone
    BY ReuseState
  <2> HIDE DEF gone
  <2> QED
    BY <2>1
<1>2. Reuse!Acquire(b)
  BY <1>1, ReuseState DEF Reuse!Acquire, Reuse!Unmap, Busy
<1> QED
  BY <1>2 DEF Reuse!Next

(* a block is given back;                                                  *)
LEMMA DisposeStep ==
  ASSUME PoolInv, PoolInv', NEW b \in Block, b \in DOMAIN live,
         DOMAIN live' = DOMAIN live \ {b}, work' = work, DOMAIN host' \subseteq DOMAIN host
  PROVE  Reuse!Next
<1>1. \E gone \in SUBSET ((DOMAIN host) \ (DOMAIN live' \cup Busy')) :
        DOMAIN host' = (DOMAIN host) \ gone
  <2> DEFINE gone == (DOMAIN host) \ DOMAIN host'
  <2>1. gone \in SUBSET ((DOMAIN host) \ (DOMAIN live' \cup Busy')) /\ DOMAIN host' = (DOMAIN host) \ gone
    BY ReuseState
  <2> HIDE DEF gone
  <2> QED
    BY <2>1
<1>2. Reuse!Dispose(b)
  BY <1>1, ReuseState DEF Reuse!Dispose, Reuse!Unmap, Busy
<1> QED
  BY <1>2 DEF Reuse!Next

(* idle blocks return to the system, or nothing changes;                   *)
LEMMA SweepStep ==
  ASSUME PoolInv, PoolInv', DOMAIN live' = DOMAIN live, work' = work,
         DOMAIN host' \subseteq DOMAIN host
  PROVE  Reuse!Next
<1>1. \E gone \in SUBSET ((DOMAIN host) \ (DOMAIN live' \cup Busy')) :
        DOMAIN host' = (DOMAIN host) \ gone
  <2> DEFINE gone == (DOMAIN host) \ DOMAIN host'
  <2>1. gone \in SUBSET ((DOMAIN host) \ (DOMAIN live' \cup Busy')) /\ DOMAIN host' = (DOMAIN host) \ gone
    BY ReuseState
  <2> HIDE DEF gone
  <2> QED
    BY <2>1
<1>2. Reuse!Sweep
  BY <1>1, ReuseState DEF Reuse!Sweep, Reuse!Unmap, Busy
<1> QED
  BY <1>2 DEF Reuse!Next

(* a holder queues work;                                                   *)
LEMMA LaunchStep ==
  ASSUME PoolInv, PoolInv', NEW t \in Thread, NEW s \in Stream, Launch(t, s)
  PROVE  Reuse!Next
<1>1. /\ call[t].at = "holds" /\ UNCHANGED <<host, live>>
      /\ work' = work \cup {<<s, call[t].ptr>>}
  BY DEF Launch, poolVars
<1>2. PICK b \in Block : b = call[t].ptr /\ b \in DOMAIN live
  BY <1>1 DEF PoolInv, Attended, Holding, PoolTypeOK, PartialFunction
<1>3. work' = work \cup {<<s, b>>}
  BY <1>1, <1>2
<1>4. Busy' = Busy \cup {b}
  <2>1. \A w \in work' : w[2] \in Busy \cup {b}
    BY <1>3 DEF Busy
  <2>2. <<s, b>> \in work' /\ <<s, b>>[2] = b /\ work \subseteq work'
    BY <1>3
  <2>3. Busy \cup {b} \subseteq Busy'
    BY <2>2 DEF Busy
  <2> QED
    BY <2>1, <2>3 DEF Busy
<1>5. Reuse!Launch(b)
  BY <1>1, <1>2, <1>4, ReuseState DEF Reuse!Launch, Busy
<1> QED
  BY <1>5 DEF Reuse!Next

(* work ends.                                                              *)
LEMMA FinishStep ==
  ASSUME PoolInv, PoolInv', UNCHANGED <<host, live>>, work' \subseteq work
  PROVE  Reuse!Next
<1>1. Busy' \subseteq Busy /\ Busy \subseteq Block
  BY DEF Busy, PoolInv, PoolTypeOK
<1>2. PICK S \in SUBSET Block : S = Busy \ Busy'
  BY <1>1
<1>3. Busy' = Busy \ S
  BY <1>1, <1>2
<1>4. Reuse!Finish(S)
  BY <1>3, ReuseState DEF Reuse!Finish, Busy
<1> QED
  BY <1>4 DEF Reuse!Next

(* A step that Allocate begins with.                                       *)
LEMMA PolledUnmaps ==
  ASSUME PoolInv
  PROVE  DOMAIN Polled.host \subseteq DOMAIN host
  BY PolledShape

(* Which of them each action is: Allocate gives a block out, or polls;     *)
LEMMA AllocateReuses ==
  ASSUME PoolInv, PoolInv', NEW t \in Thread, NEW n \in Request,
         AllocateCached(t, n) \/ AllocateMissed(t, n)
  PROVE  Reuse!Next
<1>1. work' = work /\ DOMAIN host' \subseteq DOMAIN host
  BY PolledUnmaps DEF AllocateCached, AllocateMissed, Swept, deviceVars
<1>2. CASE AllocateCached(t, n)
  <2>1. PICK b \in DOMAIN Polled.free : live' = Put(live, b, Polled.free[b])
    BY <1>2 DEF AllocateCached
  <2>2. b \in Block /\ b \notin DOMAIN live \cup Busy
    BY <2>1, PolledPlaces DEF Placed, Busy
  <2>3. DOMAIN live' = DOMAIN live \cup {b}
    BY <2>1 DEF Put
  <2> QED
    BY <1>1, <2>2, <2>3, AcquireStep
<1>3. CASE AllocateMissed(t, n)
  BY <1>1, <1>3, SweepStep DEF AllocateMissed
<1> QED
  BY <1>2, <1>3

(* the rest of Allocate gives out a new one, the rest of FreeAsync sweeps; *)
LEMMA InCallReuses ==
  ASSUME PoolInv, PoolInv', NEW t \in Thread, InCall(t)
  PROVE  Reuse!Next
<1>1. CASE HostAlloc(t)
  <2>1. PICK b \in Block \ DOMAIN host :
          host' = Put(host, b, call[t].size) /\ live' = Put(live, b, call[t].size)
    BY <1>1 DEF HostAlloc
  <2>2. /\ DOMAIN host' = DOMAIN host \cup {b} /\ DOMAIN live' = DOMAIN live \cup {b}
        /\ work' = work /\ b \notin DOMAIN live \cup Busy
    BY <1>1, <2>1, UseIsMapped DEF Put, HostAlloc, deviceVars
  <2> QED
    BY <2>2, AcquireStep
<1>2. CASE Synchronize(t)
  <2>1. t \in Freeing
    BY <1>2 DEF Freeing, Synchronize
  <2>2. call[t].ptr \notin DOMAIN live
    BY <2>1 DEF PoolInv, OnePlace
  <2>3. DOMAIN host' \subseteq DOMAIN host /\ live' = live /\ work' = work
    BY <1>2, <2>2 DEF Synchronize, GiveBack, Without, Restrict, deviceVars
  <2> QED
    BY <2>3, SweepStep
<1>3. CASE HostAllocFails(t) \/ CreateEvent(t) \/ CreateEventFails(t)
           \/ RecordEvent(t) \/ RecordEventFails(t) \/ PushPending(t)
  <2>1. UNCHANGED <<host, live, work>>
    BY <1>3 DEF HostAllocFails, CreateEvent, CreateEventFails, RecordEvent, RecordEventFails,
                PushPending, poolVars, deviceVars
  <2> QED
    BY <2>1, SweepStep
<1> QED
  BY <1>1, <1>2, <1>3 DEF InCall

(* a free begins with giving the block back;                               *)
LEMMA FreeReuses ==
  ASSUME PoolInv, PoolInv', NEW t \in Thread,
         FreeCompleted(t) \/ \E s \in Stream : FreeAsync(t, s)
  PROVE  Reuse!Next
<1>1. call[t].at = "holds" /\ work' = work
  BY DEF FreeCompleted, FreeAsync, deviceVars
<1>2. PICK b \in Block : b = call[t].ptr /\ b \in DOMAIN live
  BY <1>1 DEF PoolInv, Attended, Holding, PoolTypeOK, PartialFunction
<1>3. CASE FreeCompleted(t)
  <2>1. GiveBack(b)
    BY <1>2, <1>3 DEF FreeCompleted
  <2>2. DOMAIN live' = DOMAIN live \ {b} /\ DOMAIN host' \subseteq DOMAIN host
    BY <1>2, <2>1, GiveBackLive
  <2> QED
    BY <1>1, <1>2, <2>2, DisposeStep
<1>4. CASE \E s \in Stream : FreeAsync(t, s)
  <2>1. live' = Without(live, {b}) /\ host' = host
    BY <1>2, <1>4 DEF FreeAsync, LiveWithout
  <2>2. DOMAIN live' = DOMAIN live \ {b}
    BY <2>1 DEF Without, Restrict
  <2> QED
    BY <1>1, <1>2, <2>1, <2>2, DisposeStep
<1> QED
  BY <1>3, <1>4

(* polling and the destructor sweep.                                       *)
LEMMA PollerReuses ==
  ASSUME PoolInv, PoolInv', Poll \/ StopPolling \/ Destroy
  PROVE  Reuse!Next
<1>1. CASE PollerPolls
  <2>1. DOMAIN host' \subseteq DOMAIN host /\ live' = live /\ work' = work
    BY <1>1, PolledUnmaps DEF PollerPolls, Swept, deviceVars
  <2> QED
    BY <2>1, SweepStep
<1>2. CASE PollerWaits \/ PollerWakes \/ StopPolling
  <2>1. UNCHANGED <<host, live, work>>
    BY <1>2 DEF PollerWaits, PollerWakes, StopPolling, poolVars, deviceVars
  <2> QED
    BY <2>1, SweepStep
<1>3. CASE \E p \in pending : DestroyPending(p)
  <2>1. DOMAIN host' \subseteq DOMAIN host /\ live' = live /\ work' = work
    BY <1>3 DEF DestroyPending, Without, Restrict, deviceVars
  <2> QED
    BY <2>1, SweepStep
<1>4. CASE DestroyRest
  <2>1. DOMAIN live = {}
    BY <1>4 DEF DestroyRest, PoolInv, Attended, Holding
  <2>2. DOMAIN live' = {} /\ DOMAIN host' = {} /\ work' = work
    BY <1>4, DestroyRestSound DEF DestroyRest, deviceVars
  <2> QED
    BY <2>1, <2>2, SweepStep
<1> QED
  BY <1>1, <1>2, <1>3, <1>4 DEF Poll, Destroy

(* Every step of the pool is one that GuardedReuse allows, or none.        *)
LEMMA ReuseStep ==
  ASSUME PoolInv, PoolInv', [Next]_vars
  PROVE  [Reuse!Next]_(Reuse!vars)
<1>1. ASSUME NEW t \in Thread, NEW s \in Stream, Launch(t, s)
      PROVE  Reuse!Next
  BY <1>1, LaunchStep
<1>2. CASE Fail \/ \E w \in work : Finish(w)
  <2>1. UNCHANGED <<host, live>> /\ work' \subseteq work
    BY <1>2 DEF Fail, Finish, poolVars
  <2> QED
    BY <2>1, FinishStep
<1>3. CASE Ended \/ UNCHANGED vars
  <2>1. UNCHANGED <<host, live, work>>
    BY <1>3 DEF Ended, vars, poolVars, deviceVars
  <2> QED
    BY <2>1, SweepStep
<1> QED
  BY <1>1, <1>2, <1>3, AllocateReuses, InCallReuses, FreeReuses, PollerReuses DEF Next

(* The pool hands a block out again, or returns it to the system, only     *)
(* when no caller has it and the device has finished with it.              *)
THEOREM PoolImplementsReuse == Spec => ImplementsReuse
<1>1. Init => Reuse!Init
  <2> SUFFICES ASSUME Init PROVE Reuse!Init
    OBVIOUS
  <2>1. PoolInv /\ DOMAIN host = {} /\ DOMAIN live = {} /\ work = {}
    BY PoolInvInit DEF Init
  <2>2. {call[t].ptr : t \in Holding} = {}
    BY <2>1, HeldIsLive
  <2> QED
    BY <2>1, <2>2 DEF Reuse!Init
<1>2. PoolInv /\ PoolInv' /\ [Next]_vars => [Reuse!Next]_(Reuse!vars)
  BY ReuseStep
<1> QED
  BY <1>1, <1>2, PoolInvAlways, PTL DEF Spec, ImplementsReuse, Reuse!Spec


-----------------------------------------------------------------------------
(* cached_bytes_                                                           *)

(* cached_bytes_ is the total of the cached blocks, of which there are     *)
(* finitely many; so are the pending ones, which polling adds to them.     *)
CachedInv ==
  /\ IsFiniteSet(pending)
  /\ Weights(free, DOMAIN free)
  /\ cached = Total(free, DOMAIN free)

(* The sizes of pending records.                                           *)
PendingSize(K) == [p \in K |-> p.size]

(* The sum that polling adds is a total.                                   *)
LEMMA PendingTotal ==
  ASSUME NEW K, IsFiniteSet(K)
  PROVE  MapThenSumSet(LAMBDA p : p.size, K) = Total(PendingSize(K), K)
<1> DEFINE w == PendingSize(K)
           P(g) == g = [s \in SUBSET K |->
                          IF s = {} THEN 0 ELSE Pick(s).size + g[s \ {Pick(s)}]]
           f == CHOOSE g : P(g)
<1>1. MapThenSumSet(LAMBDA p : p.size, K) = f[K]
  BY DEF MapThenSumSet, MapThenFoldSet, Pick
<1>2. \A g : P(g) <=> Summing(w, K, g)
  <2> SUFFICES ASSUME NEW g
               PROVE  [s \in SUBSET K |-> IF s = {} THEN 0 ELSE Pick(s).size + g[s \ {Pick(s)}]]
                       = [s \in SUBSET K |-> IF s = {} THEN 0 ELSE w[Pick(s)] + g[s \ {Pick(s)}]]
    BY DEF Summing
  <2>1. \A s \in SUBSET K : s # {} => w[Pick(s)] = Pick(s).size
    BY DEF Pick, PendingSize
  <2> HIDE DEF w
  <2> QED
    BY <2>1
<1>3. P(f)
  <2>1. \E g : P(g)
    <3> HIDE DEF P
    <3> QED
      BY <1>2, SummingExists
  <2> HIDE DEF P
  <2> QED
    BY <2>1
<1>4. Summing(w, K, f)
  <2> HIDE DEF P, f
  <2> QED
    BY <1>2, <1>3
<1>5. Total(w, K) = f[K]
  <2> HIDE DEF P, f, w
  <2> QED
    BY <1>4, TotalIs
<1> QED
  BY <1>1, <1>5

(* Polling adds each block that it caches once.                            *)
LEMMA PolledCached ==
  ASSUME PoolInv, CachedInv
  PROVE  /\ IsFiniteSet(Polled.pending)
         /\ Weights(Polled.free, DOMAIN Polled.free)
         /\ Polled.cached = Total(Polled.free, DOMAIN Polled.free)
<1> DEFINE kept == {p \in Completed : ~p.release}
           g    == Polled.free
           D    == {p.ptr : p \in kept}
           at   == [p \in kept |-> p.ptr]
<1>1. /\ kept \subseteq pending
      /\ \A p \in kept : p.size \in Nat /\ p.ptr \in Block /\ p.ptr \notin DOMAIN free
      /\ \A p, q \in kept : p.ptr = q.ptr => p = q
  BY DEF PoolInv, PoolTypeOK, Pending, OnePlace, Completed
<1>2. /\ Polled.pending = pending \ Completed
      /\ Polled.cached = cached + MapThenSumSet(LAMBDA p : p.size, kept)
      /\ g = [b \in DOMAIN free \cup D |->
                IF b \in DOMAIN free THEN free[b] ELSE (CHOOSE p \in kept : p.ptr = b).size]
  BY DEF Polled
<1>3. IsFiniteSet(kept) /\ IsFiniteSet(pending \ Completed)
  BY <1>1, FS_Subset DEF CachedInv
<1> HIDE DEF kept, g
<1>4. \A p \in kept : (CHOOSE q \in kept : q.ptr = p.ptr) = p
  BY <1>1
<1>5. /\ DOMAIN g = DOMAIN free \cup D
      /\ \A b \in DOMAIN free : g[b] = free[b]
      /\ \A p \in kept : p.ptr \in D /\ g[p.ptr] = p.size
  <2>1. DOMAIN g = DOMAIN free \cup D /\ \A b \in DOMAIN free : g[b] = free[b]
    BY <1>2
  <2>2. ASSUME NEW p \in kept PROVE p.ptr \in D /\ g[p.ptr] = p.size
    <3>1. p.ptr \in D /\ p.ptr \notin DOMAIN free
      BY <1>1
    <3>2. g[p.ptr] = (CHOOSE q \in kept : q.ptr = p.ptr).size
      BY <3>1, <1>2
    <3> QED
      BY <3>1, <3>2, <1>4
  <2> QED
    BY <2>1, <2>2
<1> DEFINE w == PendingSize(kept)
<1>6. Weights(w, kept) /\ \A p \in kept : w[p] = p.size
  BY <1>1, <1>3 DEF PendingSize, Weights
<1>7. /\ \A p \in kept : at[p] = p.ptr
      /\ {at[p] : p \in kept} = D
  OBVIOUS
<1> HIDE DEF D, at, w
<1>8. /\ \A p, q \in kept : at[p] = at[q] => p = q
      /\ \A p \in kept : g[at[p]] = w[p]
  BY <1>1, <1>5, <1>6, <1>7
<1>9. /\ IsFiniteSet({at[p] : p \in kept})
      /\ Total(g, {at[p] : p \in kept}) = Total(w, kept)
  BY <1>6, <1>8, TotalImage
<1>10. IsFiniteSet(D) /\ Total(g, D) = Total(w, kept)
  BY <1>7, <1>9, Zenon
<1>11. D \cap DOMAIN free = {} /\ \A b \in D : g[b] \in Int
  BY <1>1, <1>5 DEF D
<1>12. /\ Weights(g, DOMAIN g)
       /\ Total(g, DOMAIN g) = Total(free, DOMAIN free) + Total(g, D)
  BY <1>5, <1>10, <1>11, TotalJoin DEF CachedInv
<1>13. MapThenSumSet(LAMBDA p : p.size, kept) = Total(w, kept)
  BY <1>3, PendingTotal DEF w
<1> QED
  BY <1>2, <1>3, <1>10, <1>12, <1>13 DEF g, CachedInv

(* Allocate takes block b out of the cached ones g, which total n.         *)
LEMMA CachedTaken ==
  ASSUME NEW g, Weights(g, DOMAIN g), NEW b \in DOMAIN g,
         NEW n, n = Total(g, DOMAIN g), NEW h, h = Without(g, {b})
  PROVE  Weights(h, DOMAIN h) /\ n - g[b] = Total(h, DOMAIN h)
<1>1. h = Restrict(g, DOMAIN g \ {b}) /\ {b} \subseteq DOMAIN g
  BY DEF Without
<1>2. Total(h, DOMAIN h) = Total(g, DOMAIN g) - Total(g, {b}) /\ IsFiniteSet(DOMAIN h)
  BY <1>1, TotalRestrict
<1>3. Total(g, {b}) = g[b]
  BY TotalOne DEF Weights
<1>4. \A x \in DOMAIN h : h[x] \in Int
  BY <1>1 DEF Restrict, Weights
<1> QED
  BY <1>2, <1>3, <1>4 DEF Weights

(* FreeCompleted adds the block that it caches.                            *)
LEMMA GiveBackCached ==
  ASSUME PoolInv, CachedInv, NEW b \in DOMAIN live, GiveBack(b)
  PROVE  Weights(free', DOMAIN free') /\ cached' = Total(free', DOMAIN free')
<1>1. CASE ShouldRelease(live[b])
  BY <1>1 DEF GiveBack, CachedInv
<1>2. CASE ~ShouldRelease(live[b])
  <2>1. free' = Put(free, b, live[b]) /\ cached' = cached + live[b]
    BY <1>2 DEF GiveBack
  <2>2. b \notin DOMAIN free /\ live[b] \in Int
    BY DEF PoolInv, OnePlace, PoolTypeOK, PartialFunction
  <2>3. free' = [x \in DOMAIN free \cup {b} |-> IF x = b THEN live[b] ELSE free[x]]
    BY <2>1 DEF Put
  <2>4. Total(free', DOMAIN free') = Total(free, DOMAIN free) + live[b] /\ IsFiniteSet(DOMAIN free')
    BY <2>2, <2>3, TotalExtend DEF CachedInv
  <2>5. \A x \in DOMAIN free' : free'[x] \in Int
    BY <2>2, <2>3 DEF CachedInv, Weights
  <2> QED
    BY <2>1, <2>4, <2>5 DEF CachedInv, Weights
<1> QED
  BY <1>1, <1>2

(* Steps that leave the cached blocks and their count alone, and add at    *)
(* most one pending record.                                                *)
LEMMA CachedStays ==
  ASSUME CachedInv, free' = free, cached' = cached, IsFiniteSet(pending')
  PROVE  CachedInv'
  BY DEF CachedInv

(* Every step keeps the count exact.                                       *)
LEMMA CachedStep ==
  ASSUME PoolInv, CachedInv, [Next]_vars
  PROVE  CachedInv'
<1> USE DEF poolVars, deviceVars
<1>1. ASSUME NEW t \in Thread, NEW n \in Request, AllocateCached(t, n)
      PROVE  CachedInv'
  <2>1. PICK b \in DOMAIN Polled.free :
          /\ free' = Without(Polled.free, {b})
          /\ cached' = CachedWithout(Polled, b)
          /\ pending' = Polled.pending
    BY <1>1, Zenon DEF AllocateCached, Swept
  <2>2. cached' = Polled.cached - Polled.free[b]
    BY <2>1 DEF CachedWithout
  <2>3. /\ IsFiniteSet(Polled.pending)
        /\ Weights(Polled.free, DOMAIN Polled.free)
        /\ Polled.cached = Total(Polled.free, DOMAIN Polled.free)
    BY PolledCached
  <2>4. Weights(free', DOMAIN free') /\ Polled.cached - Polled.free[b] = Total(free', DOMAIN free')
    BY <2>1, <2>3, CachedTaken
  <2> QED
    BY <2>1, <2>2, <2>3, <2>4 DEF CachedInv
<1>2. ASSUME \/ \E t \in Thread, n \in Request : AllocateMissed(t, n)
             \/ PollerPolls
      PROVE  CachedInv'
  <2>1. free' = Polled.free /\ cached' = Polled.cached /\ pending' = Polled.pending
    BY <1>2 DEF AllocateMissed, PollerPolls, Swept
  <2> QED
    BY <2>1, PolledCached DEF CachedInv
<1>3. ASSUME NEW t \in Thread, FreeCompleted(t) \/ Synchronize(t)
      PROVE  CachedInv'
  <2>1. GiveBack(call[t].ptr) /\ pending' = pending
    BY <1>3 DEF FreeCompleted, Synchronize
  <2>2. CASE call[t].ptr \in DOMAIN live
    BY <2>1, <2>2, GiveBackCached DEF CachedInv
  <2>3. CASE call[t].ptr \notin DOMAIN live
    BY <2>1, <2>3 DEF GiveBack, CachedInv
  <2> QED
    BY <2>2, <2>3
<1>4. ASSUME NEW t \in Thread, PushPending(t)
      PROVE  CachedInv'
  <2>1. IsFiniteSet(pending') /\ free' = free /\ cached' = cached
    BY <1>4, FS_AddElement DEF PushPending, CachedInv
  <2> QED
    BY <2>1, CachedStays
<1>5. ASSUME NEW p \in pending, DestroyPending(p)
      PROVE  CachedInv'
  <2>1. IsFiniteSet(pending') /\ free' = free /\ cached' = cached
    BY <1>5, FS_RemoveElement DEF DestroyPending, CachedInv
  <2> QED
    BY <2>1, CachedStays
<1>6. ASSUME DestroyRest
      PROVE  CachedInv'
  <2>1. DOMAIN free' = {} /\ cached' = 0 /\ pending' = pending
    BY <1>6 DEF DestroyRest
  <2>2. Weights(free', {}) /\ Total(free', {}) = 0
    BY FS_EmptySet, TotalEmpty DEF Weights
  <2> QED
    BY <2>1, <2>2 DEF CachedInv
<1>7. ASSUME UNCHANGED <<free, cached, pending>>
      PROVE  CachedInv'
  BY <1>7, CachedStays DEF CachedInv
<1>8. ASSUME NEW t \in Thread, InCall(t)
      PROVE  CachedInv'
  <2>1. ASSUME \/ HostAlloc(t) \/ HostAllocFails(t) \/ CreateEvent(t) \/ CreateEventFails(t)
               \/ RecordEvent(t) \/ RecordEventFails(t)
        PROVE  UNCHANGED <<free, cached, pending>>
    BY <2>1 DEF HostAlloc, HostAllocFails, CreateEvent, CreateEventFails,
                RecordEvent, RecordEventFails
  <2> QED
    BY <1>8, <1>7, <2>1, <1>3, <1>4 DEF InCall
<1>9. ASSUME \/ \E t \in Thread, s \in Stream : Launch(t, s) \/ FreeAsync(t, s)
             \/ PollerWaits \/ PollerWakes \/ StopPolling
             \/ \E w \in work : Finish(w)
             \/ Fail \/ Ended \/ UNCHANGED vars
      PROVE  UNCHANGED <<free, cached, pending>>
  BY <1>9 DEF Launch, FreeAsync, PollerWaits, PollerWakes, StopPolling, Finish, Fail, Ended, vars
<1> QED
  BY <1>1, <1>2, <1>3, <1>5, <1>6, <1>7, <1>8, <1>9 DEF Next, Poll, Destroy

(* cached_bytes_ is at all times the size of the cached blocks, however    *)
(* many threads allocate, give back and poll: it does not drift, so that   *)
(* the limit of the pool is held against what is really cached.            *)
THEOREM CachedAlwaysExact == Spec => []CachedExact
<1>1. Init => CachedInv
  BY FS_EmptySet, TotalEmpty DEF Init, CachedInv, Weights
<1>2. CachedInv => CachedExact
  BY SumIsTotal DEF CachedInv, CachedExact
<1> QED
  BY <1>1, <1>2, CachedStep, PoolInvAlways, PTL DEF Spec

-----------------------------------------------------------------------------
(* What the destructor leaves                                              *)

(* The threads whose FreeAsync still has its event.                        *)
Carriers == {t \in Thread : call[t].at \in {"leaving", "recorded"}}

(* The events in the hands of a FreeAsync.                                 *)
Carried == {call[t].event : t \in Carriers}

(* No event is forgotten: each one can be used again, guards a pending     *)
(* block, or is in the hands of a FreeAsync.                               *)
EventsKept == events \subseteq reusable \cup {p.event : p \in pending} \cup Carried

(* What is known of events at every step and of everything at the end.     *)
EndInv == EventsKept /\ DestroyedIsEmpty

(* While calls are as they are, what is carried is.                        *)
LEMMA CarriedSame ==
  ASSUME call' = call
  PROVE  Carried' = Carried
  BY DEF Carried, Carriers

(* A thread that carries no event comes, goes or begins.                   *)
LEMMA CarriedGrows ==
  ASSUME call \in [Thread -> Call], NEW t \in Thread, NEW c \in Call,
         call' = [call EXCEPT ![t] = c],
         \/ t \notin Carriers
         \/ call[t].event = c.event /\ c.at \in {"leaving", "recorded"}
  PROVE  Carried \subseteq Carried' /\ (c.at \in {"leaving", "recorded"} => c.event \in Carried')
<1>1. call'[t] = c /\ \A u \in Thread \ {t} : call'[u] = call[u]
  BY CallUpdate
<1>2. \A u \in Carriers : u \in Carriers' /\ call'[u].event = call[u].event
  BY <1>1 DEF Carriers
<1>3. c.at \in {"leaving", "recorded"} => t \in Carriers'
  BY <1>1 DEF Carriers
<1> QED
  BY <1>1, <1>2, <1>3 DEF Carried

(* A thread gives up the event that it carries.                            *)
LEMMA CarriedShrinks ==
  ASSUME call \in [Thread -> Call], NEW t \in Thread, NEW c \in Call,
         call' = [call EXCEPT ![t] = c]
  PROVE  Carried \subseteq Carried' \cup {call[t].event}
<1>1. call'[t] = c /\ \A u \in Thread \ {t} : call'[u] = call[u]
  BY CallUpdate
<1>2. \A u \in Carriers : u # t => u \in Carriers' /\ call'[u].event = call[u].event
  BY <1>1 DEF Carriers
<1> QED
  BY <1>2 DEF Carried

(* Polling keeps or destroys the event of each record that it takes out.   *)
LEMMA PolledKept ==
  ASSUME PoolInv, EventsKept
  PROVE  Polled.events \subseteq Polled.reusable \cup {p.event : p \in Polled.pending} \cup Carried
<1>1. Polled.pending = pending \ Completed
  BY DEF Polled
<1>2. CASE failed
  <2>1. Polled.reusable = reusable /\ Polled.events = events \ {p.event : p \in Completed}
    BY <1>2 DEF Polled
  <2> QED
    BY <1>1, <2>1 DEF EventsKept
<1>3. CASE ~failed
  <2>1. Polled.reusable = reusable \cup {p.event : p \in Completed} /\ Polled.events = events
    BY <1>3 DEF Polled
  <2> QED
    BY <1>1, <2>1 DEF EventsKept
<1> QED
  BY <1>2, <1>3

(* A thread in the pool: no event is forgotten.                            *)
LEMMA InCallKept ==
  ASSUME PoolInv, EventsKept, NEW t \in Thread, InCall(t) \/ FreeCompleted(t)
  PROVE  EventsKept'
<1>1. call \in [Thread -> Call] /\ call[t] \in Call
  BY DEF PoolInv, PoolTypeOK
<1> USE DEF poolVars, deviceVars
<1>2. ASSUME NEW c \in Call, call' = [call EXCEPT ![t] = c], t \notin Carriers,
             UNCHANGED <<events, reusable, pending>>
      PROVE  EventsKept'
  <2>1. Carried \subseteq Carried'
    BY <1>1, <1>2, CarriedGrows
  <2> QED
    BY <1>2, <2>1 DEF EventsKept
<1>3. CASE HostAlloc(t)
  <2>1. PICK b \in Block : call' = [call EXCEPT ![t] = [Out EXCEPT !.at = "holds", !.ptr = b]]
    BY <1>3 DEF HostAlloc
  <2>2. [Out EXCEPT !.at = "holds", !.ptr = b] \in Call
    BY DEF Out, Call, Step
  <2>3. t \notin Carriers /\ UNCHANGED <<events, reusable, pending>>
    BY <1>3 DEF HostAlloc, Carriers
  <2> QED
    BY <1>2, <2>1, <2>2, <2>3
<1>4. CASE HostAllocFails(t) \/ FreeCompleted(t) \/ Synchronize(t)
  <2>1. call' = [call EXCEPT ![t] = Out] /\ t \notin Carriers /\ UNCHANGED <<events, reusable, pending>>
    BY <1>4 DEF HostAllocFails, FreeCompleted, Synchronize, Carriers
  <2> QED
    BY <1>2, <2>1, OutType
<1>5. CASE CreateEvent(t)
  <2>1. PICK e \in Event : events' = events \cup {e} /\ call' = [call EXCEPT ![t].event = e]
    BY <1>5 DEF CreateEvent
  <2>2. /\ call[t].at = "leaving" /\ call[t].event = None
        /\ UNCHANGED <<reusable, pending>>
    BY <1>5 DEF CreateEvent
  <2> DEFINE c == [call[t] EXCEPT !.event = e]
  <2>3. c \in Call /\ c.at = "leaving" /\ c.event = e /\ call' = [call EXCEPT ![t] = c]
    BY <1>1, <2>1, <2>2 DEF Call
  <2>4. call'[t] = c /\ \A u \in Thread \ {t} : call'[u] = call[u]
    BY <1>1, <2>3, CallUpdate
  <2>5. e \in Carried'
    BY <2>3, <2>4 DEF Carried, Carriers
  <2>6. events \subseteq reusable \cup {p.event : p \in pending} \cup Carried' 
    <3>1. Carried \subseteq Carried' \cup {None}
      BY <1>1, <2>2, <2>3, CarriedShrinks
    <3>2. None \notin events
      BY PoolAssumption DEF PoolInv, PoolTypeOK
    <3> QED
      BY <3>1, <3>2 DEF EventsKept
  <2> QED
    BY <2>1, <2>2, <2>5, <2>6 DEF EventsKept
<1>6. CASE CreateEventFails(t)
  <2>1. /\ call' = [call EXCEPT ![t].at = "synchronize"] /\ call[t].event = None
        /\ UNCHANGED <<events, reusable, pending>>
    BY <1>6 DEF CreateEventFails
  <2> DEFINE c == [call[t] EXCEPT !.at = "synchronize"]
  <2>2. c \in Call /\ call' = [call EXCEPT ![t] = c]
    BY <1>1, <2>1 DEF Call, Step
  <2>3. Carried \subseteq Carried' \cup {None}
    BY <1>1, <2>1, <2>2, CarriedShrinks
  <2>4. None \notin events
    BY PoolAssumption DEF PoolInv, PoolTypeOK
  <2> QED
    BY <2>1, <2>3, <2>4 DEF EventsKept
<1>7. CASE RecordEvent(t)
  <2>1. /\ call' = [call EXCEPT ![t].at = "recorded"] /\ call[t].at = "leaving"
        /\ UNCHANGED <<events, reusable, pending>>
    BY <1>7 DEF RecordEvent
  <2> DEFINE c == [call[t] EXCEPT !.at = "recorded"]
  <2>2. c \in Call /\ call' = [call EXCEPT ![t] = c] /\ c.at = "recorded" /\ c.event = call[t].event
    BY <1>1, <2>1 DEF Call, Step
  <2>3. Carried \subseteq Carried'
    BY <1>1, <2>2, CarriedGrows
  <2> QED
    BY <2>1, <2>3 DEF EventsKept
<1>8. CASE RecordEventFails(t)
  <2>1. /\ call' = [call EXCEPT ![t].at = "synchronize"]
        /\ events' = events \ {call[t].event}
        /\ UNCHANGED <<reusable, pending>>
    BY <1>8 DEF RecordEventFails
  <2> DEFINE c == [call[t] EXCEPT !.at = "synchronize"]
  <2>2. c \in Call /\ call' = [call EXCEPT ![t] = c]
    BY <1>1, <2>1 DEF Call, Step
  <2>3. Carried \subseteq Carried' \cup {call[t].event}
    BY <1>1, <2>2, CarriedShrinks
  <2> QED
    BY <2>1, <2>3 DEF EventsKept
<1>9. CASE PushPending(t)
  <2>1. PICK p \in pending' : p.event = call[t].event /\ pending' = pending \cup {p}
    BY <1>9 DEF PushPending
  <2>2. call' = [call EXCEPT ![t] = Out] /\ UNCHANGED <<events, reusable>>
    BY <1>9 DEF PushPending
  <2>3. Carried \subseteq Carried' \cup {call[t].event}
    BY <1>1, <2>2, OutType, CarriedShrinks
  <2> QED
    BY <2>1, <2>2, <2>3 DEF EventsKept
<1> QED
  BY <1>3, <1>4, <1>5, <1>6, <1>7, <1>8, <1>9 DEF InCall

(* FreeAsync takes its event out of the reusable ones.                     *)
LEMMA FreeAsyncKept ==
  ASSUME PoolInv, EventsKept, NEW t \in Thread, NEW s \in Stream, FreeAsync(t, s)
  PROVE  EventsKept'
<1>1. PICK e \in IF reusable = {} THEN {None} ELSE reusable :
        /\ reusable' = reusable \ {e}
        /\ call' = [call EXCEPT ![t] =
                      [at |-> "leaving", ptr |-> call[t].ptr, size |-> live[call[t].ptr],
                       event |-> e, release |-> ShouldRelease(live[call[t].ptr]), stream |-> s]]
  BY DEF FreeAsync, ReusableWithout
<1>2. call[t].at = "holds" /\ events' = events /\ pending' = pending
  BY DEF FreeAsync
<1> DEFINE c == [at |-> "leaving", ptr |-> call[t].ptr, size |-> live[call[t].ptr],
                 event |-> e, release |-> ShouldRelease(live[call[t].ptr]), stream |-> s]
<1>3. call[t].ptr \in DOMAIN live
  BY <1>2 DEF PoolInv, Attended, Holding
<1>4. c \in Call /\ c.at = "leaving" /\ c.event = e
  BY <1>3 DEF PoolInv, PoolTypeOK, PartialFunction, Call, Step, ShouldRelease
<1>5. t \notin Carriers /\ call \in [Thread -> Call] /\ call' = [call EXCEPT ![t] = c]
  BY <1>1, <1>2 DEF Carriers, PoolInv, PoolTypeOK
<1> HIDE DEF c
<1>6. Carried \subseteq Carried' /\ e \in Carried'
  BY <1>4, <1>5, CarriedGrows
<1> QED
  BY <1>1, <1>2, <1>6 DEF EventsKept

(* Allocate polls.                                                         *)
LEMMA AllocateKept ==
  ASSUME PoolInv, EventsKept, NEW t \in Thread, NEW n \in Request,
         AllocateCached(t, n) \/ AllocateMissed(t, n)
  PROVE  EventsKept'
<1>1. Swept(Polled) /\ t \notin Carriers
  BY DEF AllocateCached, AllocateMissed, Carriers
<1>2. \E c \in Call : call' = [call EXCEPT ![t] = c]
  <2>1. CASE AllocateCached(t, n)
    <3>1. PICK b \in DOMAIN Polled.free :
            call' = [call EXCEPT ![t] = [Out EXCEPT !.at = "holds", !.ptr = b]]
      BY <2>1 DEF AllocateCached
    <3>2. b \in Block
      <4>1. DOMAIN Polled.free \subseteq Block
        BY PolledShape DEF PoolInv, PoolTypeOK, PartialFunction, Pending
      <4> QED
        BY <4>1
    <3>3. [Out EXCEPT !.at = "holds", !.ptr = b] \in Call
      BY <3>2 DEF Out, Call, Step
    <3> QED
      BY <3>1, <3>3
  <2>2. CASE AllocateMissed(t, n)
    <3>1. call' = [call EXCEPT ![t] = [Out EXCEPT !.at = "hostAlloc", !.size = Rounded(n)]]
      BY <2>2 DEF AllocateMissed
    <3>2. [Out EXCEPT !.at = "hostAlloc", !.size = Rounded(n)] \in Call
      BY RoundedNat DEF Out, Call, Step
    <3> QED
      BY <3>1, <3>2
  <2> QED
    BY <2>1, <2>2
<1>3. Carried \subseteq Carried'
  <2>1. PICK c \in Call : call' = [call EXCEPT ![t] = c]
    BY <1>2
  <2>2. call \in [Thread -> Call]
    BY DEF PoolInv, PoolTypeOK
  <2> QED
    BY <1>1, <2>1, <2>2, CarriedGrows
<1> QED
  BY <1>1, <1>3, PolledKept DEF Swept, EventsKept

(* No step forgets an event.                                               *)
LEMMA EventsKeptStep ==
  ASSUME PoolInv, EventsKept, [Next]_vars
  PROVE  EventsKept'
<1> USE DEF poolVars, deviceVars
<1>1. CASE PollerPolls
  <2>1. Swept(Polled) /\ call' = call
    BY <1>1 DEF PollerPolls
  <2> QED
    BY <2>1, PolledKept, CarriedSame DEF Swept, EventsKept
<1>2. ASSUME NEW p \in pending, DestroyPending(p)
      PROVE  EventsKept'
  <2>1. /\ events' = events \ {p.event} /\ pending' = pending \ {p}
        /\ reusable' = reusable /\ call' = call
    BY <1>2 DEF DestroyPending
  <2> QED
    BY <2>1, CarriedSame DEF EventsKept
<1>3. CASE DestroyRest
  <2>1. events' = events \ reusable /\ reusable' = {} /\ pending' = pending /\ call' = call
    BY <1>3 DEF DestroyRest
  <2> QED
    BY <2>1, CarriedSame DEF EventsKept
<1>4. CASE \/ \E t \in Thread, s \in Stream : Launch(t, s)
           \/ PollerWaits \/ PollerWakes \/ StopPolling
           \/ \E w \in work : Finish(w)
           \/ Fail \/ Ended \/ UNCHANGED vars
  <2>1. UNCHANGED <<events, pending, reusable, call>>
    BY <1>4 DEF Launch, PollerWaits, PollerWakes, StopPolling, Finish, Fail, Ended, vars
  <2> QED
    BY <2>1, CarriedSame DEF EventsKept
<1> QED
  BY <1>1, <1>2, <1>3, <1>4, AllocateKept, FreeAsyncKept, InCallKept DEF Next, Poll, Destroy

(* The destructor's last step leaves nothing, and nothing comes back.      *)
LEMMA DestroyedStep ==
  ASSUME PoolInv, PoolInv', EventsKept, DestroyedIsEmpty, [Next]_vars
  PROVE  DestroyedIsEmpty'
<1> USE DEF poolVars, deviceVars
<1>1. CASE poller = "destroyed"
  <2>1. stop /\ \A t \in Thread : call[t].at = "out"
    BY <1>1 DEF PoolInv, Attended
  <2>2. UNCHANGED <<host, events>>
    <3>1. ASSUME NEW t \in Thread
          PROVE  /\ ~InCall(t) /\ ~FreeCompleted(t)
                 /\ \A n \in Request : ~AllocateCached(t, n) /\ ~AllocateMissed(t, n)
                 /\ \A s \in Stream : ~Launch(t, s) /\ ~FreeAsync(t, s)
      BY <2>1 DEF InCall, HostAlloc, HostAllocFails, CreateEvent, CreateEventFails, RecordEvent,
                  RecordEventFails, Synchronize, PushPending, FreeCompleted, AllocateCached,
                  AllocateMissed, Launch, FreeAsync
    <3>2. ~PollerPolls /\ ~Destroy
      BY <1>1 DEF PollerPolls, Destroy, DestroyPending, DestroyRest
    <3> QED
      BY <3>1, <3>2 DEF Next, Poll, PollerWaits, PollerWakes, StopPolling, Finish, Fail, Ended, vars
  <2> QED
    BY <1>1, <2>2 DEF DestroyedIsEmpty
<1>2. CASE DestroyRest
  <2>1. poller = "gone" /\ pending = {} /\ events' = events \ reusable
    BY <1>2 DEF DestroyRest
  <2>2. \A t \in Thread : call[t].at = "out"
    BY <2>1 DEF PoolInv, Attended
  <2>3. Carried = {} /\ InTransit = {}
    BY <2>2 DEF Carried, Carriers, InTransit, Freeing
  <2>4. events' = {}
    BY <2>1, <2>3 DEF EventsKept
  <2>5. DOMAIN host = DOMAIN free \cup DOMAIN live
    BY <2>1, <2>3 DEF PoolInv, OnePlace
  <2>6. host' = [b \in DOMAIN host \cap {} |-> host[b]]
    BY <1>2, <2>5 DEF DestroyRest, Without, Restrict
  <2>7. host' = [b \in {} |-> 0]
    BY <2>6
  <2> QED
    BY <2>4, <2>7 DEF DestroyedIsEmpty
<1>3. CASE poller # "destroyed" /\ ~DestroyRest
  <2>1. poller' # "destroyed"
    <3>1. \A t \in Thread : InCall(t) => poller' = poller \/ poller' = "check"
      BY DEF InCall, HostAlloc, HostAllocFails, CreateEvent, CreateEventFails, RecordEvent,
             RecordEventFails, Synchronize, PushPending, Notified
    <3> QED
      BY <1>3, <3>1 DEF Next, Poll, Destroy, PollerWaits, PollerWakes, PollerPolls, StopPolling,
           Notified, DestroyPending, Finish, Fail, Ended, vars, FreeCompleted, AllocateCached,
           AllocateMissed, Launch, FreeAsync
  <2> QED
    BY <2>1 DEF DestroyedIsEmpty
<1> QED
  BY <1>1, <1>2, <1>3

(* When the destructor has ended, every block has been returned to the     *)
(* system and every event destroyed: those that calls created, polling set *)
(* aside or an error left behind.                                          *)
THEOREM DestroyedAlwaysEmpty == Spec => []DestroyedIsEmpty
<1>1. Init => EndInv
  BY DEF Init, EndInv, EventsKept, DestroyedIsEmpty
<1>2. PoolInv /\ PoolInv' /\ EndInv /\ [Next]_vars => EndInv'
  BY EventsKeptStep, DestroyedStep DEF EndInv
<1>3. EndInv => DestroyedIsEmpty
  BY DEF EndInv
<1> QED
  BY <1>1, <1>2, <1>3, PoolInvAlways, PTL DEF Spec

-----------------------------------------------------------------------------
(* Copies that are staged in the pool                                      *)

(* The work on a block is one copy.                                        *)
OneCopy == \A v, w \in work : v[2] = w[2] => v = w

(* A copy that was begun has its stream and its bytes; one that waits for  *)
(* its staging block has done nothing yet.                                 *)
Begun(t) ==
  job[t] # NoJob =>
    /\ job[t].at # "none" /\ job[t].stream \in Stream /\ job[t].value \in Value
    /\ call[t].at = "hostAlloc" => job[t].at = "staging"

(* What is known of the work on the staging block, and of its bytes, at    *)
(* each step of a copy.                                                    *)
Progress(t) ==
  call[t].at = "holds" =>
    /\ job[t].at \in {"staging", "filled", "arrived", "done"} =>
         \A w \in work : w[2] # Held(t)
    /\ job[t].at \in {"enqueued", "failing", "async"} =>
         \A w \in work : w[2] = Held(t) => w[1] = job[t].stream
    /\ job[t].at = "filled" => job[t].kind = "toDevice" /\ content[Held(t)] = job[t].value
    /\ job[t].at = "arrived" => content[Held(t)] = job[t].value
    /\ job[t].at = "enqueued" =>
         /\ job[t].kind = "toHost"
         /\ \/ failed
            \/ /\ <<job[t].stream, Held(t)>> \notin work
               /\ content[Held(t)] = job[t].value
            \/ /\ <<job[t].stream, Held(t)>> \in work
               /\ transfer[<<job[t].stream, Held(t)>>] = [kind |-> "toHost", value |-> job[t].value]

(* What every step of the copies preserves, besides PoolInv.               *)
CopyInv ==
  /\ CopyTypeOK
  /\ OneCopy
  /\ ToDeviceFaithful
  /\ \A t \in Thread : Begun(t) /\ Progress(t)

(* A copy uses the pool as Next allows: in every step.                     *)
LEMMA CopyStepIsPoolStep ==
  ASSUME CopyInv, [CopyNext]_allVars
  PROVE  [Next]_vars
<1>1. \A t \in Thread : job[t].at # "none" => job[t] # NoJob /\ job[t].stream \in Stream
  BY DEF CopyInv, Begun, NoJob
<1>2. ASSUME NEW t \in Thread, NEW k \in Kind, NEW s \in Stream, NEW n \in Request,
             NEW v \in Value, Begin(t, k, s, n, v)
      PROVE  Next
  BY <1>2 DEF Begin, Next
<1>3. ASSUME NEW t \in Thread,
             \/ NewBlock(t) \/ Unstaged(t) \/ CopyToDevice(t) \/ CopyToHost(t) \/ Return(t)
      PROVE  Next
  <2>1. CASE NewBlock(t) \/ Unstaged(t)
    BY <2>1 DEF NewBlock, Unstaged, Next, InCall
  <2>2. CASE CopyToDevice(t) \/ CopyToHost(t)
    <3>1. Launch(t, job[t].stream) /\ job[t].stream \in Stream
      BY <1>1, <2>2 DEF CopyToDevice, CopyToHost, At, Queue
    <3> QED
      BY <3>1 DEF Next
  <2>3. CASE Return(t)
    <3>1. FreeCompleted(t) \/ (FreeAsync(t, job[t].stream) /\ job[t].stream \in Stream)
      BY <1>1, <2>3 DEF Return, At
    <3> QED
      BY <3>1 DEF Next
  <2> QED
    BY <1>3, <2>1, <2>2, <2>3
<1>4. ASSUME NEW t \in Thread,
             \/ Fill(t) \/ CopyToDeviceFails(t) \/ CopyToHostFails(t)
             \/ SynchronizeFailing(t) \/ SynchronizeBatch(t) \/ TakeOut(t)
      PROVE  UNCHANGED vars
  BY <1>4 DEF Fill, CopyToDeviceFails, CopyToHostFails, SynchronizeFailing, SynchronizeBatch, TakeOut
<1>5. CASE PoolStep
  BY <1>5 DEF PoolStep, Next, InCall
<1>6. CASE FailDevice \/ \E w \in work : Execute(w)
  BY <1>6 DEF FailDevice, Execute, Next
<1>7. CASE UNCHANGED allVars
  BY <1>7 DEF allVars
<1> QED
  BY <1>2, <1>3, <1>4, <1>5, <1>6, <1>7 DEF CopyNext

(* A thread whose block, bytes and copy are left alone.                    *)
LEMMA ProgressSame ==
  ASSUME NEW u, Progress(u), job'[u] = job[u],
         call'[u].at = "holds" => call'[u] = call[u],
         call[u].at = "holds" =>
           /\ content'[Held(u)] = content[Held(u)]
           /\ \A w \in work' : w[2] = Held(u) => w \in work
           /\ \A s : <<s, Held(u)>> \in work =>
                <<s, Held(u)>> \in work' /\ transfer'[<<s, Held(u)>>] = transfer[<<s, Held(u)>>],
         failed => failed'
  PROVE  Progress(u)'
<1> SUFFICES ASSUME call'[u].at = "holds" PROVE Progress(u)'
  BY DEF Progress
<1>1. call[u].at = "holds" /\ Held(u)' = Held(u) /\ job'[u] = job[u]
  BY DEF Held
<1>2. \A w \in work' : w[2] = Held(u) => w \in work
  BY <1>1
<1>3. /\ job'[u].at \in {"staging", "filled", "arrived", "done"} => \A w \in work' : w[2] # Held(u)'
      /\ job'[u].at \in {"enqueued", "failing", "async"} =>
           \A w \in work' : w[2] = Held(u)' => w[1] = job'[u].stream
  BY <1>1, <1>2 DEF Progress
<1>4. /\ job'[u].at = "filled" => job'[u].kind = "toDevice" /\ content'[Held(u)'] = job'[u].value
      /\ job'[u].at = "arrived" => content'[Held(u)'] = job'[u].value
  BY <1>1 DEF Progress
<1>5. ASSUME job'[u].at = "enqueued"
      PROVE  /\ job'[u].kind = "toHost"
             /\ \/ failed'
                \/ /\ <<job'[u].stream, Held(u)'>> \notin work'
                   /\ content'[Held(u)'] = job'[u].value
                \/ /\ <<job'[u].stream, Held(u)'>> \in work'
                   /\ transfer'[<<job'[u].stream, Held(u)'>>]
                        = [kind |-> "toHost", value |-> job'[u].value]
  BY <1>1, <1>5 DEF Progress
<1> QED
  BY <1>3, <1>4, <1>5 DEF Progress

(* The other threads hold other blocks.                                    *)
LEMMA HoldersApart ==
  ASSUME PoolInv, NEW t \in Thread, NEW u \in Thread \ {t},
         call[t].at = "holds", call[u].at = "holds"
  PROVE  Held(u) # Held(t) /\ Held(t) \in Block /\ Held(u) \in Block
<1>1. Held(t) \in DOMAIN live /\ Held(u) \in DOMAIN live
  BY DEF PoolInv, Attended, Holding, Held
<1> QED
  BY <1>1 DEF PoolInv, PoolTypeOK, PartialFunction, Attended, Holding, Held

(* A step of thread t's copy between two calls of the pool: job[t] moves   *)
(* to step a.                                                              *)
LEMMA GotoSound ==
  ASSUME PoolInv, CopyInv, NEW t \in Thread, NEW a \in JobStep \ {"none"}, Goto(t, a),
         call[t].at = "holds", UNCHANGED <<vars, content, transfer>>,
         a \in {"filled", "staging", "arrived", "done"} => \A w \in work : w[2] # Held(t),
         a \in {"enqueued", "failing", "async"} =>
           \A w \in work : w[2] = Held(t) => w[1] = job[t].stream,
         a \notin {"enqueued", "filled"},
         a = "arrived" => content[Held(t)] = job[t].value
  PROVE  CopyInv'
<1>1. /\ job \in [Thread -> [at : JobStep, kind : Kind, stream : Stream \cup {None},
                             value : Value \cup {None}]]
      /\ job[t] # NoJob /\ job[t].stream \in Stream /\ job[t].value \in Value
  BY DEF CopyInv, CopyTypeOK, Begun
<1> DEFINE j == [job[t] EXCEPT !.at = a]
<1>2. /\ j \in [at : JobStep, kind : Kind, stream : Stream \cup {None}, value : Value \cup {None}]
      /\ j.at = a /\ j.stream = job[t].stream /\ j.value = job[t].value /\ j.kind = job[t].kind
      /\ j # NoJob
  BY <1>1 DEF NoJob
<1>3. job' = [job EXCEPT ![t] = j]
  BY <1>1 DEF Goto
<1> HIDE DEF j
<1>4. /\ job' \in [Thread -> [at : JobStep, kind : Kind, stream : Stream \cup {None},
                              value : Value \cup {None}]]
      /\ job'[t] = j /\ \A u \in Thread \ {t} : job'[u] = job[u]
  BY <1>1, <1>2, <1>3
<1>5. UNCHANGED <<call, work, failed, content, transfer>>
  BY DEF vars, deviceVars
<1>6. CopyTypeOK'
  BY <1>1, <1>2, <1>4, <1>5 DEF CopyInv, CopyTypeOK
<1>7. OneCopy' /\ ToDeviceFaithful'
  BY <1>5 DEF CopyInv, OneCopy, ToDeviceFaithful
<1>8. ASSUME NEW u \in Thread
      PROVE  Begun(u)' /\ Progress(u)'
  <2>1. CASE u = t
    <3>1. Begun(t)'
      BY <1>1, <1>2, <1>4, <1>5 DEF Begun
    <3>2. Progress(t)'
      BY <1>2, <1>4, <1>5 DEF Progress, Held
    <3> QED
      BY <2>1, <3>1, <3>2
  <2>2. CASE u # t
    <3>1. Begun(u) /\ Progress(u) /\ job'[u] = job[u]
      BY <2>2, <1>4 DEF CopyInv
    <3>2. Begun(u)'
      BY <3>1, <1>5 DEF Begun
    <3>3. Progress(u)'
      BY <3>1, <1>5 DEF Progress, Held
    <3> QED
      BY <3>2, <3>3
  <2> QED
    BY <2>1, <2>2
<1> QED
  BY <1>6, <1>7, <1>8 DEF CopyInv

(* The steps of a copy that change nothing but where it is.                *)
LEMMA WaitSound ==
  ASSUME PoolInv, CopyInv, NEW t \in Thread,
         \/ CopyToDeviceFails(t) \/ CopyToHostFails(t) \/ SynchronizeFailing(t)
         \/ SynchronizeBatch(t) \/ TakeOut(t)
  PROVE  CopyInv'
<1>1. Progress(t) /\ (failed => work = {})
  BY DEF CopyInv, PoolInv, Guarded
<1>2. CASE CopyToDeviceFails(t) \/ TakeOut(t)
  <2>1. /\ Goto(t, "done") /\ call[t].at = "holds" /\ UNCHANGED <<vars, content, transfer>>
        /\ \A w \in work : w[2] # Held(t)
    BY <1>1, <1>2 DEF CopyToDeviceFails, TakeOut, At, Progress
  <2> QED
    BY <2>1, GotoSound DEF JobStep
<1>3. CASE CopyToHostFails(t)
  <2>1. call[t].at = "holds" /\ UNCHANGED <<vars, content, transfer>>
    BY <1>3 DEF CopyToHostFails, At
  <2>2. CASE job[t].at = "enqueued"
    <3>1. Goto(t, "failing") /\ \A w \in work : w[2] = Held(t) => w[1] = job[t].stream
      BY <1>1, <1>3, <2>2 DEF CopyToHostFails, At, Progress
    <3> QED
      BY <2>1, <3>1, GotoSound DEF JobStep
  <2>3. CASE job[t].at = "staging"
    <3>1. Goto(t, "done") /\ \A w \in work : w[2] # Held(t)
      BY <1>1, <1>3, <2>3 DEF CopyToHostFails, At, Progress
    <3> QED
      BY <2>1, <3>1, GotoSound DEF JobStep
  <2> QED
    BY <1>3, <2>2, <2>3 DEF CopyToHostFails, At
<1>4. CASE SynchronizeFailing(t)
  <2>1. /\ Goto(t, "done") /\ call[t].at = "holds" /\ UNCHANGED <<vars, content, transfer>>
        /\ \A w \in work : w[2] # Held(t)
    BY <1>1, <1>4 DEF SynchronizeFailing, StreamIdle, At, Progress
  <2> QED
    BY <2>1, GotoSound DEF JobStep
<1>5. CASE SynchronizeBatch(t)
  <2>1. /\ call[t].at = "holds" /\ job[t].at = "enqueued" /\ UNCHANGED <<vars, content, transfer>>
        /\ Goto(t, IF failed THEN "async" ELSE "arrived")
        /\ failed \/ StreamIdle(job[t].stream)
        /\ \A w \in work : w[2] = Held(t) => w[1] = job[t].stream
    BY <1>1, <1>5 DEF SynchronizeBatch, At, Progress
  <2>2. CASE failed
    <3>1. Goto(t, "async")
      BY <2>1, <2>2
    <3> QED
      BY <2>1, <3>1, GotoSound DEF JobStep
  <2>3. CASE ~failed
    <3>1. Goto(t, "arrived") /\ \A w \in work : w[2] # Held(t)
      BY <2>1, <2>3 DEF StreamIdle
    <3>2. <<job[t].stream, Held(t)>> \notin work
      BY <3>1
    <3>3. content[Held(t)] = job[t].value
      BY <1>1, <2>1, <2>3, <3>2 DEF Progress
    <3> QED
      BY <2>1, <3>1, <3>3, GotoSound DEF JobStep
  <2> QED
    BY <2>2, <2>3
<1> QED
  BY <1>2, <1>3, <1>4, <1>5

(* The record of thread t's copy.                                          *)
LEMMA JobUpdate ==
  ASSUME CopyInv, NEW t \in Thread, NEW a \in JobStep \ {"none"}, job[t].at # "none", Goto(t, a)
  PROVE  /\ job' \in [Thread -> [at : JobStep, kind : Kind, stream : Stream \cup {None},
                                 value : Value \cup {None}]]
         /\ job[t] # NoJob /\ job'[t] # NoJob
         /\ job[t].stream \in Stream /\ job[t].value \in Value /\ job[t].kind \in Kind
         /\ job'[t].at = a /\ job'[t].stream = job[t].stream
         /\ job'[t].value = job[t].value /\ job'[t].kind = job[t].kind
         /\ \A u \in Thread \ {t} : job'[u] = job[u]
<1>1. /\ job \in [Thread -> [at : JobStep, kind : Kind, stream : Stream \cup {None},
                             value : Value \cup {None}]]
      /\ job[t] # NoJob /\ job[t].stream \in Stream /\ job[t].value \in Value /\ job[t].kind \in Kind
  BY DEF CopyInv, CopyTypeOK, Begun, NoJob
<1> DEFINE j == [job[t] EXCEPT !.at = a]
<1>2. /\ j \in [at : JobStep, kind : Kind, stream : Stream \cup {None}, value : Value \cup {None}]
      /\ j.at = a /\ j.stream = job[t].stream /\ j.value = job[t].value /\ j.kind = job[t].kind
      /\ j # NoJob
  BY <1>1 DEF NoJob
<1>3. job' = [job EXCEPT ![t] = j]
  BY <1>1 DEF Goto
<1> HIDE DEF j
<1> QED
  BY <1>1, <1>2, <1>3

(* The bytes are put into a block on which there is no work.               *)
LEMMA FillSound ==
  ASSUME PoolInv, CopyInv, NEW t \in Thread, Fill(t)
  PROVE  CopyInv'
<1> DEFINE b == Held(t)
<1>1. /\ job[t].at = "staging" /\ call[t].at = "holds" /\ job[t].kind = "toDevice"
      /\ content' = [content EXCEPT ![b] = job[t].value]
      /\ Goto(t, "filled")
      /\ UNCHANGED <<call, work, failed, transfer>>
  BY DEF Fill, At, vars, deviceVars
<1>2. \A w \in work : w[2] # b
  BY <1>1 DEF CopyInv, Progress
<1>3. b \in Block
  BY <1>1 DEF PoolInv, PoolTypeOK, PartialFunction, Attended, Holding, Held
<1>4. /\ job' \in [Thread -> [at : JobStep, kind : Kind, stream : Stream \cup {None},
                              value : Value \cup {None}]]
      /\ job[t] # NoJob /\ job'[t] # NoJob
      /\ job[t].stream \in Stream /\ job[t].value \in Value /\ job[t].kind \in Kind
      /\ job'[t].at = "filled" /\ job'[t].stream = job[t].stream
      /\ job'[t].value = job[t].value /\ job'[t].kind = job[t].kind
      /\ \A u \in Thread \ {t} : job'[u] = job[u]
  BY <1>1, JobUpdate DEF JobStep
<1> HIDE DEF b
<1>5. /\ content' \in [Block -> Value \cup {None}] /\ content'[b] = job[t].value
      /\ \A c \in Block \ {b} : content'[c] = content[c]
  BY <1>1, <1>3, <1>4 DEF CopyInv, CopyTypeOK
<1>6. CopyTypeOK'
  BY <1>1, <1>4, <1>5 DEF CopyInv, CopyTypeOK
<1>7. OneCopy' /\ ToDeviceFaithful'
  <2>1. \A w \in DOMAIN transfer : w[2] \in Block \ {b}
    BY <1>2 DEF CopyInv, CopyTypeOK, PartialFunction
  <2> QED
    BY <1>1, <1>5, <2>1 DEF CopyInv, OneCopy, ToDeviceFaithful
<1>8. Begun(t)' /\ Progress(t)'
  <2>1. Begun(t)'
    BY <1>1, <1>4 DEF Begun
  <2>2. Held(t)' = b
    BY <1>1 DEF Held, b
  <2>3. Progress(t)'
    BY <1>1, <1>2, <1>4, <1>5, <2>2 DEF Progress
  <2> QED
    BY <2>1, <2>3
<1>9. ASSUME NEW u \in Thread \ {t}
      PROVE  Begun(u)' /\ Progress(u)'
  <2>1. Begun(u) /\ Progress(u) /\ job'[u] = job[u]
    BY <1>4 DEF CopyInv
  <2>2. Begun(u)'
    BY <2>1, <1>1 DEF Begun
  <2>3. call[u].at = "holds" => content'[Held(u)] = content[Held(u)]
    BY <1>1, <1>5, HoldersApart DEF b
  <2>4. Progress(u)'
    BY <2>1, <2>3, <1>1, ProgressSame
  <2> QED
    BY <2>2, <2>4
<1> QED
  BY <1>6, <1>7, <1>8, <1>9 DEF CopyInv

(* A device copy is queued behind those that are queued for the same block *)
(* and stream.                                                             *)
LEMMA QueueSound ==
  ASSUME PoolInv, CopyInv, NEW t \in Thread, CopyToDevice(t) \/ CopyToHost(t)
  PROVE  CopyInv'
<1> DEFINE b == Held(t)
           s == job[t].stream
           a == IF job[t].kind = "toHost" THEN "enqueued" ELSE "async"
           new == [kind |-> job[t].kind, value |-> job[t].value]
<1>1. /\ call[t].at = "holds" /\ job[t].at # "none"
      /\ Goto(t, a)
      /\ \A w \in work : w[2] = b => w[1] = s
      /\ job[t].kind = "toDevice" => content[b] = job[t].value
  <2>1. Progress(t) /\ job[t].kind \in Kind
    BY DEF CopyInv, CopyTypeOK
  <2>2. CASE CopyToDevice(t)
    BY <2>1, <2>2 DEF CopyToDevice, At, Progress
  <2>3. CASE CopyToHost(t)
    BY <2>1, <2>3 DEF CopyToHost, At, Progress
  <2> QED
    BY <2>2, <2>3
<1>2. /\ work' = work \cup {<<s, b>>}
      /\ transfer' = [w \in DOMAIN transfer \cup {<<s, b>>} |->
                        IF w = <<s, b>> THEN new ELSE transfer[w]]
      /\ UNCHANGED <<content, call, failed>>
  BY DEF CopyToDevice, CopyToHost, Queue, Launch, Held
<1>3. b \in Block
  BY <1>1 DEF PoolInv, PoolTypeOK, PartialFunction, Attended, Holding, Held
<1>4. /\ job' \in [Thread -> [at : JobStep, kind : Kind, stream : Stream \cup {None},
                              value : Value \cup {None}]]
      /\ job[t] # NoJob /\ job'[t] # NoJob
      /\ s \in Stream /\ job[t].value \in Value /\ job[t].kind \in Kind
      /\ job'[t].at = a /\ job'[t].stream = s
      /\ job'[t].value = job[t].value /\ job'[t].kind = job[t].kind
      /\ \A u \in Thread \ {t} : job'[u] = job[u]
  BY <1>1, JobUpdate DEF JobStep
<1>5. DOMAIN transfer = work /\ work \subseteq Stream \X Block
  BY DEF CopyInv, CopyTypeOK, PartialFunction
<1>6. new \in [kind : Kind, value : Value] /\ new.kind = job[t].kind /\ new.value = job[t].value
  BY <1>4
<1>7. /\ DOMAIN transfer' = work' /\ transfer'[<<s, b>>] = new
      /\ \A w \in work : w # <<s, b>> => transfer'[w] = transfer[w]
  BY <1>2, <1>5
<1>8. a \in {"enqueued", "async"} /\ (a = "enqueued" => job[t].kind = "toHost")
  OBVIOUS
<1> HIDE DEF b, s, a, new
<1>9. CopyTypeOK'
  <2>1. PartialFunction(transfer', Stream \X Block, [kind : Kind, value : Value])
    BY <1>2, <1>3, <1>4, <1>5, <1>6, <1>7 DEF CopyInv, CopyTypeOK, PartialFunction
  <2> QED
    BY <1>1, <1>2, <1>4, <1>7, <2>1 DEF CopyInv, CopyTypeOK
<1>10. OneCopy' /\ ToDeviceFaithful'
  <2>1. \A w \in work : w[2] = b => w = <<s, b>>
    BY <1>1, <1>5
  <2>2. OneCopy'
    BY <1>2, <2>1 DEF CopyInv, OneCopy
  <2>3. ASSUME NEW w \in work', transfer'[w].kind = "toDevice"
        PROVE  content'[w[2]] = transfer'[w].value
    <3>1. CASE w = <<s, b>>
      BY <1>1, <1>2, <1>6, <1>7, <2>3, <3>1
    <3>2. CASE w # <<s, b>>
      BY <1>2, <1>5, <1>7, <2>3, <3>2 DEF CopyInv, ToDeviceFaithful
    <3> QED
      BY <3>1, <3>2
  <2> QED
    BY <1>7, <2>2, <2>3 DEF ToDeviceFaithful
<1>11. Begun(t)' /\ Progress(t)'
  <2>1. Begun(t)'
    BY <1>1, <1>2, <1>4, <1>8 DEF Begun
  <2>2. Held(t)' = b
    BY <1>2 DEF Held, b
  <2>3. \A w \in work' : w[2] = b => w[1] = s
    BY <1>1, <1>2
  <2>4. <<s, b>> \in work' /\ transfer'[<<s, b>>] = [kind |-> job[t].kind, value |-> job[t].value]
    BY <1>2, <1>7 DEF new
  <2>5. Progress(t)'
    BY <1>4, <1>8, <2>2, <2>3, <2>4 DEF Progress
  <2> QED
    BY <2>1, <2>5
<1>12. ASSUME NEW u \in Thread \ {t}
       PROVE  Begun(u)' /\ Progress(u)'
  <2>1. Begun(u) /\ Progress(u) /\ job'[u] = job[u] /\ call'[u] = call[u]
    BY <1>2, <1>4 DEF CopyInv
  <2>2. Begun(u)'
    BY <2>1 DEF Begun
  <2>3. call[u].at = "holds" => Held(u) # b
    BY <1>1, HoldersApart DEF b
  <2>4. call[u].at = "holds" =>
          /\ content'[Held(u)] = content[Held(u)]
          /\ \A w \in work' : w[2] = Held(u) => w \in work
          /\ \A r : <<r, Held(u)>> \in work =>
               <<r, Held(u)>> \in work' /\ transfer'[<<r, Held(u)>>] = transfer[<<r, Held(u)>>]
    BY <1>2, <1>7, <2>3
  <2>5. Progress(u)'
    BY <2>1, <2>4, <1>2, ProgressSame
  <2> QED
    BY <2>2, <2>5
<1> QED
  BY <1>9, <1>10, <1>11, <1>12 DEF CopyInv

(* Steps of the pool and of the device that concern no staging block in    *)
(* use: who holds what, the work and the copies stay.                      *)
LEMMA AsideSound ==
  ASSUME CopyInv, UNCHANGED <<content, job, transfer, work, failed>>,
         \A u \in Thread :
           /\ call'[u].at \in {"hostAlloc", "holds"} <=> call[u].at \in {"hostAlloc", "holds"}
           /\ call[u].at \in {"hostAlloc", "holds"} => call'[u] = call[u]
  PROVE  CopyInv'
<1>1. CopyTypeOK' /\ OneCopy' /\ ToDeviceFaithful'
  BY DEF CopyInv, CopyTypeOK, OneCopy, ToDeviceFaithful
<1>2. ASSUME NEW u \in Thread
      PROVE  Begun(u)' /\ Progress(u)'
  <2>1. Begun(u) /\ Progress(u)
    BY DEF CopyInv
  <2>2. Begun(u)'
    BY <2>1 DEF Begun
  <2>3. Progress(u)'
    BY <2>1 DEF Progress, Held
  <2> QED
    BY <2>2, <2>3
<1> QED
  BY <1>1, <1>2 DEF CopyInv

(* The pool's own steps are such.                                          *)
LEMMA PoolStepSound ==
  ASSUME PoolInv, CopyInv, PoolStep
  PROVE  CopyInv'
<1>1. UNCHANGED <<content, job, transfer>> /\ call \in [Thread -> Call]
  BY DEF PoolStep, copyVars, PoolInv, PoolTypeOK
<1>2. CASE Poll
  <2>1. UNCHANGED <<work, failed, call>>
    BY <1>2 DEF Poll, PollerWaits, PollerPolls, PollerWakes, deviceVars
  <2> QED
    BY <1>1, <2>1, AsideSound
<1>3. ASSUME NEW t \in Thread,
             \/ CreateEvent(t) \/ CreateEventFails(t)
             \/ RecordEvent(t) \/ RecordEventFails(t)
             \/ Synchronize(t) \/ PushPending(t)
      PROVE  CopyInv'
  <2>1. UNCHANGED <<work, failed>> /\ call[t].at \in {"leaving", "recorded", "synchronize"}
    BY <1>3 DEF CreateEvent, CreateEventFails, RecordEvent, RecordEventFails, Synchronize,
                PushPending, deviceVars
  <2>2. call'[t].at \notin {"hostAlloc", "holds"} /\ \A u \in Thread \ {t} : call'[u] = call[u]
    BY <1>1, <1>3, <2>1 DEF CreateEvent, CreateEventFails, RecordEvent, RecordEventFails,
                            Synchronize, PushPending, Out, Call
  <2>3. \A u \in Thread :
          /\ call'[u].at \in {"hostAlloc", "holds"} <=> call[u].at \in {"hostAlloc", "holds"}
          /\ call[u].at \in {"hostAlloc", "holds"} => call'[u] = call[u]
    BY <2>1, <2>2
  <2> QED
    BY <1>1, <2>1, <2>3, AsideSound
<1> QED
  BY <1>2, <1>3 DEF PoolStep

(* A thread begins a copy, or gets the staging block that it waits for; no *)
(* work is left on the block.                                              *)
LEMMA StageSound ==
  ASSUME CopyInv, NEW t \in Thread,
         UNCHANGED <<content, transfer, work, failed>>,
         job' \in [Thread -> [at : JobStep, kind : Kind, stream : Stream \cup {None},
                              value : Value \cup {None}]],
         job'[t].at = "staging", job'[t].stream \in Stream, job'[t].value \in Value,
         \A u \in Thread \ {t} : call'[u] = call[u] /\ job'[u] = job[u],
         call'[t].at \in {"hostAlloc", "holds"},
         call'[t].at = "holds" => \A w \in work : w[2] # Held(t)'
  PROVE  CopyInv'
<1>1. job'[t] # NoJob
  BY DEF NoJob
<1>2. CopyTypeOK' /\ OneCopy' /\ ToDeviceFaithful'
  BY <1>1 DEF CopyInv, CopyTypeOK, OneCopy, ToDeviceFaithful
<1>3. Begun(t)' /\ Progress(t)'
  BY DEF Begun, Progress
<1>4. ASSUME NEW u \in Thread \ {t}
      PROVE  Begun(u)' /\ Progress(u)'
  <2>1. Begun(u) /\ Progress(u) /\ job'[u] = job[u] /\ call'[u] = call[u]
    BY DEF CopyInv
  <2> QED
    BY <2>1 DEF Begun, Progress, Held
<1> QED
  BY <1>2, <1>3, <1>4 DEF CopyInv

(* A copy begins.                                                          *)
LEMMA BeginSound ==
  ASSUME PoolInv, CopyInv, NEW t \in Thread, NEW k \in Kind, NEW s \in Stream,
         NEW n \in Request, NEW v \in Value, Begin(t, k, s, n, v)
  PROVE  CopyInv'
<1> DEFINE j == [at |-> "staging", kind |-> k, stream |-> s, value |-> v]
<1>1. job' = [job EXCEPT ![t] = j] /\ UNCHANGED <<content, transfer, work, failed>>
  BY DEF Begin, AllocateCached, AllocateMissed, deviceVars
<1>2. /\ job \in [Thread -> [at : JobStep, kind : Kind, stream : Stream \cup {None},
                             value : Value \cup {None}]]
      /\ call \in [Thread -> Call]
  BY DEF CopyInv, CopyTypeOK, PoolInv, PoolTypeOK
<1>3. j \in [at : JobStep, kind : Kind, stream : Stream \cup {None}, value : Value \cup {None}]
      /\ j.at = "staging" /\ j.stream = s /\ j.value = v
  BY DEF JobStep
<1> HIDE DEF j
<1>4. /\ job' \in [Thread -> [at : JobStep, kind : Kind, stream : Stream \cup {None},
                              value : Value \cup {None}]]
      /\ job'[t] = j /\ \A u \in Thread \ {t} : job'[u] = job[u]
  BY <1>1, <1>2, <1>3
<1>5. /\ \A u \in Thread \ {t} : call'[u] = call[u]
      /\ call'[t].at \in {"hostAlloc", "holds"}
      /\ call'[t].at = "holds" => \A w \in work : w[2] # Held(t)'
  <2>1. CASE AllocateMissed(t, n)
    <3>1. call' = [call EXCEPT ![t] = [Out EXCEPT !.at = "hostAlloc", !.size = Rounded(n)]]
      BY <2>1 DEF AllocateMissed
    <3> QED
      BY <1>2, <3>1 DEF Out
  <2>2. CASE AllocateCached(t, n)
    <3>1. PICK b \in DOMAIN Polled.free :
            call' = [call EXCEPT ![t] = [Out EXCEPT !.at = "holds", !.ptr = b]]
      BY <2>2 DEF AllocateCached
    <3>2. call'[t].at = "holds" /\ Held(t)' = b
      BY <1>2, <3>1 DEF Out, Held
    <3>3. \A w \in work : w[2] # b
      BY PolledShape DEF PoolInv, Guarded
    <3> QED
      BY <1>2, <3>1, <3>2, <3>3
  <2> QED
    BY <2>1, <2>2 DEF Begin
<1> QED
  BY <1>1, <1>3, <1>4, <1>5, StageSound

(* It gets a block from the system.                                        *)
LEMMA NewBlockSound ==
  ASSUME PoolInv, CopyInv, NEW t \in Thread, NewBlock(t)
  PROVE  CopyInv'
<1>1. PICK b \in Block \ DOMAIN host :
        call' = [call EXCEPT ![t] = [Out EXCEPT !.at = "holds", !.ptr = b]]
  BY DEF NewBlock, HostAlloc
<1>2. call[t].at = "hostAlloc" /\ UNCHANGED <<content, job, transfer, work, failed>>
  BY DEF NewBlock, HostAlloc, copyVars, deviceVars
<1>3. call \in [Thread -> Call]
  BY DEF PoolInv, PoolTypeOK
<1>4. call'[t].at = "holds" /\ Held(t)' = b /\ \A u \in Thread \ {t} : call'[u] = call[u]
  BY <1>1, <1>3 DEF Out, Held
<1>5. \A w \in work : w[2] # b
  BY DEF PoolInv, Guarded
<1>6. job[t] # NoJob /\ Begun(t)
  BY <1>2 DEF CopyInv, CopyTypeOK
<1> QED
  BY <1>2, <1>4, <1>5, <1>6, StageSound DEF Begun, CopyInv, CopyTypeOK

(* A copy is over: its thread has no block, and the work goes on.          *)
LEMMA OverSound ==
  ASSUME CopyInv, NEW t \in Thread,
         UNCHANGED <<content, transfer, work, failed>>,
         job' = [job EXCEPT ![t] = NoJob],
         \A u \in Thread \ {t} : call'[u] = call[u],
         call'[t].at \notin {"hostAlloc", "holds"}
  PROVE  CopyInv'
<1>1. job \in [Thread -> [at : JobStep, kind : Kind, stream : Stream \cup {None},
                          value : Value \cup {None}]]
  BY DEF CopyInv, CopyTypeOK
<1>2. NoJob \in [at : JobStep, kind : Kind, stream : Stream \cup {None}, value : Value \cup {None}]
  BY DEF NoJob, JobStep, Kind
<1>3. /\ job' \in [Thread -> [at : JobStep, kind : Kind, stream : Stream \cup {None},
                              value : Value \cup {None}]]
      /\ job'[t] = NoJob /\ \A u \in Thread \ {t} : job'[u] = job[u]
  BY <1>1, <1>2
<1>4. CopyTypeOK' /\ OneCopy' /\ ToDeviceFaithful'
  BY <1>3 DEF CopyInv, CopyTypeOK, OneCopy, ToDeviceFaithful
<1>5. Begun(t)' /\ Progress(t)'
  BY <1>3 DEF Begun, Progress
<1>6. ASSUME NEW u \in Thread \ {t}
      PROVE  Begun(u)' /\ Progress(u)'
  <2>1. Begun(u) /\ Progress(u) /\ job'[u] = job[u] /\ call'[u] = call[u]
    BY <1>3 DEF CopyInv
  <2> QED
    BY <2>1 DEF Begun, Progress, Held
<1> QED
  BY <1>4, <1>5, <1>6 DEF CopyInv

(* No block could be had, or it goes back to the pool.                     *)
LEMMA ReturnSound ==
  ASSUME PoolInv, CopyInv, NEW t \in Thread, Unstaged(t) \/ Return(t)
  PROVE  CopyInv'
<1>1. call \in [Thread -> Call]
  BY DEF PoolInv, PoolTypeOK
<1>2. UNCHANGED <<content, transfer, work, failed>> /\ job' = [job EXCEPT ![t] = NoJob]
  BY DEF Unstaged, Return, HostAllocFails, FreeCompleted, FreeAsync, deviceVars
<1>3. /\ \A u \in Thread \ {t} : call'[u] = call[u]
      /\ call'[t].at \notin {"hostAlloc", "holds"}
  <2>1. CASE HostAllocFails(t) \/ FreeCompleted(t)
    BY <1>1, <2>1, OutType DEF HostAllocFails, FreeCompleted
  <2>2. CASE FreeAsync(t, job[t].stream)
    <3>1. PICK e \in IF reusable = {} THEN {None} ELSE reusable :
            call' = [call EXCEPT ![t] =
                       [at |-> "leaving", ptr |-> call[t].ptr, size |-> live[call[t].ptr],
                        event |-> e, release |-> ShouldRelease(live[call[t].ptr]),
                        stream |-> job[t].stream]]
      BY <2>2 DEF FreeAsync
    <3> QED
      BY <1>1, <3>1
  <2> QED
    BY <2>1, <2>2 DEF Unstaged, Return
<1> QED
  BY <1>2, <1>3, OverSound

(* The device executes a copy: the bytes of a copy to the host arrive in   *)
(* the block of the one thread that waits for them, if it still does.      *)
LEMMA ExecuteSound ==
  ASSUME PoolInv, CopyInv, NEW w \in work, Execute(w)
  PROVE  CopyInv'
<1>1. /\ work' = work \ {w} /\ transfer' = Without(transfer, {w})
      /\ UNCHANGED <<call, job, failed>>
      /\ content' = IF transfer[w].kind = "toHost"
                    THEN [content EXCEPT ![w[2]] = transfer[w].value] ELSE content
  BY DEF Execute, Finish
<1>2. /\ DOMAIN transfer = work /\ w[2] \in Block /\ work \subseteq Stream \X Block
      /\ transfer[w] \in [kind : Kind, value : Value]
      /\ content \in [Block -> Value \cup {None}]
  BY DEF CopyInv, CopyTypeOK, PartialFunction
<1>3. DOMAIN transfer' = work' /\ \A v \in work' : transfer'[v] = transfer[v]
  BY <1>1, <1>2 DEF Without, Restrict
<1>4. /\ content' \in [Block -> Value \cup {None}]
      /\ \A b \in Block : b # w[2] => content'[b] = content[b]
      /\ transfer[w].kind = "toHost" => content'[w[2]] = transfer[w].value
  BY <1>1, <1>2
<1>5. \A v \in work' : v \in work /\ v[2] # w[2]
  BY <1>1 DEF CopyInv, OneCopy
<1>6. CopyTypeOK'
  <2>1. PartialFunction(transfer', Stream \X Block, [kind : Kind, value : Value])
    BY <1>2, <1>3, <1>5 DEF CopyInv, CopyTypeOK, PartialFunction
  <2> QED
    BY <1>1, <1>3, <1>4, <2>1 DEF CopyInv, CopyTypeOK
<1>7. OneCopy' /\ ToDeviceFaithful'
  <2>1. \A v \in work' : v[2] \in Block /\ content'[v[2]] = content[v[2]]
    BY <1>2, <1>4, <1>5
  <2> QED
    BY <1>2, <1>3, <1>5, <2>1 DEF CopyInv, OneCopy, ToDeviceFaithful
<1>8. ASSUME NEW u \in Thread
      PROVE  Begun(u)' /\ Progress(u)'
  <2>1. Begun(u) /\ Progress(u) /\ (call[u].at = "holds" => Held(u) \in Block)
    BY DEF CopyInv, PoolInv, PoolTypeOK, PartialFunction, Attended, Holding, Held
  <2>2. Begun(u)'
    BY <1>1, <2>1 DEF Begun
  <2>3. CASE call[u].at = "holds" => Held(u) # w[2]
    <3>1. call[u].at = "holds" =>
            /\ content'[Held(u)] = content[Held(u)]
            /\ \A v \in work' : v[2] = Held(u) => v \in work
            /\ \A r : <<r, Held(u)>> \in work =>
                 <<r, Held(u)>> \in work' /\ transfer'[<<r, Held(u)>>] = transfer[<<r, Held(u)>>]
      BY <1>1, <1>3, <1>4, <1>5, <2>1, <2>3
    <3> QED
      BY <1>1, <2>1, <2>2, <3>1, ProgressSame
  <2>4. CASE call[u].at = "holds" /\ Held(u) = w[2]
    <3>1. /\ job[u].at \notin {"staging", "filled", "arrived", "done"}
          /\ job[u].at \in {"enqueued", "failing", "async"} => w[1] = job[u].stream
      BY <2>1, <2>4 DEF Progress
    <3>2. /\ \A v \in work' : v[2] # Held(u)
          /\ <<job[u].stream, Held(u)>> \notin work'
      BY <1>5, <2>4
    <3>3. job[u].at = "enqueued" =>
            /\ job[u].kind = "toHost"
            /\ failed \/ content'[Held(u)] = job[u].value
      <4>1. SUFFICES ASSUME job[u].at = "enqueued", ~failed
                     PROVE  content'[Held(u)] = job[u].value
        BY <2>1, <2>4 DEF Progress
      <4>2. w = <<job[u].stream, Held(u)>>
        BY <1>2, <2>4, <3>1, <4>1
      <4>3. transfer[w] = [kind |-> "toHost", value |-> job[u].value]
        BY <2>1, <2>4, <4>1, <4>2 DEF Progress
      <4> QED
        BY <1>4, <2>4, <4>3
    <3>4. Held(u)' = Held(u) /\ job'[u] = job[u] /\ call'[u] = call[u] /\ failed' = failed
      BY <1>1 DEF Held
    <3> QED
      BY <2>2, <3>1, <3>2, <3>3, <3>4 DEF Progress
  <2> QED
    BY <2>2, <2>3, <2>4
<1> QED
  BY <1>6, <1>7, <1>8 DEF CopyInv

(* A device in error executes none of what was queued.                     *)
LEMMA FailDeviceSound ==
  ASSUME CopyInv, FailDevice
  PROVE  CopyInv'
<1>1. /\ work' = {} /\ failed' = TRUE /\ UNCHANGED <<call, content, job>>
      /\ DOMAIN transfer' = {}
  BY DEF FailDevice, Fail
<1>2. CopyTypeOK' /\ OneCopy' /\ ToDeviceFaithful'
  BY <1>1 DEF CopyInv, CopyTypeOK, OneCopy, ToDeviceFaithful, PartialFunction
<1>3. ASSUME NEW u \in Thread
      PROVE  Begun(u)' /\ Progress(u)'
  <2>1. Begun(u) /\ Progress(u)
    BY DEF CopyInv
  <2> QED
    BY <1>1, <2>1 DEF Begun, Progress, Held
<1> QED
  BY <1>2, <1>3 DEF CopyInv

(* Before the first copy.                                                  *)
LEMMA CopyInvInit == CopyInit => CopyInv
<1> SUFFICES ASSUME CopyInit PROVE CopyInv
  OBVIOUS
<1>1. NoJob \in [at : JobStep, kind : Kind, stream : Stream \cup {None}, value : Value \cup {None}]
  BY DEF NoJob, JobStep, Kind
<1>2. CopyTypeOK
  BY <1>1 DEF CopyInit, Init, CopyTypeOK, PartialFunction, Out
<1>3. OneCopy /\ ToDeviceFaithful
  BY DEF CopyInit, Init, OneCopy, ToDeviceFaithful
<1>4. \A t \in Thread : Begun(t) /\ Progress(t)
  BY DEF CopyInit, Init, Begun, Progress, Out
<1> QED
  BY <1>2, <1>3, <1>4 DEF CopyInv

(* Every step of the copies keeps what is known of them.                   *)
LEMMA CopyInvStep ==
  ASSUME PoolInv, CopyInv, [CopyNext]_allVars
  PROVE  CopyInv'
<1>1. CASE UNCHANGED allVars
  BY <1>1, AsideSound DEF allVars, vars, deviceVars, copyVars
<1>2. ASSUME NEW t \in Thread,
             \/ NewBlock(t) \/ Unstaged(t)
             \/ Fill(t) \/ CopyToDevice(t) \/ CopyToDeviceFails(t)
             \/ CopyToHost(t) \/ CopyToHostFails(t) \/ SynchronizeFailing(t)
             \/ SynchronizeBatch(t) \/ TakeOut(t)
             \/ Return(t)
      PROVE  CopyInv'
  BY <1>2, NewBlockSound, ReturnSound, FillSound, QueueSound, WaitSound
<1> QED
  BY <1>1, <1>2, BeginSound, PoolStepSound, ExecuteSound, FailDeviceSound DEF CopyNext

(* The copies keep what the pool asks of its callers and the pool keeps    *)
(* what it promises them, each because of the other.                       *)
LEMMA CopyInvAlways == CopySpec => [](PoolInv /\ CopyInv)
<1>1. CopyInit => PoolInv /\ CopyInv
  BY PoolInvInit, CopyInvInit DEF CopyInit
<1>2. PoolInv /\ CopyInv /\ [CopyNext]_allVars => (PoolInv /\ CopyInv)'
  BY CopyStepIsPoolStep, PoolInvStep, CopyInvStep
<1> QED
  BY <1>1, <1>2, PTL DEF CopySpec

(* Staged copies use the pool as its other callers may, and no other way:  *)
(* every theorem about the pool holds while copies are staged in it.       *)
THEOREM CopiesUseThePool == CopySpec => Spec
<1>1. CopyInit => Init
  BY DEF CopyInit
<1>2. CopyInv /\ [CopyNext]_allVars => [Next]_vars
  BY CopyStepIsPoolStep
<1> QED
  BY <1>1, <1>2, CopyInvAlways, PTL DEF CopySpec, Spec

(* A copy that is over has given its staging block back, and the work of   *)
(* the device is what the copies queued.                                   *)
THEOREM CopyTypeAlwaysOK == CopySpec => []CopyTypeOK
<1>1. CopyInv => CopyTypeOK
  BY DEF CopyInv
<1> QED
  BY <1>1, CopyInvAlways, PTL

(* The device reads from a staging block what was put there for that copy, *)
(* for any number of threads, streams, blocks and failures.                *)
THEOREM ToDeviceAlwaysFaithful == CopySpec => []ToDeviceFaithful
<1>1. CopyInv => ToDeviceFaithful
  BY DEF CopyInv
<1> QED
  BY <1>1, CopyInvAlways, PTL

(* What a batch takes out of its staging block is what the device copied   *)
(* there for it.                                                           *)
THEOREM ToHostAlwaysFaithful == CopySpec => []ToHostFaithful
<1>1. CopyInv => ToHostFaithful
  BY DEF CopyInv, Progress, ToHostFaithful, At
<1> QED
  BY <1>1, CopyInvAlways, PTL

(* On every path, the failing ones too, FreeCompleted is called when no    *)
(* work is left on the block and FreeAsync when what is left is on the     *)
(* stream that it is given.                                                *)
THEOREM CallersAlwaysKeepTheContract == CopySpec => []CallersKeepTheContract
<1>1. CopyInv => CallersKeepTheContract
  BY DEF CopyInv, Progress, CallersKeepTheContract, At
<1> QED
  BY <1>1, CopyInvAlways, PTL

=============================================================================
