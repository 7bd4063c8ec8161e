------------------------ MODULE FusedConstants_proofs ------------------------
(***************************************************************************)
(* Proofs about FusedConstants: of the ways that wait for what they have   *)
(* written, on the host or on the device, every use finds the constants,   *)
(* for any number of threads, streams, calls and failures.                 *)
(***************************************************************************)
EXTENDS FusedConstants, TLAPS

-----------------------------------------------------------------------------
(* The inductive invariant                                                 *)

(* Where a thread has given the constants to its stream.                   *)
Writing == {"create", "record", "wait", "destroy", "publish"}

(* One of the first n works of a stream writes the constants.              *)
Covers(s, n) == n \in 0..Len(ops[s]) /\ \E k \in 1..n : ops[s][k].do = "write"

(* Behind the j-th work of a stream the constants are there.               *)
Guards(s, j) ==
  \/ ops[s][j].do = "write"
  \/ /\ ops[s][j].do = "wait" /\ ops[s][j].on \in Stream
     /\ Covers(ops[s][j].on, ops[s][j].upTo)

(* What is given to the stream behind its first n works finds them.        *)
Guarded(s, n) == written \/ \E j \in 1..n : Guards(s, j)

(* The published event was recorded behind the writes.                     *)
EventCovers == event.on \in Stream /\ Covers(event.on, event.upTo)

(* Who has the mutex, and what that says of the flag.                      *)
LockInv ==
  \A t \in Thread :
    /\ pc[t] \in Locked <=> holder = t
    /\ pc[t] \in Writing \cup {"write"} => ~ready
    /\ pc[t] # "idle" => stream[t] \in Stream
    /\ pc[t] \in {"test", "wait", "destroy"} => kind = "upload"

(* How far a thread that publishes has come.                               *)
WriteInv ==
  \A t \in Thread :
    /\ pc[t] \in Writing => Covers(stream[t], Len(ops[stream[t]]))
    /\ pc[t] = "wait" => event.on = stream[t] /\ Covers(stream[t], event.upTo)
    /\ kind = "upload" /\ pc[t] \in {"destroy", "publish"} => written
    /\ kind = "event" /\ pc[t] = "publish" => EventCovers

(* What the published flag promises.                                       *)
ReadyInv == ready => (kind = "upload" => written) /\ (kind = "event" => EventCovers)

(* What a stream has executed has had its effect.                          *)
DoneInv ==
  \A s \in Stream :
    /\ done[s] <= Len(ops[s])
    /\ \A k \in 1..done[s] :
         /\ ops[s][k].do = "write" => written
         /\ ops[s][k].do = "wait" /\ ops[s][k].on \in Stream =>
              done[ops[s][k].on] >= ops[s][k].upTo

(* Each use is behind the writes of the constants.                         *)
UseInv ==
  /\ \A t \in Thread : pc[t] = "launch" => Guarded(stream[t], Len(ops[stream[t]]))
  /\ \A s \in Stream : \A i \in 1..Len(ops[s]) : ops[s][i].do = "use" => Guarded(s, i - 1)

(* What every step preserves.                                              *)
ConstantsInv ==
  ConstantsTypeOK /\ LockInv /\ WriteInv /\ ReadyInv /\ DoneInv /\ UseInv

-----------------------------------------------------------------------------
(* What more work on a stream leaves as it was                             *)

(* Streams are only given more work.                                       *)
Grows ==
  \A s \in Stream : /\ Len(ops[s]) <= Len(ops'[s])
                     /\ \A k \in 1..Len(ops[s]) : ops'[s][k] = ops[s][k]

(* A stream that is given a work gets it behind the others.                *)
LEMMA SubmitAppends ==
  ASSUME ConstantsTypeOK, NEW s \in Stream, NEW w \in WorkType, Submit(s, w)
  PROVE  /\ ops' \in [Stream -> Seq(WorkType)]
         /\ Grows
         /\ Len(ops'[s]) = Len(ops[s]) + 1 /\ ops'[s][Len(ops[s]) + 1] = w
         /\ \A x \in Stream : x # s => ops'[x] = ops[x]
<1>1. ops' \in [Stream -> Seq(WorkType)] /\ ops'[s] = Append(ops[s], w)
  BY DEF Submit, ConstantsTypeOK
<1>2. \A x \in Stream : x # s => ops'[x] = ops[x]
  BY DEF Submit, ConstantsTypeOK
<1>3. /\ Len(ops'[s]) = Len(ops[s]) + 1 /\ ops'[s][Len(ops[s]) + 1] = w
      /\ \A k \in 1..Len(ops[s]) : ops'[s][k] = ops[s][k]
  BY <1>1 DEF ConstantsTypeOK
<1>4. \A x \in Stream : Len(ops[x]) \in Nat
  BY DEF ConstantsTypeOK
<1> QED
  BY <1>1, <1>2, <1>3, <1>4 DEF Grows

(* More work leaves the writes where they are,                             *)
LEMMA CoversKept ==
  ASSUME ConstantsTypeOK, ops' \in [Stream -> Seq(WorkType)], Grows,
         NEW s \in Stream, NEW n, Covers(s, n)
  PROVE  Covers(s, n)'
<1>1. PICK k \in 1..n : ops[s][k].do = "write"
  BY DEF Covers
<1>2. Len(ops[s]) \in Nat /\ Len(ops'[s]) \in Nat /\ n \in 0..Len(ops[s])
  BY DEF ConstantsTypeOK, Covers
<1>3. n \in 0..Len(ops'[s]) /\ ops'[s][k] = ops[s][k]
  BY <1>1, <1>2 DEF Grows
<1> QED
  BY <1>1, <1>3 DEF Covers

(* ... in front of whatever the stream is given next.                      *)
LEMMA CoversGrow ==
  ASSUME ConstantsTypeOK, ops' \in [Stream -> Seq(WorkType)], Grows,
         NEW s \in Stream, NEW n, Covers(s, n)
  PROVE  Covers(s, Len(ops[s]))'
<1>1. Len(ops[s]) \in Nat /\ Len(ops'[s]) \in Nat /\ n \in 0..Len(ops'[s])
  BY CoversKept DEF Covers
<1> QED
  BY <1>1, CoversKept DEF Covers

(* What is behind the writes stays behind them.                            *)
LEMMA GuardedKept ==
  ASSUME ConstantsTypeOK, ops' \in [Stream -> Seq(WorkType)], Grows, written => written',
         NEW s \in Stream, NEW n \in 0..Len(ops[s]), Guarded(s, n), NEW m \in Nat, n <= m
  PROVE  Guarded(s, m)'
<1>1. CASE written
  BY <1>1 DEF Guarded
<1>2. CASE \E j \in 1..n : Guards(s, j)
  <2>1. PICK j \in 1..n : Guards(s, j)
    BY <1>2
  <2>2. Len(ops[s]) \in Nat /\ ops'[s][j] = ops[s][j]
    BY <2>1 DEF ConstantsTypeOK, Grows
  <2>3. Guards(s, j)'
    BY <2>1, <2>2, CoversKept DEF Guards
  <2> QED
    BY <2>2, <2>3 DEF Guarded
<1> QED
  BY <1>1, <1>2 DEF Guarded

(* What streams are given runs behind what they were given before.         *)
LEMMA DoneKept ==
  ASSUME ConstantsTypeOK, ops' \in [Stream -> Seq(WorkType)], DoneInv, Grows,
         UNCHANGED <<done, written>>
  PROVE  DoneInv'
<1> SUFFICES ASSUME NEW s \in Stream
             PROVE  /\ done[s] <= Len(ops'[s])
                    /\ \A k \in 1..done[s] :
                         /\ ops'[s][k].do = "write" => written
                         /\ ops'[s][k].do = "wait" /\ ops'[s][k].on \in Stream =>
                              done[ops'[s][k].on] >= ops'[s][k].upTo
  BY DEF DoneInv
<1>1. Len(ops[s]) \in Nat /\ Len(ops'[s]) \in Nat /\ done[s] \in Nat
  BY DEF ConstantsTypeOK
<1>2. done[s] <= Len(ops[s]) /\ \A k \in 1..done[s] : ops'[s][k] = ops[s][k]
  BY <1>1 DEF DoneInv, Grows
<1> QED
  BY <1>1, <1>2 DEF DoneInv, Grows

(* What a stream has behind its works, it has in more works too.           *)
LEMMA UsesKept ==
  ASSUME ConstantsTypeOK, ops' \in [Stream -> Seq(WorkType)], Grows, written => written', UseInv
  PROVE  \A s \in Stream : \A i \in 1..Len(ops[s]) : ops'[s][i].do = "use" => Guarded(s, i - 1)'
<1> SUFFICES ASSUME NEW s \in Stream, NEW i \in 1..Len(ops[s]), ops'[s][i].do = "use"
             PROVE  Guarded(s, i - 1)'
  OBVIOUS
<1>1. Len(ops[s]) \in Nat
  BY DEF ConstantsTypeOK
<1>2. ops[s][i].do = "use" /\ i - 1 \in 0..Len(ops[s])
  BY <1>1 DEF Grows
<1> QED
  BY <1>2, GuardedKept DEF UseInv

(* The same of the work a call is about to give to its stream.             *)
LEMMA LaunchKept ==
  ASSUME ConstantsTypeOK, ops' \in [Stream -> Seq(WorkType)], Grows, written => written', UseInv,
         NEW t \in Thread, pc[t] = "launch", stream[t] \in Stream, stream'[t] = stream[t]
  PROVE  Guarded(stream[t], Len(ops[stream[t]]))'
<1>1. Len(ops[stream[t]]) \in Nat /\ Len(ops'[stream[t]]) \in Nat
  BY DEF ConstantsTypeOK
<1>2. Guarded(stream[t], Len(ops[stream[t]]))
  BY DEF UseInv
<1> QED
  BY <1>1, <1>2, GuardedKept DEF Grows

(* Works of the three kinds, and the event as one.                         *)
LEMMA WorkTypes ==
  /\ \A do \in {"write", "use"} : Work(do) \in WorkType
  /\ ConstantsTypeOK /\ EventCovers => WaitFor(event) \in WorkType
<1>1. \A do \in {"write", "use"} : Work(do) \in WorkType
  BY DEF Work, WorkType
<1>2. ASSUME ConstantsTypeOK, EventCovers PROVE WaitFor(event) \in WorkType
  <2>1. event.on \in Stream /\ event.upTo \in Nat
    BY <1>2 DEF ConstantsTypeOK, EventCovers, Covers
  <2> QED
    BY <2>1 DEF WaitFor, WorkType
<1> QED
  BY <1>1, <1>2

-----------------------------------------------------------------------------
(* The steps                                                               *)

(* Each step preserves the types.                                          *)
LEMMA TypeStep ==
  ASSUME ConstantsInv, Next, "pack" \notin Kinds
  PROVE  ConstantsTypeOK'
<1> USE DEF Goto, Unlock, Created, Locked
<1>1. ConstantsTypeOK /\ kind \in {"upload", "event"}
  BY FusedConstantsAssumption DEF ConstantsInv, ConstantsTypeOK
<1>2. \A t \in Thread : pc[t] # "idle" => stream[t] \in Stream
  BY DEF ConstantsInv, LockInv
<1>3. ASSUME NEW t \in Thread, NEW s \in Stream, Compute(t, s) PROVE ConstantsTypeOK'
  BY <1>1, <1>3 DEF Compute, ConstantsTypeOK
<1>4. ASSUME NEW t \in Thread, TestReady(t) PROVE ConstantsTypeOK'
  BY <1>1, <1>4 DEF TestReady, ConstantsTypeOK
<1>5. ASSUME NEW t \in Thread, Lock(t) PROVE ConstantsTypeOK'
  BY <1>1, <1>5 DEF Lock, ConstantsTypeOK
<1>6. ASSUME NEW t \in Thread, FindReady(t) PROVE ConstantsTypeOK'
  <2>1. ops' \in [Stream -> Seq(WorkType)]
    <3>1. CASE kind = "event"
      <4>1. WaitFor(event) \in WorkType /\ stream[t] \in Stream
        BY <1>1, <1>2, <1>6, <3>1, WorkTypes DEF FindReady, ConstantsInv, ReadyInv
      <4> QED
        BY <1>1, <1>6, <3>1, <4>1, SubmitAppends DEF FindReady
    <3>2. CASE kind # "event"
      BY <1>1, <1>6, <3>2 DEF FindReady, ConstantsTypeOK
    <3> QED
      BY <3>1, <3>2
  <2> QED
    BY <1>1, <1>6, <2>1 DEF FindReady, ConstantsTypeOK
<1>16. ASSUME NEW t \in Thread, FindUnready(t) PROVE ConstantsTypeOK'
  BY <1>1, <1>16 DEF FindUnready, ConstantsTypeOK
<1>7. ASSUME NEW t \in Thread, Write(t) PROVE ConstantsTypeOK'
  <2>1. ops' \in [Stream -> Seq(WorkType)]
    BY <1>1, <1>2, <1>7, SubmitAppends, WorkTypes DEF Write
  <2> QED
    BY <1>1, <1>7, <2>1 DEF Write, ConstantsTypeOK
<1>8. ASSUME NEW t \in Thread, CreateEvent(t) PROVE ConstantsTypeOK'
  BY <1>1, <1>8 DEF CreateEvent, ConstantsTypeOK
<1>9. ASSUME NEW t \in Thread, RecordEvent(t) PROVE ConstantsTypeOK'
  <2>1. stream[t] \in Stream /\ Len(ops[stream[t]]) \in Nat
    BY <1>1, <1>2, <1>9 DEF RecordEvent, ConstantsTypeOK
  <2> QED
    BY <1>1, <1>9, <2>1 DEF RecordEvent, ConstantsTypeOK
<1>10. ASSUME NEW t \in Thread, SynchronizeEvent(t) PROVE ConstantsTypeOK'
  BY <1>1, <1>10 DEF SynchronizeEvent, ConstantsTypeOK
<1>11. ASSUME NEW t \in Thread, DestroyEvent(t) PROVE ConstantsTypeOK'
  BY <1>1, <1>11 DEF DestroyEvent, ConstantsTypeOK
<1>12. ASSUME NEW t \in Thread, Publish(t) PROVE ConstantsTypeOK'
  BY <1>1, <1>12 DEF Publish, ConstantsTypeOK
<1>13. ASSUME NEW t \in Thread, Launch(t) PROVE ConstantsTypeOK'
  <2>1. ops' \in [Stream -> Seq(WorkType)]
    BY <1>1, <1>2, <1>13, SubmitAppends, WorkTypes DEF Launch
  <2> QED
    BY <1>1, <1>13, <2>1 DEF Launch, ConstantsTypeOK
<1>14. ASSUME NEW t \in Thread, Fail(t) PROVE ConstantsTypeOK'
  BY <1>1, <1>14 DEF Fail, ConstantsTypeOK
<1>15. ASSUME NEW s \in Stream, Execute(s) PROVE ConstantsTypeOK'
  BY <1>1, <1>15 DEF Execute, ConstantsTypeOK
<1> QED
  BY <1>3, <1>4, <1>5, <1>6, <1>7, <1>8, <1>9, <1>10, <1>11, <1>12, <1>13, <1>14, <1>15, <1>16
  DEF Next, Steps

(* One thread at a time is between Lock and the end of its scope.          *)
LEMMA LockStep ==
  ASSUME ConstantsInv, Next, "pack" \notin Kinds
  PROVE  LockInv'
<1> USE FusedConstantsAssumption DEF Goto, Unlock, Locked, Writing
<1>1. ConstantsTypeOK /\ LockInv /\ kind \in {"upload", "event"}
  BY DEF ConstantsInv, ConstantsTypeOK
<1>3. ASSUME NEW t \in Thread, NEW s \in Stream, Compute(t, s) PROVE LockInv'
  BY <1>1, <1>3 DEF Compute, LockInv, ConstantsTypeOK
<1>4. ASSUME NEW t \in Thread, TestReady(t) PROVE LockInv'
  BY <1>1, <1>4 DEF TestReady, LockInv, ConstantsTypeOK
<1>5. ASSUME NEW t \in Thread, Lock(t) PROVE LockInv'
  BY <1>1, <1>5 DEF Lock, LockInv, ConstantsTypeOK
<1>6. ASSUME NEW t \in Thread, FindReady(t) PROVE LockInv'
  BY <1>1, <1>6 DEF FindReady, LockInv, ConstantsTypeOK
<1>16. ASSUME NEW t \in Thread, FindUnready(t) PROVE LockInv'
  BY <1>1, <1>16 DEF FindUnready, LockInv, ConstantsTypeOK
<1>7. ASSUME NEW t \in Thread, Write(t) PROVE LockInv'
  BY <1>1, <1>7 DEF Write, LockInv, ConstantsTypeOK
<1>8. ASSUME NEW t \in Thread, CreateEvent(t) PROVE LockInv'
  BY <1>1, <1>8 DEF CreateEvent, LockInv, ConstantsTypeOK
<1>9. ASSUME NEW t \in Thread, RecordEvent(t) PROVE LockInv'
  BY <1>1, <1>9 DEF RecordEvent, LockInv, ConstantsTypeOK
<1>10. ASSUME NEW t \in Thread, SynchronizeEvent(t) PROVE LockInv'
  BY <1>1, <1>10 DEF SynchronizeEvent, LockInv, ConstantsTypeOK
<1>11. ASSUME NEW t \in Thread, DestroyEvent(t) PROVE LockInv'
  BY <1>1, <1>11 DEF DestroyEvent, LockInv, ConstantsTypeOK
<1>12. ASSUME NEW t \in Thread, Publish(t) PROVE LockInv'
  BY <1>1, <1>12 DEF Publish, LockInv, ConstantsTypeOK
<1>13. ASSUME NEW t \in Thread, Launch(t) PROVE LockInv'
  BY <1>1, <1>13 DEF Launch, LockInv, ConstantsTypeOK
<1>14. ASSUME NEW t \in Thread, Fail(t) PROVE LockInv'
  BY <1>1, <1>14 DEF Fail, LockInv, ConstantsTypeOK
<1>15. ASSUME NEW s \in Stream, Execute(s) PROVE LockInv'
  BY <1>1, <1>15 DEF Execute, LockInv, ConstantsTypeOK
<1> QED
  BY <1>3, <1>4, <1>5, <1>6, <1>7, <1>8, <1>9, <1>10, <1>11, <1>12, <1>13, <1>14, <1>15, <1>16
  DEF Next, Steps

(* A stream is only given more work, of the three kinds.                   *)
LEMMA WorkGrows ==
  ASSUME ConstantsInv, Next, "pack" \notin Kinds
  PROVE  Grows /\ (written => written') /\ ops' \in [Stream -> Seq(WorkType)]
<1>1. ConstantsTypeOK /\ ConstantsTypeOK'
  BY TypeStep DEF ConstantsInv
<1>2. \A t \in Thread : pc[t] # "idle" => stream[t] \in Stream
  BY DEF ConstantsInv, LockInv
<1>3. UNCHANGED ops => Grows
  BY <1>1 DEF Grows, ConstantsTypeOK
<1>4. ASSUME NEW t \in Thread, FindReady(t), kind = "event" PROVE Grows
  <2>1. WaitFor(event) \in WorkType /\ stream[t] \in Stream
    BY <1>1, <1>2, <1>4, WorkTypes DEF FindReady, ConstantsInv, ReadyInv
  <2> QED
    BY <1>1, <1>4, <2>1, SubmitAppends DEF FindReady
<1>5. ASSUME NEW t \in Thread, Write(t) \/ Launch(t) PROVE Grows
  <2>1. stream[t] \in Stream /\ \E do \in {"write", "use"} : Submit(stream[t], Work(do))
    BY <1>2, <1>5 DEF Write, Launch
  <2> QED
    BY <1>1, <2>1, WorkTypes, SubmitAppends
<1>6. written => written'
  BY DEF Next, Steps, Compute, TestReady, Lock, FindReady, FindUnready, Write, CreateEvent,
         RecordEvent, SynchronizeEvent, DestroyEvent, Publish, Launch, Fail, Execute
<1>7. Grows
  BY <1>3, <1>4, <1>5
  DEF Next, Steps, Compute, TestReady, Lock, FindReady, FindUnready, CreateEvent, RecordEvent,
      SynchronizeEvent, DestroyEvent, Publish, Fail, Execute
<1> QED
  BY <1>1, <1>6, <1>7 DEF ConstantsTypeOK

(* Of the others a step of a thread changes nothing; the event is changed  *)
(* by the one that writes the constants.                                   *)
LEMMA OthersStay ==
  ASSUME ConstantsTypeOK, NEW t \in Thread, Steps(t) \/ \E s \in Stream : Compute(t, s)
  PROVE  /\ \A u \in Thread \ {t} : pc'[u] = pc[u] /\ stream'[u] = stream[u]
         /\ kind' = kind
         /\ event' = event \/ pc[t] \in Writing
BY DEF Steps, Compute, TestReady, Lock, FindReady, FindUnready, Write, CreateEvent,
       RecordEvent, SynchronizeEvent, DestroyEvent, Publish, Launch, Fail, Goto,
       ConstantsTypeOK, Writing

(* The event belongs to whoever holds the mutex, who found the flag unset: *)
(* once it is set the event stays.                                         *)
LEMMA EventStays ==
  ASSUME ConstantsTypeOK, LockInv, Next
  PROVE  ready => event' = event
BY OthersStay DEF Next, LockInv, Execute

(* A thread that stays keeps what it has written, unless another one       *)
(* changes the event.                                                      *)
LEMMA WriteKept ==
  ASSUME ConstantsInv, Next, "pack" \notin Kinds, kind' = kind,
         NEW u \in Thread, pc'[u] = pc[u], stream'[u] = stream[u],
         pc[u] \in Writing => event' = event
  PROVE  /\ pc'[u] \in Writing => Covers(stream[u], Len(ops[stream[u]]))'
         /\ pc'[u] = "wait" => event'.on = stream'[u] /\ Covers(stream[u], event.upTo)'
         /\ kind' = "upload" /\ pc'[u] \in {"destroy", "publish"} => written'
         /\ kind' = "event" /\ pc'[u] = "publish" => EventCovers'
<1>1. ConstantsTypeOK /\ Grows /\ (written => written') /\ ops' \in [Stream -> Seq(WorkType)]
  BY WorkGrows DEF ConstantsInv
<1>2. WriteInv /\ (pc[u] # "idle" => stream[u] \in Stream)
  BY DEF ConstantsInv, LockInv
<1>3. ASSUME pc[u] \in Writing PROVE Covers(stream[u], Len(ops[stream[u]]))'
  <2>1. stream[u] \in Stream /\ Covers(stream[u], Len(ops[stream[u]]))
    BY <1>2, <1>3 DEF WriteInv, Writing
  <2> QED
    BY <1>1, <2>1, CoversGrow
<1>4. ASSUME pc[u] = "wait"
      PROVE  event'.on = stream'[u] /\ Covers(stream[u], event.upTo)'
  <2>1. event' = event /\ event.on = stream[u] /\ Covers(stream[u], event.upTo)
    BY <1>2, <1>4 DEF WriteInv, Writing
  <2> QED
    BY <1>1, <1>2, <1>4, <2>1, CoversKept
<1>5. ASSUME kind = "event", pc[u] = "publish" PROVE EventCovers'
  <2>1. event' = event /\ EventCovers
    BY <1>2, <1>5 DEF WriteInv, Writing
  <2> QED
    BY <1>1, <2>1, CoversKept DEF EventCovers
<1> QED
  BY <1>1, <1>2, <1>3, <1>4, <1>5 DEF WriteInv

(* What a thread has written, what its event is behind, and what it has    *)
(* waited for.                                                             *)
LEMMA WriteStep ==
  ASSUME ConstantsInv, Next, "pack" \notin Kinds
  PROVE  WriteInv'
<1> USE FusedConstantsAssumption DEF Goto
<1>1. /\ ConstantsTypeOK /\ LockInv /\ WriteInv /\ DoneInv /\ kind \in {"upload", "event"}
      /\ Grows /\ (written => written') /\ ops' \in [Stream -> Seq(WorkType)]
  BY WorkGrows DEF ConstantsInv, ConstantsTypeOK
<1> DEFINE Wrote(u) ==
             /\ pc[u] \in Writing => Covers(stream[u], Len(ops[stream[u]]))
             /\ pc[u] = "wait" => event.on = stream[u] /\ Covers(stream[u], event.upTo)
             /\ kind = "upload" /\ pc[u] \in {"destroy", "publish"} => written
             /\ kind = "event" /\ pc[u] = "publish" => EventCovers
<1>2. ASSUME NEW s \in Stream, Execute(s) PROVE WriteInv'
  BY <1>2, WriteKept DEF Execute, WriteInv
<1>3. ASSUME NEW t \in Thread, Steps(t) \/ \E s \in Stream : Compute(t, s) PROVE WriteInv'
  <2>1. \A u \in Thread \ {t} : Wrote(u)'
    <3>1. SUFFICES ASSUME NEW u \in Thread \ {t} PROVE Wrote(u)'
      OBVIOUS
    <3>2. pc[u] \in Writing => pc[t] \notin Writing
      BY <1>1 DEF LockInv, Locked, Writing
    <3> QED
      BY <1>1, <1>3, <3>2, OthersStay, WriteKept
  <2>2. ASSUME pc[t] \in Writing, stream'[t] = stream[t]
        PROVE  Covers(stream[t], Len(ops[stream[t]]))'
    <3>1. stream[t] \in Stream /\ Covers(stream[t], Len(ops[stream[t]]))
      BY <1>1, <2>2 DEF LockInv, WriteInv, Writing
    <3> QED
      BY <1>1, <2>2, <3>1, CoversGrow
  <2>3. CASE Write(t)
    <3>1. Work("write") \in WorkType /\ stream[t] \in Stream
      BY <1>1, <2>3, WorkTypes DEF Write, LockInv
    <3>2. Covers(stream[t], Len(ops[stream[t]]))'
      <4>1. /\ Len(ops'[stream[t]]) = Len(ops[stream[t]]) + 1
            /\ ops'[stream[t]][Len(ops[stream[t]]) + 1].do = "write"
            /\ Len(ops[stream[t]]) \in Nat /\ stream'[t] = stream[t]
        BY <1>1, <2>3, <3>1, SubmitAppends DEF Write, Work, ConstantsTypeOK
      <4> QED
        BY <4>1 DEF Covers
    <3>3. pc'[t] \in {"create", "record"}
      BY <1>1, <2>3 DEF Write, ConstantsTypeOK
    <3> QED
      BY <2>1, <3>2, <3>3 DEF WriteInv
  <2>4. CASE CreateEvent(t)
    <3>1. pc'[t] = "record" /\ Covers(stream[t], Len(ops[stream[t]]))'
      BY <1>1, <2>2, <2>4 DEF CreateEvent, ConstantsTypeOK, Writing
    <3> QED
      BY <2>1, <3>1 DEF WriteInv
  <2>5. CASE RecordEvent(t)
    <3>1. Covers(stream[t], Len(ops[stream[t]]))' /\ stream'[t] = stream[t] /\ stream[t] \in Stream
      BY <1>1, <2>2, <2>5 DEF RecordEvent, Writing, LockInv
    <3>2. event'.on = stream'[t] /\ event'.upTo = Len(ops'[stream'[t]])
      BY <2>5 DEF RecordEvent
    <3>3. Covers(stream[t], event.upTo)'
      BY <3>1, <3>2
    <3>4. EventCovers'
      BY <3>1, <3>2, <3>3 DEF EventCovers
    <3>5. pc'[t] \in {"wait", "publish"} /\ (kind' = "upload" => pc'[t] = "wait")
      BY <1>1, <2>5 DEF RecordEvent, ConstantsTypeOK
    <3> QED
      BY <2>1, <3>1, <3>2, <3>3, <3>4, <3>5 DEF WriteInv
  <2>6. CASE SynchronizeEvent(t)
    <3>1. Covers(stream[t], Len(ops[stream[t]]))' /\ pc'[t] = "destroy" /\ kind' = "upload"
      BY <1>1, <2>2, <2>6 DEF SynchronizeEvent, Writing, LockInv, ConstantsTypeOK
    <3>2. /\ event.on \in Stream /\ Covers(event.on, event.upTo)
          /\ done[event.on] >= event.upTo
      BY <1>1, <2>6 DEF SynchronizeEvent, Completed, WriteInv, LockInv
    <3>3. PICK k \in 1..event.upTo : ops[event.on][k].do = "write"
      BY <3>2 DEF Covers
    <3>4. k \in 1..done[event.on]
      BY <1>1, <3>2, <3>3 DEF Covers, ConstantsTypeOK
    <3>5. written
      BY <1>1, <3>2, <3>3, <3>4 DEF DoneInv
    <3> QED
      BY <1>1, <2>1, <3>1, <3>5 DEF WriteInv
  <2>7. CASE DestroyEvent(t)
    <3>1. Covers(stream[t], Len(ops[stream[t]]))' /\ pc'[t] = "publish" /\ kind' = "upload" /\ written
      BY <1>1, <2>2, <2>7 DEF DestroyEvent, Writing, LockInv, WriteInv, ConstantsTypeOK
    <3> QED
      BY <1>1, <2>1, <3>1 DEF WriteInv
  <2>8. CASE ~(\/ Write(t) \/ CreateEvent(t) \/ RecordEvent(t) \/ SynchronizeEvent(t)
               \/ DestroyEvent(t))
    <3>1. pc'[t] \notin Writing
      BY <1>1, <1>3, <2>8
      DEF Steps, Compute, TestReady, Lock, FindReady, FindUnready, Publish, Launch, Fail,
          ConstantsTypeOK, Writing
    <3> QED
      BY <2>1, <3>1 DEF WriteInv, Writing
  <2> QED
    BY <2>3, <2>4, <2>5, <2>6, <2>7, <2>8
<1> QED
  BY <1>2, <1>3 DEF Next

(* What is published is on the device, or behind the event.                *)
LEMMA ReadyStep ==
  ASSUME ConstantsInv, Next, "pack" \notin Kinds
  PROVE  ReadyInv'
<1>1. /\ ConstantsTypeOK /\ LockInv /\ WriteInv /\ ReadyInv /\ kind' = kind
      /\ Grows /\ (written => written') /\ ops' \in [Stream -> Seq(WorkType)]
  BY WorkGrows, OthersStay DEF ConstantsInv, Next, Execute
<1>2. ASSUME NEW t \in Thread, Publish(t) PROVE ReadyInv'
  <2>1. /\ kind = "upload" => written
        /\ kind = "event" => EventCovers
    BY <1>1, <1>2 DEF Publish, WriteInv
  <2> QED
    BY <1>1, <1>2, <2>1, CoversKept DEF Publish, ReadyInv, EventCovers
<1>3. ASSUME ready' = ready, ready => event' = event PROVE ReadyInv'
  BY <1>1, <1>3, CoversKept DEF ReadyInv, EventCovers
<1>4. \/ \E t \in Thread : Publish(t)
      \/ ready' = ready
  BY DEF Next, Steps, Compute, TestReady, Lock, FindReady, FindUnready, Write, CreateEvent,
         RecordEvent, SynchronizeEvent, DestroyEvent, Launch, Fail, Execute
<1>5. ready => event' = event
  BY EventStays DEF ConstantsInv
<1> QED
  BY <1>2, <1>3, <1>4, <1>5

(* What the device has done is on it, waits included.                      *)
LEMMA DoneStep ==
  ASSUME ConstantsInv, Next, "pack" \notin Kinds
  PROVE  DoneInv'
<1>1. /\ ConstantsTypeOK /\ DoneInv /\ None \notin Stream
      /\ Grows /\ ops' \in [Stream -> Seq(WorkType)]
  BY WorkGrows, FusedConstantsAssumption DEF ConstantsInv
<1>2. ASSUME NEW s \in Stream, Execute(s) PROVE DoneInv'
  <2>1. /\ ops' = ops /\ done[s] < Len(ops[s]) /\ done' = [done EXCEPT ![s] = @ + 1]
        /\ written => written'
        /\ ops[s][done[s] + 1].do = "write" => written'
        /\ ops[s][done[s] + 1].on # None => done[ops[s][done[s] + 1].on] >= ops[s][done[s] + 1].upTo
    BY <1>2 DEF Execute, NextWork, Completed
  <2>2. \A x \in Stream : Len(ops[x]) \in Nat /\ done[x] \in Nat /\ done'[x] \in Nat
                           /\ done'[x] = (IF x = s THEN done[x] + 1 ELSE done[x])
    BY <1>1, <2>1 DEF ConstantsTypeOK
  <2>3. SUFFICES ASSUME NEW x \in Stream
                 PROVE  /\ done'[x] <= Len(ops[x])
                        /\ \A k \in 1..done'[x] :
                             /\ ops[x][k].do = "write" => written'
                             /\ ops[x][k].do = "wait" /\ ops[x][k].on \in Stream =>
                                  done'[ops[x][k].on] >= ops[x][k].upTo
    BY <2>1 DEF DoneInv
  <2>4. done'[x] <= Len(ops[x])
    BY <1>1, <2>1, <2>2 DEF DoneInv
  <2>5. ASSUME NEW k \in 1..done'[x]
        PROVE  /\ ops[x][k].do = "write" => written'
               /\ ops[x][k].do = "wait" /\ ops[x][k].on \in Stream =>
                    done'[ops[x][k].on] >= ops[x][k].upTo
    <3>1. k \in 1..Len(ops[x]) /\ ops[x] \in Seq(WorkType)
      BY <2>2, <2>4 DEF ConstantsTypeOK, ConstantsInv
    <3>2. ops[x][k].upTo \in Nat
      <4>1. ops[x][k] \in WorkType
        BY <3>1
      <4> QED
        BY <4>1 DEF WorkType
    <3>3. CASE k \in 1..done[x]
      <4>1. /\ ops[x][k].do = "write" => written
            /\ ops[x][k].do = "wait" /\ ops[x][k].on \in Stream =>
                 done[ops[x][k].on] >= ops[x][k].upTo
        BY <1>1, <3>3 DEF DoneInv
      <4> QED
        BY <2>1, <2>2, <3>2, <4>1
    <3>4. CASE x = s /\ k = done[s] + 1
      BY <1>1, <2>1, <2>2, <3>2, <3>4
    <3> QED
      BY <2>2, <3>3, <3>4
  <2> QED
    BY <2>4, <2>5
<1>3. ASSUME UNCHANGED <<done, written>> PROVE DoneInv'
  BY <1>1, <1>3, DoneKept
<1> QED
  BY <1>2, <1>3
  DEF Next, Steps, Compute, TestReady, Lock, FindReady, FindUnready, Write, CreateEvent,
      RecordEvent, SynchronizeEvent, DestroyEvent, Publish, Launch, Fail

(* A call that has come to its products has a guard on its stream: what it *)
(* wrote itself, or the wait for the event.                                *)
LEMMA LaunchStep ==
  ASSUME ConstantsInv, Next, "pack" \notin Kinds, NEW t \in Thread,
         Steps(t) \/ \E s \in Stream : Compute(t, s), pc'[t] = "launch"
  PROVE  Guarded(stream[t], Len(ops[stream[t]]))'
<1>1. /\ ConstantsTypeOK /\ LockInv /\ WriteInv /\ ReadyInv /\ UseInv
      /\ Grows /\ (written => written') /\ ops' \in [Stream -> Seq(WorkType)]
      /\ kind \in {"upload", "event"}
  BY WorkGrows, FusedConstantsAssumption DEF ConstantsInv, ConstantsTypeOK
<1>2. (TestReady(t) /\ ready) \/ FindReady(t) \/ Publish(t)
  BY <1>1 DEF Steps, Compute, TestReady, Lock, FindUnready, Write, CreateEvent,
     RecordEvent, SynchronizeEvent, DestroyEvent, Launch, Fail, Goto, ConstantsTypeOK
<1>3. stream'[t] = stream[t] /\ stream[t] \in Stream
  BY <1>1, <1>2 DEF TestReady, FindReady, Publish, LockInv
<1>4. CASE kind = "upload"
  <2>1. written
    BY <1>1, <1>2, <1>4 DEF TestReady, FindReady, Publish, ReadyInv, WriteInv
  <2> QED
    BY <1>1, <2>1 DEF Guarded
<1>5. CASE kind = "event" /\ FindReady(t)
  <2>1. WaitFor(event) \in WorkType /\ EventCovers /\ Submit(stream[t], WaitFor(event))
    BY <1>1, <1>5, WorkTypes DEF FindReady, ReadyInv
  <2>2. /\ Len(ops'[stream[t]]) = Len(ops[stream[t]]) + 1 /\ Len(ops[stream[t]]) \in Nat
        /\ ops'[stream[t]][Len(ops[stream[t]]) + 1] = WaitFor(event)
    BY <1>1, <1>3, <2>1, SubmitAppends DEF ConstantsTypeOK
  <2>3. Covers(event.on, event.upTo)' /\ event' = event /\ event.on \in Stream
    BY <1>1, <1>5, <2>1, CoversKept DEF EventCovers, FindReady
  <2>4. PICK j \in Nat : j = Len(ops[stream[t]]) + 1
    BY <2>2
  <2>5. /\ j \in 1..Len(ops'[stream'[t]]) /\ ops'[stream'[t]][j].do = "wait"
        /\ ops'[stream'[t]][j].on = event'.on /\ ops'[stream'[t]][j].upTo = event'.upTo
    BY <1>3, <2>2, <2>3, <2>4 DEF WaitFor
  <2>6. Guards(stream[t], j)'
    BY <2>3, <2>5 DEF Guards
  <2> QED
    BY <2>5, <2>6 DEF Guarded
<1>6. CASE kind = "event" /\ Publish(t)
  <2>1. Covers(stream[t], Len(ops[stream[t]]))'
    BY <1>1, <1>3, <1>6, CoversGrow DEF Publish, WriteInv, Writing
  <2> QED
    BY <2>1 DEF Covers, Guarded, Guards
<1>7. ~(kind = "event" /\ TestReady(t))
  BY <1>1 DEF TestReady, LockInv
<1> QED
  BY <1>1, <1>2, <1>4, <1>5, <1>6, <1>7

(* A stream that has more work was given it by a thread of its own: what   *)
(* reads the constants by Launch, what writes them by Write.               *)
LEMMA WorkGiven ==
  ASSUME ConstantsInv, Next, "pack" \notin Kinds, NEW s \in Stream, ops'[s] # ops[s]
  PROVE  \E t \in Thread, w \in WorkType :
           /\ s = stream[t] /\ Submit(s, w)
           /\ w.do = "use" => Launch(t)
           /\ w.do = "write" => Write(t)
<1>0. ConstantsTypeOK /\ LockInv
  BY DEF ConstantsInv
<1>1. PICK t \in Thread : (FindReady(t) /\ kind = "event") \/ Write(t) \/ Launch(t)
  BY DEF Next, Steps, Compute, TestReady, Lock, FindReady, FindUnready, CreateEvent, RecordEvent,
     SynchronizeEvent, DestroyEvent, Publish, Fail, Execute
<1>2. s = stream[t]
  BY <1>0, <1>1 DEF FindReady, Write, Launch, Submit, ConstantsTypeOK
<1>3. CASE FindReady(t) /\ kind = "event"
  <2>1. WaitFor(event) \in WorkType /\ WaitFor(event).do = "wait"
    BY <1>0, <1>3, WorkTypes DEF FindReady, ConstantsInv, ReadyInv, WaitFor
  <2> QED
    BY <1>2, <1>3, <2>1 DEF FindReady
<1>4. CASE Write(t)
  <2>1. Work("write") \in WorkType /\ Work("write").do = "write"
    BY WorkTypes DEF Work
  <2> QED
    BY <1>2, <1>4, <2>1 DEF Write
<1>5. CASE Launch(t)
  <2>1. Work("use") \in WorkType /\ Work("use").do = "use"
    BY WorkTypes DEF Work
  <2> QED
    BY <1>2, <1>5, <2>1 DEF Launch
<1> QED
  BY <1>1, <1>3, <1>4, <1>5

(* Each step keeps every use behind the writes.                            *)
LEMMA UseStep ==
  ASSUME ConstantsInv, Next, "pack" \notin Kinds
  PROVE  UseInv'
<1>1. /\ ConstantsTypeOK /\ LockInv /\ UseInv
      /\ Grows /\ (written => written') /\ ops' \in [Stream -> Seq(WorkType)]
  BY WorkGrows DEF ConstantsInv
<1>2. ASSUME NEW u \in Thread, pc'[u] = "launch"
      PROVE  Guarded(stream[u], Len(ops[stream[u]]))'
  <2>1. CASE \E t \in Thread : t = u /\ (Steps(t) \/ \E s \in Stream : Compute(t, s))
    BY <1>2, <2>1, LaunchStep
  <2>2. CASE \E t \in Thread \ {u} : Steps(t) \/ \E s \in Stream : Compute(t, s)
    <3>1. pc[u] = "launch" /\ stream'[u] = stream[u] /\ stream[u] \in Stream
      BY <1>1, <1>2, <2>2, OthersStay DEF LockInv
    <3> QED
      BY <1>1, <3>1, LaunchKept
  <2>3. CASE \E s \in Stream : Execute(s)
    <3>1. pc[u] = "launch" /\ stream'[u] = stream[u] /\ stream[u] \in Stream
      BY <1>1, <1>2, <2>3 DEF LockInv, Execute
    <3> QED
      BY <1>1, <3>1, LaunchKept
  <2> QED
    BY <2>1, <2>2, <2>3 DEF Next
<1>3. ASSUME NEW s \in Stream, NEW i \in 1..Len(ops'[s]), ops'[s][i].do = "use"
      PROVE  Guarded(s, i - 1)'
  <2>1. Len(ops[s]) \in Nat /\ Len(ops'[s]) \in Nat
    BY <1>1 DEF ConstantsTypeOK
  <2>2. CASE i \in 1..Len(ops[s])
    BY <1>1, <1>3, <2>2, UsesKept
  <2>3. CASE i \notin 1..Len(ops[s])
    <3>1. ops'[s] # ops[s]
      BY <1>3, <2>1, <2>3
    <3>2. PICK t \in Thread, w \in WorkType :
            s = stream[t] /\ Submit(s, w) /\ (w.do = "use" => Launch(t))
      BY <3>1, WorkGiven
    <3>3. s = stream[t] /\ i = Len(ops[s]) + 1 /\ ops'[s][i] = w
      BY <1>1, <1>3, <2>1, <2>3, <3>1, <3>2, SubmitAppends
    <3>4. Guarded(s, i - 1)
      BY <1>1, <1>3, <2>1, <3>2, <3>3 DEF UseInv, Launch
    <3> QED
      BY <1>1, <2>1, <3>3, <3>4, GuardedKept
  <2> QED
    BY <2>2, <2>3
<1> QED
  BY <1>2, <1>3 DEF UseInv

-----------------------------------------------------------------------------
(* The theorems                                                            *)

(* Before the first call.                                                  *)
LEMMA ConstantsInvStart == Init => ConstantsInv
<1> SUFFICES ASSUME Init PROVE ConstantsInv
  OBVIOUS
<1>1. ConstantsTypeOK
  <2>1. ops \in [Stream -> Seq(WorkType)]
    BY DEF Init
  <2>2. pc \in [Thread -> Locked \cup {"idle", "test", "lock", "launch"}]
    BY DEF Init
  <2> QED
    BY <2>1, <2>2 DEF Init, ConstantsTypeOK
<1>2. \A s \in Stream : ops[s] = <<>> /\ done[s] = 0
  BY DEF Init
<1>3. LockInv /\ WriteInv /\ ReadyInv
  BY FusedConstantsAssumption DEF Init, LockInv, WriteInv, ReadyInv, Locked, Writing
<1>4. DoneInv /\ UseInv
  BY <1>2 DEF Init, DoneInv, UseInv
<1> QED
  BY <1>1, <1>3, <1>4 DEF ConstantsInv

(* Every step preserves the invariant.                                     *)
LEMMA ConstantsInvStep ==
  ASSUME ConstantsInv, [Next]_vars, "pack" \notin Kinds
  PROVE  ConstantsInv'
<1>1. CASE Next
  BY <1>1, TypeStep, LockStep, WriteStep, ReadyStep, DoneStep, UseStep DEF ConstantsInv
<1>2. CASE UNCHANGED vars
  BY <1>2
  DEF vars, ConstantsInv, ConstantsTypeOK, LockInv, WriteInv, ReadyInv, DoneInv, UseInv,
      EventCovers, Guarded, Guards, Covers
<1> QED
  BY <1>1, <1>2

(* The inductive invariant holds of the ways that wait (EnsureConstants of *)
(* parallel_linear_fusion.cc, swiglu_fusion.cc, moe_fusion.cc and          *)
(* split_sequence_moe_fusion.cc).                                          *)
THEOREM ConstantsInvEver ==
  ASSUME "pack" \notin Kinds
  PROVE  Spec => []ConstantsInv
<1>1. ConstantsInv /\ [Next]_vars => ConstantsInv'
  BY ConstantsInvStep
<1> QED
  BY <1>1, ConstantsInvStart, PTL DEF Spec

(* No product over the constants runs before they are on the device,       *)
(* however threads, streams and failures interleave.                       *)
THEOREM UseFindsConstantsEver ==
  ASSUME "pack" \notin Kinds
  PROVE  Spec => []UseFindsConstants
<1>1. ConstantsInv => UseFindsConstants
  <2> SUFFICES ASSUME ConstantsInv, NEW s \in Stream, done[s] < Len(ops[s]),
                      NextWork(s).do = "use"
               PROVE  written
    BY DEF UseFindsConstants
  <2>1. ConstantsTypeOK /\ DoneInv /\ UseInv
    BY DEF ConstantsInv
  <2>2. \A x \in Stream : done[x] \in Nat /\ Len(ops[x]) \in Nat
    BY <2>1 DEF ConstantsTypeOK
  <2>3. Guarded(s, done[s])
    <3>1. done[s] + 1 \in 1..Len(ops[s]) /\ ops[s][done[s] + 1].do = "use"
      BY <2>2 DEF NextWork
    <3> QED
      BY <2>1, <2>2, <3>1 DEF UseInv
  <2>4. ASSUME NEW j \in 1..done[s], Guards(s, j) PROVE written
    <3>1. CASE ops[s][j].do = "write"
      BY <2>1, <2>4, <3>1 DEF DoneInv
    <3>2. CASE ops[s][j].do = "wait" /\ ops[s][j].on \in Stream
               /\ Covers(ops[s][j].on, ops[s][j].upTo)
      <4>1. done[ops[s][j].on] >= ops[s][j].upTo
        BY <2>1, <2>4, <3>2 DEF DoneInv
      <4>2. PICK k \in 1..ops[s][j].upTo : ops[ops[s][j].on][k].do = "write"
        BY <3>2 DEF Covers
      <4>3. k \in 1..done[ops[s][j].on]
        BY <2>2, <3>2, <4>1, <4>2 DEF Covers
      <4> QED
        BY <2>1, <3>2, <4>2, <4>3 DEF DoneInv
    <3> QED
      BY <2>4, <3>1, <3>2 DEF Guards
  <2> QED
    BY <2>3, <2>4 DEF Guarded
<1> QED
  BY <1>1, ConstantsInvEver, PTL

(* The variables are of their types.                                       *)
THEOREM ConstantsTypeOKEver ==
  ASSUME "pack" \notin Kinds
  PROVE  Spec => []ConstantsTypeOK
<1>1. ConstantsInv => ConstantsTypeOK
  BY DEF ConstantsInv
<1> QED
  BY <1>1, ConstantsInvEver, PTL

(* Once published, the constants are not given to a stream again and their *)
(* event stays: of those who found them missing before, at most one holds  *)
(* the mutex (LockInv), and the one that publishes has it.                 *)
THEOREM PublishedIsFinalEver ==
  ASSUME "pack" \notin Kinds
  PROVE  Spec => PublishedIsFinal
<1> DEFINE Given == \A s \in Stream :
             Len(ops'[s]) > Len(ops[s]) => ops'[s][Len(ops'[s])].do # "write"
           Final == ready => ready' /\ event' = event /\ Given
<1>1. ASSUME ConstantsInv, [Next]_vars PROVE [Final]_vars
  <2> SUFFICES ASSUME Next, ready PROVE ready' /\ event' = event /\ Given
    BY <1>1
  <2>1. ConstantsTypeOK /\ LockInv
    BY <1>1 DEF ConstantsInv
  <2>2. ready'
    BY DEF Next, Steps, Compute, TestReady, Lock, FindReady, FindUnready, Write, CreateEvent,
           RecordEvent, SynchronizeEvent, DestroyEvent, Publish, Launch, Fail, Execute
  <2>3. event' = event
    BY <2>1, EventStays
  <2>4. \A t \in Thread : pc[t] # "write"
    BY <2>1 DEF LockInv
  <2>5. ASSUME NEW s \in Stream, Len(ops'[s]) > Len(ops[s])
        PROVE  ops'[s][Len(ops'[s])].do # "write"
    <3>1. Len(ops[s]) \in Nat
      BY <2>1 DEF ConstantsTypeOK
    <3>2. PICK t \in Thread, w \in WorkType : Submit(s, w) /\ (w.do = "write" => Write(t))
      BY <1>1, <2>5, <3>1, WorkGiven
    <3>3. ops'[s][Len(ops'[s])] = w
      BY <2>1, <2>5, <3>1, <3>2, SubmitAppends
    <3> QED
      BY <2>4, <3>2, <3>3 DEF Write
  <2> QED
    BY <2>2, <2>3, <2>5
<1> QED
  BY <1>1, ConstantsInvEver, PTL DEF Spec, PublishedIsFinal

=============================================================================
