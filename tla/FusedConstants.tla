--------------------------- MODULE FusedConstants ---------------------------
(***************************************************************************)
(* The constants a compute object of a fusion puts on the device at its    *)
(* first call and every later call reads, in runs of a shared session on   *)
(* threads and streams of their own.  The fusions know three ways:         *)
(*                                                                         *)
(*   "upload"  ParallelLinear and SwiGlu copy, record an event, wait for   *)
(*             it on the host and only then publish;                       *)
(*   "event"   MoE and SplitSequenceMoE copy, record an event and publish, *)
(*             and every later call makes its stream wait for the event;   *)
(*   "pack"    ParallelEinsumActivation launches the kernel that packs its *)
(*             weights and publishes.                                      *)
(*                                                                         *)
(* That constants are written again after an error changes nothing: the    *)
(* bytes are the same.  What ParallelEinsumActivation does before, copying *)
(* weights that are not on the device and waiting for the copies, is left  *)
(* out: they are on the device when they are packed.                       *)
(*                                                                         *)
(* Each call of the runtime that can fail makes the call return an error,  *)
(* which leaves what was done so far.                                      *)
(***************************************************************************)
EXTENDS Naturals, Sequences, FiniteSets

CONSTANTS
  Thread,      \* the threads that run the session
  Stream,      \* the streams of the runs
  None,        \* no thread, no stream, no event
  Kinds,       \* the ways that are tried
  MaxCalls,    \* bound on the calls of Compute
  MaxFailures  \* bound on the errors of the runtime

ASSUME FusedConstantsAssumption ==
  /\ None \notin Thread \cup Stream
  /\ Kinds \subseteq {"upload", "event", "pack"}
  /\ MaxCalls \in Nat /\ MaxFailures \in Nat

VARIABLES
  kind,      \* the way of this compute object
  ready,     \* constants_ready, weights_ready, device_constants.ready, packed_w1_valid
  event,     \* the event: None, created, or recorded behind the first upTo works of a stream
  holder,    \* who holds constants_mutex
  pc,        \* where each thread is in its call
  stream,    \* the stream of its run
  ops,       \* the work each stream was given
  done,      \* how much of it is done
  written,   \* the constants are on the device
  calls,     \* calls begun
  failures   \* errors so far
vars == <<kind, ready, event, holder, pc, stream, ops, done, written, calls, failures>>

Created == [on |-> None, upTo |-> 0]
Work(do) == [do |-> do, on |-> None, upTo |-> 0]
WaitFor(e) == [do |-> "wait", on |-> e.on, upTo |-> e.upTo]
Completed(e) == e.on # None => done[e.on] >= e.upTo
Submit(s, work) == ops' = [ops EXCEPT ![s] = Append(@, work)]
Goto(t, place) == pc' = [pc EXCEPT ![t] = place]
\* The end of the scope of lock_guard.
Unlock(t) == holder' = IF holder = t THEN None ELSE holder

Init ==
  /\ kind \in Kinds /\ ready = FALSE /\ event = None /\ holder = None
  /\ pc = [t \in Thread |-> "idle"] /\ stream = [t \in Thread |-> None]
  /\ ops = [s \in Stream |-> <<>>] /\ done = [s \in Stream |-> 0]
  /\ written = FALSE /\ calls = 0 /\ failures = 0

\* A run has its stream to itself; what earlier runs left on it may not be done.
Compute(t, s) ==
  /\ pc[t] = "idle" /\ calls < MaxCalls
  /\ \A u \in Thread : stream[u] # s
  /\ stream' = [stream EXCEPT ![t] = s] /\ calls' = calls + 1
  /\ Goto(t, IF kind = "upload" THEN "test" ELSE "lock")
  /\ UNCHANGED <<kind, ready, event, holder, ops, done, written, failures>>

\* The test of the atomic before the lock is taken.
TestReady(t) ==
  /\ pc[t] = "test"
  /\ Goto(t, IF ready THEN "launch" ELSE "lock")
  /\ UNCHANGED <<kind, ready, event, holder, stream, ops, done, written, calls, failures>>
Lock(t) ==
  /\ pc[t] = "lock" /\ holder = None
  /\ holder' = t /\ Goto(t, "ensure")
  /\ UNCHANGED <<kind, ready, event, stream, ops, done, written, calls, failures>>

\* The constants are there; with an event the stream has to wait for it.
FindReady(t) ==
  /\ pc[t] = "ensure" /\ ready
  /\ Unlock(t) /\ Goto(t, "launch")
  /\ IF kind = "event" THEN Submit(stream[t], WaitFor(event)) ELSE UNCHANGED ops
  /\ UNCHANGED <<kind, ready, event, stream, done, written, calls, failures>>
(* Mutant: the scope of lock_guard ends with the test. *)
FindUnreadyUnlocks(t) ==
  /\ pc[t] = "ensure" /\ ~ready
  /\ Unlock(t) /\ Goto(t, "write")
  /\ UNCHANGED <<kind, ready, event, stream, ops, done, written, calls, failures>>
\* They are not; that they are missing is not looked at again.
FindUnready(t) ==
  /\ pc[t] = "ensure" /\ ~ready
  /\ Goto(t, "write")
  /\ UNCHANGED <<kind, ready, event, holder, stream, ops, done, written, calls, failures>>
\* The copy or the packing kernel is given to the stream.
Write(t) ==
  /\ pc[t] = "write"
  /\ Submit(stream[t], Work("write"))
  /\ Goto(t, CASE kind = "pack" -> "publish"
               [] kind = "event" /\ event # None -> "record"
               [] OTHER -> "create")
  /\ UNCHANGED <<kind, ready, event, holder, stream, done, written, calls, failures>>
CreateEvent(t) ==
  /\ pc[t] = "create"
  /\ event' = Created /\ Goto(t, "record")
  /\ UNCHANGED <<kind, ready, holder, stream, ops, done, written, calls, failures>>
RecordEvent(t) ==
  /\ pc[t] = "record"
  /\ event' = [on |-> stream[t], upTo |-> Len(ops[stream[t]])]
  /\ Goto(t, IF kind = "upload" THEN "wait" ELSE "publish")
  /\ UNCHANGED <<kind, ready, holder, stream, ops, done, written, calls, failures>>
(* Mutant: the host does not wait for the event. *)
SynchronizeAtOnce(t) ==
  /\ pc[t] = "wait"
  /\ Goto(t, "destroy")
  /\ UNCHANGED <<kind, ready, event, holder, stream, ops, done, written, calls, failures>>
SynchronizeEvent(t) ==
  /\ pc[t] = "wait" /\ Completed(event)
  /\ Goto(t, "destroy")
  /\ UNCHANGED <<kind, ready, event, holder, stream, ops, done, written, calls, failures>>
DestroyEvent(t) ==
  /\ pc[t] = "destroy"
  /\ event' = None /\ Goto(t, "publish")
  /\ UNCHANGED <<kind, ready, holder, stream, ops, done, written, calls, failures>>
\* The host copy is given up with it.
Publish(t) ==
  /\ pc[t] = "publish"
  /\ ready' = TRUE /\ Unlock(t) /\ Goto(t, "launch")
  /\ UNCHANGED <<kind, event, stream, ops, done, written, calls, failures>>
\* The products over the constants are given to the stream, and the call returns.
Launch(t) ==
  /\ pc[t] = "launch"
  /\ Submit(stream[t], Work("use"))
  /\ Goto(t, "idle") /\ stream' = [stream EXCEPT ![t] = None]
  /\ UNCHANGED <<kind, ready, event, holder, done, written, calls, failures>>
\* The calls that may fail; ParallelLinear and SwiGlu only read the flag under the mutex.
MayFail(t) ==
  \/ pc[t] \in {"write", "create", "record", "wait", "destroy", "launch"}
  \/ pc[t] = "ensure" /\ kind # "upload"
(* Mutant: the mutex stays taken on the failing paths. *)
FailLocked(t) ==
  /\ MayFail(t) /\ failures < MaxFailures
  /\ failures' = failures + 1
  /\ Goto(t, "idle") /\ stream' = [stream EXCEPT ![t] = None]
  /\ UNCHANGED <<kind, ready, event, holder, ops, done, written, calls>>
\* RETURN_IF_ERROR, at any call of the runtime.
Fail(t) ==
  /\ MayFail(t) /\ failures < MaxFailures
  /\ failures' = failures + 1 /\ Unlock(t)
  /\ Goto(t, "idle") /\ stream' = [stream EXCEPT ![t] = None]
  /\ UNCHANGED <<kind, ready, event, ops, done, written, calls>>

\* The device: a stream runs its work in order.
NextWork(s) == ops[s][done[s] + 1]
Execute(s) ==
  /\ done[s] < Len(ops[s]) /\ Completed(NextWork(s))
  /\ done' = [done EXCEPT ![s] = @ + 1]
  /\ written' = (written \/ NextWork(s).do = "write")
  /\ UNCHANGED <<kind, ready, event, holder, pc, stream, ops, calls, failures>>

Steps(t) ==
  \/ TestReady(t) \/ Lock(t) \/ FindReady(t) \/ FindUnready(t) \/ Write(t)
  \/ CreateEvent(t) \/ RecordEvent(t) \/ SynchronizeEvent(t) \/ DestroyEvent(t)
  \/ Publish(t) \/ Launch(t) \/ Fail(t)
Next ==
  \/ \E t \in Thread : Steps(t) \/ (\E s \in Stream : Compute(t, s))
  \/ \E s \in Stream : Execute(s)
Spec == Init /\ [][Next]_vars
\* Threads that are in a call are scheduled, and the device works.
Fairness ==
  /\ \A t \in Thread : WF_vars(Steps(t))
  /\ \A s \in Stream : WF_vars(Execute(s))
FairSpec == Spec /\ Fairness

-----------------------------------------------------------------------------
Locked == {"ensure", "write", "create", "record", "wait", "destroy", "publish"}
WorkType == [do : {"write", "use", "wait"}, on : Stream \cup {None}, upTo : Nat]
ConstantsTypeOK ==
  /\ kind \in Kinds /\ ready \in BOOLEAN /\ written \in BOOLEAN
  /\ event \in {None} \cup [on : Stream \cup {None}, upTo : Nat]
  /\ holder \in Thread \cup {None}
  /\ pc \in [Thread -> Locked \cup {"idle", "test", "lock", "launch"}]
  /\ stream \in [Thread -> Stream \cup {None}]
  /\ ops \in [Stream -> Seq(WorkType)] /\ done \in [Stream -> Nat]
  /\ calls \in Nat /\ failures \in Nat

\* Work that reads the constants runs only when they are on the device, on
\* whatever stream, and whatever other calls are between: the fusions' Compute
\* methods launch their products behind EnsureConstants.
UseFindsConstants ==
  \A s \in Stream : done[s] < Len(ops[s]) /\ NextWork(s).do = "use" => written

\* What is published stays: the flag is not taken back, the event that later calls
\* make their streams wait for is not created or recorded again, and nobody who found
\* the constants missing before gives them to a stream after it. The host copy they
\* would be written from is gone (host_constants is swapped with an empty vector).
PublishedIsFinal ==
  [][ready => /\ ready' /\ event' = event
              /\ \A s \in Stream :
                   Len(ops'[s]) > Len(ops[s]) => ops'[s][Len(ops'[s])].do # "write"]_vars

\* A call of Compute ends: neither the mutex nor the event is waited for for ever,
\* whatever fails.
EveryCallReturns == \A t \in Thread : pc[t] # "idle" ~> pc[t] = "idle"
=============================================================================
