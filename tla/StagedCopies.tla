---------------------------- MODULE StagedCopies ----------------------------
(***************************************************************************)
(* The copies between pageable host memory and the device that are staged  *)
(* in the pinned pool: CopyStagedPageableHostToDevice and                  *)
(* CopyDeviceToHostBatch of ep_data_transfer.cc, whose twins in            *)
(* kernel_memory.h (CopyTemporaryHostToDevice, CopyDeviceToHostBatch) take *)
(* the same steps.  A copy to the device returns before the device has     *)
(* read the staging block; a batch of copies to the host waits for its     *)
(* stream and then takes the bytes out of it.                              *)
(*                                                                         *)
(* A value stands for the bytes of one copy.  The device may pause between *)
(* any two of its operations.                                              *)
(***************************************************************************)
EXTENDS PinnedHostPool

CONSTANT
  Value            (* What is copied.                                      *)

ASSUME ValueAssumption == None \notin Value

VARIABLES
  content,         (* The bytes in each pinned block.                      *)
  job,             (* The copy each thread is executing.                   *)
  transfer         (* Direction and bytes of each unfinished device copy.  *)

copyVars == <<content, job, transfer>>
allVars  == <<vars, copyVars>>

Kind == {"toDevice", "toHost"}

JobStep == {"none", "staging", "filled", "enqueued", "failing", "arrived", "async", "done"}

NoJob == [at |-> "none", kind |-> "toHost", stream |-> None, value |-> None]

Held(t) == call[t].ptr

(* A thread is at step a of its copy, and has its staging block.           *)
At(t, a) == job[t].at = a /\ call[t].at = "holds"

Goto(t, a) == job' = [job EXCEPT ![t].at = a]

-----------------------------------------------------------------------------

(* Both copies begin with Allocate; for one to the host, v is what the     *)
(* device memory holds.                                                    *)
Begin(t, k, s, n, v) ==
  /\ job[t] = NoJob
  /\ AllocateCached(t, n) \/ AllocateMissed(t, n)
  /\ job' = [job EXCEPT ![t] = [at |-> "staging", kind |-> k, stream |-> s, value |-> v]]
  /\ UNCHANGED <<content, transfer>>

NewBlock(t) == HostAlloc(t) /\ UNCHANGED copyVars

(* Without a staging block the copy is done without the pool.              *)
Unstaged(t) ==
  /\ HostAllocFails(t)
  /\ job' = [job EXCEPT ![t] = NoJob]
  /\ UNCHANGED <<content, transfer>>

(* The copy of thread t is queued on its stream.                           *)
Queue(t) ==
  /\ Launch(t, job[t].stream)
  /\ transfer' = [w \in DOMAIN transfer \cup {<<job[t].stream, Held(t)>>} |->
                    IF w = <<job[t].stream, Held(t)>>
                    THEN [kind |-> job[t].kind, value |-> job[t].value]
                    ELSE transfer[w]]
  /\ UNCHANGED content

(* To the device: memcpy into the staging block ...                        *)
Fill(t) ==
  /\ At(t, "staging") /\ job[t].kind = "toDevice"
  /\ content' = [content EXCEPT ![Held(t)] = job[t].value]
  /\ Goto(t, "filled")
  /\ UNCHANGED <<vars, transfer>>

(* ... and musaMemcpyAsync.                                                *)
CopyToDevice(t) == At(t, "filled") /\ Queue(t) /\ Goto(t, "async")

CopyToDeviceFails(t) == At(t, "filled") /\ Goto(t, "done") /\ UNCHANGED <<vars, content, transfer>>

(* To the host: the copies of the batch, into one staging block.           *)
CopyToHost(t) ==
  /\ At(t, "staging") \/ At(t, "enqueued")
  /\ job[t].kind = "toHost"
  /\ Queue(t)
  /\ Goto(t, "enqueued")

(* Mutant: a batch that fails does not wait for what it has queued.        *)
CopyToHostFailsAtOnce(t) ==
  /\ At(t, "staging") \/ At(t, "enqueued")
  /\ job[t].kind = "toHost"
  /\ Goto(t, "done")
  /\ UNCHANGED <<vars, content, transfer>>

(* Mutant: ... and forgets its staging block.                              *)
CopyToHostFailsLeaks(t) ==
  /\ At(t, "staging") \/ At(t, "enqueued")
  /\ job[t].kind = "toHost"
  /\ job' = [job EXCEPT ![t] = IF @.at = "enqueued" THEN [@ EXCEPT !.at = "failing"] ELSE NoJob]
  /\ UNCHANGED <<vars, content, transfer>>

(* A copy of the batch cannot be queued.                                   *)
CopyToHostFails(t) ==
  /\ At(t, "staging") \/ At(t, "enqueued")
  /\ job[t].kind = "toHost"
  /\ Goto(t, IF job[t].at = "enqueued" THEN "failing" ELSE "done")
  /\ UNCHANGED <<vars, content, transfer>>

StreamIdle(s) == \A w \in work : w[1] # s

(* musaStreamSynchronize, its result ignored, before the block goes back.  *)
SynchronizeFailing(t) ==
  /\ At(t, "failing") /\ (failed \/ StreamIdle(job[t].stream))
  /\ Goto(t, "done")
  /\ UNCHANGED <<vars, content, transfer>>

(* Mutant: the bytes are taken out without waiting for them.               *)
SynchronizeBatchNot(t) ==
  /\ At(t, "enqueued")
  /\ Goto(t, IF failed THEN "async" ELSE "arrived")
  /\ UNCHANGED <<vars, content, transfer>>

SynchronizeBatch(t) ==
  /\ At(t, "enqueued")
  /\ failed \/ StreamIdle(job[t].stream)
  /\ Goto(t, IF failed THEN "async" ELSE "arrived")
  /\ UNCHANGED <<vars, content, transfer>>

TakeOut(t) == At(t, "arrived") /\ Goto(t, "done") /\ UNCHANGED <<vars, content, transfer>>

(* The staging block goes back to the pool, at once or behind an event.    *)
Return(t) ==
  /\ \/ At(t, "done") /\ FreeCompleted(t)
     \/ At(t, "async") /\ FreeAsync(t, job[t].stream)
  /\ job' = [job EXCEPT ![t] = NoJob]
  /\ UNCHANGED <<content, transfer>>

-----------------------------------------------------------------------------

(* The device executes a copy.                                             *)
Execute(w) ==
  /\ Finish(w)
  /\ content' = IF transfer[w].kind = "toHost"
                THEN [content EXCEPT ![w[2]] = transfer[w].value] ELSE content
  /\ transfer' = Without(transfer, {w})
  /\ UNCHANGED job

FailDevice == Fail /\ transfer' = [w \in {} |-> NoJob] /\ UNCHANGED <<content, job>>

PoolStep ==
  /\ \/ Poll
     \/ \E t \in Thread :
          \/ CreateEvent(t) \/ CreateEventFails(t)
          \/ RecordEvent(t) \/ RecordEventFails(t)
          \/ Synchronize(t) \/ PushPending(t)
  /\ UNCHANGED copyVars

CopyInit ==
  /\ Init
  /\ content = [b \in Block |-> None]
  /\ job = [t \in Thread |-> NoJob]
  /\ transfer = [w \in {} |-> NoJob]

CopyNext ==
  \/ \E t \in Thread, k \in Kind, s \in Stream, n \in Request, v \in Value :
       Begin(t, k, s, n, v)
  \/ \E t \in Thread :
       \/ NewBlock(t) \/ Unstaged(t)
       \/ Fill(t) \/ CopyToDevice(t) \/ CopyToDeviceFails(t)
       \/ CopyToHost(t) \/ CopyToHostFails(t) \/ SynchronizeFailing(t)
       \/ SynchronizeBatch(t) \/ TakeOut(t)
       \/ Return(t)
  \/ PoolStep
  \/ \E w \in work : Execute(w)
  \/ FailDevice

CopySpec == CopyInit /\ [][CopyNext]_allVars

-----------------------------------------------------------------------------
(* Properties                                                              *)

(* Besides the types: a copy that is over has given its block back, and    *)
(* every unfinished device copy is one of these.                           *)
CopyTypeOK ==
  /\ content \in [Block -> Value \cup {None}]
  /\ job \in [Thread -> [at : JobStep, kind : Kind, stream : Stream \cup {None},
                         value : Value \cup {None}]]
  /\ PartialFunction(transfer, Stream \X Block, [kind : Kind, value : Value])
  /\ DOMAIN transfer = work
  /\ \A t \in Thread : call[t].at \in {"hostAlloc", "holds"} <=> job[t] # NoJob

(* The device reads from a staging block what was put there for that copy, *)
(* however long the copy waits on its stream after the call has returned.  *)
ToDeviceFaithful ==
  \A w \in DOMAIN transfer :
    transfer[w].kind = "toDevice" => content[w[2]] = transfer[w].value

(* What a batch takes out of its staging block is what the device copied   *)
(* there for it, and no other thread's bytes.                              *)
ToHostFaithful ==
  \A t \in Thread : At(t, "arrived") => content[Held(t)] = job[t].value

(* The pool may be told that a block is completed, or that the work on it  *)
(* is on one stream, because it is so on every path, the failing ones too. *)
CallersKeepTheContract ==
  \A t \in Thread :
    /\ At(t, "done") => \A w \in work : w[2] # Held(t)
    /\ At(t, "async") => \A w \in work : w[2] = Held(t) => w[1] = job[t].stream

=============================================================================
