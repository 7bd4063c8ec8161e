---------------------------- MODULE ArenaStreams ----------------------------
(***************************************************************************)
(* The arena together with the streams that use its memory: the life of a  *)
(* MusaSyncStream (ep_stream.cc) and the device work queued on it.  Host   *)
(* threads allocate, launch and free without waiting for the device;       *)
(* ~MusaSyncStream synchronizes its own stream, clears its ownership in    *)
(* the arena and destroys the native stream, three steps that calls of     *)
(* other threads come between.                                             *)
(*                                                                         *)
(* Outside src/, and modelled as its callers there rely on it:             *)
(*  - musaFree returns after the work on the memory is over;               *)
(*  - ONNX Runtime frees a tensor when the work on it is over that other   *)
(*    streams than its owner were given; its owner's work may go on.       *)
(***************************************************************************)
EXTENDS MusaArena

CONSTANT
  SyncMayFail      (* musaStreamSynchronize may return early, in error.    *)

ASSUME SyncAssumption == SyncMayFail \in BOOLEAN

VARIABLES
  phase,           (* Where each stream is in its life.                    *)
  work             (* The blocks its unfinished device work accesses.      *)

streamVars == <<phase, work>>
allVars    == <<vars, streamVars>>

Phase == {"none", "live", "synced", "reset"}

(* The bytes of a chunk and of a direct allocation.                        *)
Bytes(p, n)     == p .. p + n - 1
ChunkBytes(p)   == Bytes(p, chunks[p].size)
ReserveBytes(p) == Bytes(p, reserved[p])

LiveBlocks ==
  {ChunkBytes(p) : p \in {q \in DOMAIN chunks : chunks[q].inUse}}
    \cup {ReserveBytes(p) : p \in DOMAIN reserved}

NoWork(C, S) == \A s \in S : \A B \in work[s] : B \cap C = {}

-----------------------------------------------------------------------------

NewStream(s, i) ==
  /\ phase[s] = "none"
  /\ CreateStream(s, i)
  /\ phase' = [phase EXCEPT ![s] = "live"]
  /\ UNCHANGED work

StreamAlloc(s, n) ==
  /\ phase[s] = "live"
  /\ AllocOnStream(s, n)
  /\ UNCHANGED streamVars

DirectAlloc(n) == Reserve(n) /\ UNCHANGED streamVars

(* A kernel or copy on stream s is queued with a tensor as an argument.    *)
Launch(s, B) ==
  /\ phase[s] = "live"
  /\ B \in LiveBlocks
  /\ work' = [work EXCEPT ![s] = @ \cup {B}]
  /\ UNCHANGED <<vars, phase>>

Complete(s, B) ==
  /\ B \in work[s]
  /\ work' = [work EXCEPT ![s] = @ \ {B}]
  /\ UNCHANGED <<vars, phase>>

FreeTensor(p) ==
  \/ /\ FreeChunkAt(p)
     /\ NoWork(ChunkBytes(p), Stream \ {chunks[p].stream})
     /\ UNCHANGED streamVars
  \/ /\ FreeReserved(p)
     /\ NoWork(ReserveBytes(p), Stream)
     /\ UNCHANGED streamVars

ShrinkArena ==
  /\ Shrink
  /\ \A r \in DOMAIN regions : Idle(r) => NoWork(Bytes(r, regions[r]), Stream)
  /\ UNCHANGED streamVars

(* Mutant: the destructor does not wait for the device.                    *)
SyncStreamNot(s) ==
  /\ phase[s] = "live"
  /\ phase' = [phase EXCEPT ![s] = "synced"]
  /\ UNCHANGED <<vars, work>>

(* ~MusaSyncStream                                                         *)
SyncStream(s) ==
  /\ phase[s] = "live"
  /\ work[s] = {} \/ SyncMayFail
  /\ phase' = [phase EXCEPT ![s] = "synced"]
  /\ UNCHANGED <<vars, work>>

ResetStream(s) ==
  /\ phase[s] = "synced"
  /\ \/ ResetChunksUsingStream(impl[s])
     \/ impl[s] \notin DOMAIN streamOf /\ UNCHANGED vars
  /\ phase' = [phase EXCEPT ![s] = "reset"]
  /\ UNCHANGED work

EndStream(s) ==
  /\ phase[s] = "reset"
  /\ impl' = [impl EXCEPT ![s] = None]
  /\ phase' = [phase EXCEPT ![s] = "none"]
  /\ UNCHANGED <<arenaVars, work>>

-----------------------------------------------------------------------------

StreamInit ==
  /\ Init
  /\ phase = [s \in Stream |-> "none"]
  /\ work = [s \in Stream |-> {}]

StreamNext ==
  \/ \E s \in Stream, i \in Impl : NewStream(s, i)
  \/ \E s \in Stream, n \in Request : StreamAlloc(s, n)
  \/ \E n \in Request : DirectAlloc(n)
  \/ \E s \in Stream : \E B \in LiveBlocks : Launch(s, B)
  \/ \E s \in Stream : \E B \in work[s] : Complete(s, B)
  \/ \E p \in DOMAIN reserved \cup DOMAIN chunks : FreeTensor(p)
  \/ ShrinkArena
  \/ \E s \in Stream : SyncStream(s) \/ ResetStream(s) \/ EndStream(s)

StreamSpec == StreamInit /\ [][StreamNext]_allVars

-----------------------------------------------------------------------------
(* The promise, in terms of this state: a byte is ordered by the stream of *)
(* the chunk that covers it.                                               *)

AllBytes == UNION {Bytes(r, MaxMem) : r \in Base}

OwnerOfByte ==
  [x \in AllBytes |->
     LET covering == {p \in DOMAIN chunks : x \in ChunkBytes(p)}
     IN  IF covering = {} THEN None ELSE chunks[CHOOSE p \in covering : TRUE].stream]

(* What can be allocated as one: bytes in a row.                           *)
Blocks == {B \in {a .. b : a, b \in AllBytes} : B # {} /\ B \subseteq AllBytes}

Mem == INSTANCE StreamOrderedMemory
         WITH Cell  <- AllBytes,
              Block <- Blocks,
              live  <- LiveBlocks,
              owner <- OwnerOfByte

-----------------------------------------------------------------------------
(* Properties                                                              *)

(* The arena with its splitting, merging, growing, shrinking and stream    *)
(* release implements the stream-ordered memory: each step maps to a step  *)
(* of it or leaves the mapped state unchanged.                             *)
ImplementsMemory == Mem!Spec

(* No stream gets memory on which another stream's work is unfinished.     *)
ReuseIsOrdered == Mem!ReuseIsOrdered

(* Releasing a stream exposes no unfinished work of it: a block that was   *)
(* handed out over the work of one stream is never another stream's.       *)
ReleaseNeverExposes ==
  \A s \in Stream : \A B \in work[s] : \A L \in LiveBlocks :
    \A x \in L \cap B : L = B \/ OwnerOfByte[x] \in {s, None}

(* What a released stream owned is nobody's before its implementation      *)
(* object, the key the arena knows it by, can be reused.                   *)
NothingLeftBehind ==
  \A s \in Stream : phase[s] \in {"none", "reset"} =>
    /\ s \notin DOMAIN owned
    /\ \A p \in DOMAIN chunks : chunks[p].stream # s
    /\ \A i \in DOMAIN streamOf : streamOf[i] # s

=============================================================================
