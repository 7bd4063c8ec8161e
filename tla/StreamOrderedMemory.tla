------------------------ MODULE StreamOrderedMemory ------------------------
(***************************************************************************)
(* What the device allocator promises to the streams that use its memory,  *)
(* without chunks, bins or regions.  Memory is a set of cells.  Every cell *)
(* remembers the stream that last allocated it (owner), also after the     *)
(* block was logically freed, until that stream is released or the memory  *)
(* goes back to the device.  A stream's device work is asynchronous: a     *)
(* block may be freed and handed out again while work on it is unfinished, *)
(* so what keeps a kernel from seeing another stream's data is only the    *)
(* rule that owned cells are handed to nobody but their owner.             *)
(*                                                                         *)
(* ArenaStreams shows that the arena of musa_arena.cc together with the    *)
(* stream release of ep_stream.cc implements this specification.           *)
(***************************************************************************)
EXTENDS Naturals

CONSTANTS
  Cell,      (* The units of the device memory that are owned: its bytes.  *)
  Block,     (* The sets of cells that can be allocated as one.            *)
  Stream,    (* The streams.                                               *)
  None       (* Nobody.                                                    *)

(* What the proofs take for granted of these values.                       *)
MemoryConstants ==
  /\ None \notin Stream
  /\ Block \subseteq SUBSET Cell
  /\ {} \notin Block

VARIABLES
  live,      (* The allocated blocks: disjoint non-empty sets of cells.    *)
  owner,     (* The stream that every cell is ordered by, or None.         *)
  work       (* The blocks that the queued work of each stream accesses.   *)

memVars == <<live, owner, work>>

TypeOK ==
  /\ live \subseteq Block
  /\ owner \in [Cell -> Stream \cup {None}]
  /\ work \in [Stream -> SUBSET Block]

Init ==
  /\ live = {}
  /\ owner = [b \in Cell |-> None]
  /\ work = [s \in Stream |-> {}]

-----------------------------------------------------------------------------

(* A block goes to stream s, or to a caller without a stream (s = None).   *)
(* None of its cells is in use, or ordered by another stream.              *)
Allocate(s, B) ==
  /\ \A L \in live : L \cap B = {}
  /\ \A b \in B : owner[b] \in {None, s}
  /\ live' = live \cup {B}
  /\ owner' = [b \in Cell |-> IF b \in B THEN s ELSE owner[b]]
  /\ UNCHANGED work

(* Stream s is given work on a block, its own or another stream's.         *)
Launch(s, B) ==
  /\ B \in live
  /\ work' = [work EXCEPT ![s] = @ \cup {B}]
  /\ UNCHANGED <<live, owner>>

Complete(s, B) ==
  /\ B \in work[s]
  /\ work' = [work EXCEPT ![s] = @ \ {B}]
  /\ UNCHANGED <<live, owner>>

(* A block is freed while its owner's work on it may be unfinished.  Work  *)
(* of any other stream is over: the host has waited for it, or, for memory *)
(* that no stream owns, the device free does.                              *)
Free(B) ==
  /\ B \in live
  /\ \A s \in Stream : B \in work[s] => \A b \in B : owner[b] = s
  /\ live' = live \ {B}
  /\ UNCHANGED <<owner, work>>

(* Stream s is released: its work is over and its cells become nobody's.   *)
Release(s) ==
  /\ work[s] = {}
  /\ owner' = [b \in Cell |-> IF owner[b] = s THEN None ELSE owner[b]]
  /\ UNCHANGED <<live, work>>

(* Free cells go back to the device, which waits for the work on them.     *)
Trim(T) ==
  /\ T \subseteq Cell \ UNION live
  /\ \A s \in Stream : \A B \in work[s] : B \cap T = {}
  /\ owner' = [b \in Cell |-> IF b \in T THEN None ELSE owner[b]]
  /\ UNCHANGED <<live, work>>

Next ==
  \/ \E B \in Block :
       \/ \E s \in Stream \cup {None} : Allocate(s, B)
       \/ \E s \in Stream : Launch(s, B) \/ Complete(s, B)
       \/ Free(B)
  \/ \E s \in Stream : Release(s)
  \/ \E T \in SUBSET (Cell \ UNION live) : Trim(T)

Spec == Init /\ [][Next]_memVars

-----------------------------------------------------------------------------

(* No two allocated blocks share a cell.                                   *)
LiveDisjoint == \A A, B \in live : A = B \/ A \cap B = {}

(* Unfinished work is on a block that is still allocated, or on freed      *)
(* bytes that only the working stream can be given.                        *)
WorkIsOwned ==
  \A s \in Stream : \A B \in work[s] :
    B \in live \/ \A b \in B : owner[b] = s

(* A block handed out over unfinished work on an earlier block belongs to  *)
(* the stream that does the work, so stream order puts its use after it.   *)
ReuseIsOrdered ==
  \A s \in Stream : \A B \in work[s] : \A L \in live :
    \A b \in L \cap B : L = B \/ owner[b] = s

=============================================================================
