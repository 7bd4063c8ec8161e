---------------------------- MODULE GuardedReuse ----------------------------
(***************************************************************************)
(* What a pool of memory blocks promises when its blocks are given back    *)
(* while the device may still be working on them (pinned_host_pool.h, and  *)
(* the deferred frees of kernel_memory.h): a block is handed out again, or *)
(* returned to the system, only when the device has finished with it.      *)
(*                                                                         *)
(* One step of the pool may return any number of idle blocks to the system *)
(* besides what it is called for: it sweeps what has been completed.       *)
(***************************************************************************)
CONSTANT
  Block            (* The addresses of blocks.                             *)

VARIABLES
  mapped,          (* The blocks that exist.                               *)
  held,            (* The blocks that callers have.                        *)
  busy             (* The blocks that unfinished device work accesses.     *)

vars == <<mapped, held, busy>>

Init == mapped = {} /\ held = {} /\ busy = {}

(* Idle blocks return to the system.                                       *)
Unmap(from) ==
  \E gone \in SUBSET (from \ (held' \cup busy')) : mapped' = from \ gone

(* A caller is given a block, which may be new.                            *)
Acquire(b) ==
  /\ b \notin held \cup busy
  /\ held' = held \cup {b}
  /\ busy' = busy
  /\ Unmap(mapped \cup {b})

(* The caller has the device access its block.                             *)
Launch(b) ==
  /\ b \in held
  /\ busy' = busy \cup {b}
  /\ UNCHANGED <<mapped, held>>

(* The device finishes work.                                               *)
Finish(S) ==
  /\ busy' = busy \ S
  /\ UNCHANGED <<mapped, held>>

(* The caller gives the block back, and has not waited for the device.     *)
Dispose(b) ==
  /\ b \in held
  /\ held' = held \ {b}
  /\ busy' = busy
  /\ Unmap(mapped)

Sweep == UNCHANGED <<held, busy>> /\ Unmap(mapped)

Next ==
  \/ \E b \in Block : Acquire(b) \/ Launch(b) \/ Dispose(b)
  \/ \E S \in SUBSET Block : Finish(S)
  \/ Sweep

Spec == Init /\ [][Next]_vars

-----------------------------------------------------------------------------

(* Memory that a caller has, or that the device is working on, exists.     *)
NoUseAfterFree == held \cup busy \subseteq mapped

=============================================================================
