--------------------- MODULE StreamOrderedMemory_proofs ---------------------
(***************************************************************************)
(* The rule of the stream-ordered memory, that an owned cell is given to   *)
(* nobody but its owner until the owner is released, is enough: whatever   *)
(* the cells, blocks and streams are, a block handed out over unfinished   *)
(* work belongs to the stream that does the work.                          *)
(***************************************************************************)
EXTENDS StreamOrderedMemory, TLAPS

(* What every step preserves: the two properties need each other, because  *)
(* a block is handed out with one owner, and stays with it until release.  *)
MemInv == TypeOK /\ LiveDisjoint /\ WorkIsOwned

(* The initial state satisfies the invariant.                              *)
LEMMA MemInvInit == Init => MemInv
  BY DEF Init, MemInv, TypeOK, LiveDisjoint, WorkIsOwned

(* Each action preserves the invariant.                                    *)
LEMMA MemInvStep ==
  ASSUME MemoryConstants
  PROVE  MemInv /\ [Next]_memVars => MemInv'
<1> SUFFICES ASSUME MemInv, [Next]_memVars PROVE MemInv'
  OBVIOUS
<1> USE DEF MemoryConstants, MemInv, TypeOK, LiveDisjoint, WorkIsOwned
<1>1. ASSUME NEW B \in Block, NEW s \in Stream \cup {None}, Allocate(s, B)
      PROVE  MemInv'
  <2>1. TypeOK'
    BY <1>1 DEF Allocate
  <2>2. LiveDisjoint'
    BY <1>1 DEF Allocate
  <2>3. WorkIsOwned'
    <3> SUFFICES ASSUME NEW t \in Stream, NEW W \in work[t], W \notin live'
                 PROVE  \A c \in W : owner'[c] = t
      BY <1>1 DEF Allocate
    <3>1. \A c \in W : owner[c] = t
      BY <1>1 DEF Allocate
    <3>2. W \subseteq Cell
      OBVIOUS
    <3>3. \A c \in W : c \in B => s = t
      BY <3>1, <1>1 DEF Allocate
    <3> QED
      BY <3>1, <3>2, <3>3, <1>1 DEF Allocate
  <2> QED
    BY <2>1, <2>2, <2>3
<1>2. ASSUME NEW B \in Block, NEW s \in Stream, Launch(s, B)
      PROVE  MemInv'
  BY <1>2 DEF Launch
<1>3. ASSUME NEW B \in Block, NEW s \in Stream, Complete(s, B)
      PROVE  MemInv'
  BY <1>3 DEF Complete
<1>4. ASSUME NEW B \in Block, Free(B)
      PROVE  MemInv'
  BY <1>4 DEF Free
<1>5. ASSUME NEW s \in Stream, Release(s)
      PROVE  MemInv'
  <2>1. TypeOK' /\ LiveDisjoint'
    BY <1>5 DEF Release
  <2>2. WorkIsOwned'
    <3> SUFFICES ASSUME NEW t \in Stream, NEW W \in work[t], W \notin live
                 PROVE  \A c \in W : owner'[c] = t
      BY <1>5 DEF Release
    <3>1. t # s /\ W \subseteq Cell
      BY <1>5 DEF Release
    <3> QED
      BY <3>1, <1>5 DEF Release
  <2> QED
    BY <2>1, <2>2
<1>6. ASSUME NEW T \in SUBSET (Cell \ UNION live), Trim(T)
      PROVE  MemInv'
  <2>1. TypeOK' /\ LiveDisjoint'
    BY <1>6 DEF Trim
  <2>2. WorkIsOwned'
    <3> SUFFICES ASSUME NEW t \in Stream, NEW W \in work[t], W \notin live
                 PROVE  \A c \in W : owner'[c] = t
      BY <1>6 DEF Trim
    <3>1. W \cap T = {} /\ W \subseteq Cell
      BY <1>6 DEF Trim
    <3> QED
      BY <3>1, <1>6 DEF Trim
  <2> QED
    BY <2>1, <2>2
<1>7. CASE UNCHANGED memVars
  BY <1>7 DEF memVars
<1> QED
  BY <1>1, <1>2, <1>3, <1>4, <1>5, <1>6, <1>7 DEF Next

(* The invariant holds in every state.                                     *)
THEOREM MemInvAlways ==
  ASSUME MemoryConstants
  PROVE  Spec => []MemInv
  BY MemInvInit, MemInvStep, PTL DEF Spec

(* Unfinished work is on an allocated block, or on freed cells that only   *)
(* the working stream can be given.                                        *)
THEOREM WorkStaysOwned ==
  ASSUME MemoryConstants
  PROVE  Spec => []WorkIsOwned
<1>1. MemInv => WorkIsOwned
  BY DEF MemInv
<1> QED
  BY <1>1, MemInvAlways, PTL

(* No two allocated blocks share memory.                                   *)
THEOREM BlocksNeverOverlap ==
  ASSUME MemoryConstants
  PROVE  Spec => []LiveDisjoint
<1>1. MemInv => LiveDisjoint
  BY DEF MemInv
<1> QED
  BY <1>1, MemInvAlways, PTL

(* Memory handed out over unfinished work is ordered by the stream of that *)
(* work.                                                                   *)
THEOREM ReuseAlwaysOrdered ==
  ASSUME MemoryConstants
  PROVE  Spec => []ReuseIsOrdered
<1>1. MemInv => ReuseIsOrdered
  <2> SUFFICES ASSUME MemInv, NEW s \in Stream, NEW B \in work[s], NEW L \in live,
                      NEW b \in L \cap B, L # B
               PROVE  owner[b] = s
    BY DEF ReuseIsOrdered
  <2>1. B \notin live
    BY DEF MemInv, LiveDisjoint
  <2> QED
    BY <2>1 DEF MemInv, WorkIsOwned
<1> QED
  BY <1>1, MemInvAlways, PTL

=============================================================================
