--------------------------- MODULE MCStagedCopies ---------------------------
(* A small instance of the staged copies for TLC.                          *)
EXTENDS StagedCopies, TLC

(* One size: every cached block fits.                                      *)
MCRequest == {1}

MCSymmetry ==
  Permutations(Thread) \cup Permutations(Stream) \cup Permutations(Block)
    \cup Permutations(Event) \cup Permutations(Value)

=============================================================================
