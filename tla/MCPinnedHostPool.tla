-------------------------- MODULE MCPinnedHostPool --------------------------
(* Small instances of the pinned host pool for TLC.                        *)
EXTENDS PinnedHostPool, TLC

(* One size within a granule, one of two granules.                         *)
MCRequest == {1, 3}

MCSymmetry ==
  Permutations(Thread) \cup Permutations(Stream) \cup Permutations(Block)
    \cup Permutations(Event)

=============================================================================
