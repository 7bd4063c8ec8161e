--------------------------- MODULE MCArenaStreams ---------------------------
(* Small instances of the arena with its streams for TLC.                  *)
EXTENDS ArenaStreams, TLC

MCBase == {0, 6}

MCRequest == {1, 4}

MCSymmetry == Permutations(Stream) \cup Permutations(Impl)

=============================================================================
