---------------------------- MODULE MCMusaArena ----------------------------
(* Small instances of the arena, and of its coalescing walk, for TLC.      *)
EXTENDS ResetWalk, TLC

(* Addresses of the device allocator; the regions between them fit.        *)
MCBase == {0, 8}

(* One size below the granule, one of two granules.                        *)
MCRequest == {1, 4}

(* Streams and implementations are interchangeable.                        *)
MCSymmetry == Permutations(Stream) \cup Permutations(Impl)

=============================================================================
