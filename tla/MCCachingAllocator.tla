------------------------- MODULE MCCachingAllocator -------------------------
(***************************************************************************)
(* The constants of CachingAllocator for model checking: addresses are     *)
(* bytes, blocks are multiples of 2, and the regions are 2 or 12 bytes.    *)
(***************************************************************************)
EXTENDS CachingAllocator, TLC

MCBinRanges == <<2, 12>>
Symmetry == Permutations(Threads) \cup Permutations(BlockIds)
=============================================================================
