----------------------------- MODULE MCSdTester -----------------------------
(***************************************************************************)
(* Small instance of SdTester: 2 sectors per read, 5-bit "u32".  The       *)
(* capacities cover: smaller than one butterfly pair, odd tails for the    *)
(* sequential clamp, multiples of 2 * BLOCKS_PER_READ and not.             *)
(***************************************************************************)
EXTENDS SdTester

MCCounts    == {1, 3, 4, 7, 8}
MCLatencies == {1, 6}
MCLimits    == {0, 1, 5}
=============================================================================
