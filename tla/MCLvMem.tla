------------------------------- MODULE MCLvMem -------------------------------
(***************************************************************************)
(* Small instance of LvMem: a pool of 7 headers of 2 bytes, two blocks,    *)
(* sizes that are rounded and that are not, and nothing at all.            *)
(***************************************************************************)
EXTENDS LvMem, TLC

MCSizes == {0, 1, 3, 5}

BlocksAlike == Permutations(Blocks)
=============================================================================
