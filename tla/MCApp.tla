------------------------------- MODULE MCApp -------------------------------
(***************************************************************************)
(* Small instance of App: one card of 5 sectors read 2 at a time, a 5-bit  *)
(* "u32" and a bar of 10, so that sector * PERCENT wraps as it does on     *)
(* cards above 20 GB; a one-test mode of each kind and a mode of both.     *)
(***************************************************************************)
EXTENDS App

MCCounts    == {5}
MCLatencies == {1}
MCModes     == {"SEQ_FAST", "BTF_FULL", "ALL_FULL"}
=============================================================================
