----------------------------- MODULE MCSdmmcCmd -----------------------------
(***************************************************************************)
(* Small instance of SdmmcCmd: a transfer across a boundary, one on a      *)
(* boundary and beyond the block count register, one of no sector and an   *)
(* unaligned one; the timer wraps within a few waits.                      *)
(***************************************************************************)
EXTENDS SdmmcCmd

Data(b, n) == [kind |-> "data", buf |-> b, n |-> n, aligned |-> TRUE]
MCTransfers == {Data(1, 2), Data(2, 4), Data(2, 0),
                [Data(1, 1) EXCEPT !.aligned = FALSE]}
=============================================================================
