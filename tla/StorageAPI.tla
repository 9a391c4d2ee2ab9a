----------------------------- MODULE StorageAPI -----------------------------
(***************************************************************************)
(* What sdmmc_storage_read (bdk/storage/sdmmc.c) promises its callers.     *)
(* The storage handle sd_storage is seen through two of its fields:        *)
(*   up   sd_storage.initialized                                           *)
(*   cnt  sd_storage.sec_cnt                                               *)
(* A read is all or nothing: it succeeds only when the handle is           *)
(* initialized and the range is on the card.  A read that reaches the      *)
(* card may re-initialize it (other capacity after a swap), and a failed   *)
(* one may leave the handle torn down.  SdStorage shows that the retry and *)
(* re-initialization code implements this.                                 *)
(***************************************************************************)
EXTENDS Naturals

CONSTANT Counts    \* the sector counts a card in the slot may report

ASSUME CountsAssumption == Counts \subseteq Nat \ {0}

VARIABLES up, cnt

(* The guards of _sdmmc_storage_readwrite: not initialized, out of bounds. *)
Fits(sector, n) == up /\ sector + n <= cnt

(* The return value 1. *)
ReadOk(sector, n) ==
    /\ Fits(sector, n)
    /\ up' = TRUE
    /\ cnt' \in {cnt} \cup Counts

(* The return value 0.  Refused requests never touch the card.  A request  *)
(* that did reach it ends in a failed re-initialization, which leaves the  *)
(* memset handle (0), the capacity read before a later step failed, or,    *)
(* when the controller could not be shut down, the handle as it was.       *)
ReadFail(sector, n) ==
    \/ ~Fits(sector, n) /\ UNCHANGED <<up, cnt>>
    \/ /\ Fits(sector, n)
       /\ up' \in BOOLEAN
       /\ cnt' \in {cnt} \cup Counts \cup (IF up' THEN {} ELSE {0})

(* One call of sdmmc_storage_read with result ok. *)
Read(sector, n, ok) == IF ok THEN ReadOk(sector, n) ELSE ReadFail(sector, n)

(* Every state of the handle between two calls. *)
StorageTypeOK ==
    /\ up \in BOOLEAN
    /\ cnt \in Counts \cup {0}
=============================================================================
