------------------------------ MODULE CardAPI -------------------------------
(***************************************************************************)
(* What sdmmc_storage_init_sd and sdmmc_storage_end (bdk/storage/sdmmc.c)  *)
(* do to the handle and to the card, as sd.c and the transfer code need to *)
(* know it.  SdStorage takes these steps; SdCard shows that the            *)
(* initialization, command by command, makes no others.                    *)
(*                                                                         *)
(* initialized          sd_storage.initialized                             *)
(* clock_stopped,       fields of sd_sdmmc                                 *)
(*   card_clock_enabled                                                    *)
(* inserted             a card is in the slot                              *)
(* power                the card's supply is on                            *)
(* card                 what the handle has of the card in the slot:       *)
(*                        "raw"    nothing, or no longer                   *)
(*                        "ident"  it answered this initialization         *)
(*                        "tran"   it is the one that was initialized, and *)
(*                                 takes transfers                         *)
(***************************************************************************)
VARIABLES initialized, clock_stopped, card_clock_enabled, inserted, power, card

host == <<clock_stopped, card_clock_enabled>>
side == <<initialized, host, inserted, power, card>>

(***************************************************************************)
(* The initialization.                                                     *)
(***************************************************************************)
(* The handle is cleared, then sdmmc_init: it gives up at once without a   *)
(* card; otherwise it powers the card and starts the controller clock, and *)
(* only when all went well (ok) the card clock.                            *)
HostAbsent ==
    /\ ~inserted
    /\ initialized' = FALSE
    /\ clock_stopped' = TRUE /\ card_clock_enabled' = FALSE
    /\ UNCHANGED <<inserted, power, card>>

HostStarts(ok) ==
    /\ inserted
    /\ initialized' = FALSE
    /\ clock_stopped' = FALSE /\ card_clock_enabled' = ok
    /\ power' = TRUE
    /\ card' = "raw"
    /\ UNCHANGED inserted

(* The card in the slot has an address. *)
CardIdentified ==
    /\ inserted
    /\ card' = "ident"
    /\ UNCHANGED <<initialized, host, inserted, power>>

(* It has answered every command since, the last one too. *)
CardReady ==
    /\ inserted /\ card = "ident"
    /\ card' = "tran"
    /\ initialized' = TRUE
    /\ UNCHANGED <<host, inserted, power>>

(* A command failed; what was agreed with the card is worth nothing.       *)
InitGivenUp ==
    /\ card' = "raw"
    /\ UNCHANGED <<initialized, host, inserted, power>>

(***************************************************************************)
(* sdmmc_storage_end.  CMD0 needs the card clock.  With it the card is     *)
(* reset, the host goes off (sdmmc_end) and the supply with it.  It may    *)
(* fail (data inhibit, transfer error), and reach the card all the same;   *)
(* then nothing is shut down.                                              *)
(***************************************************************************)
EndOk ==
    /\ card_clock_enabled
    /\ initialized' = FALSE
    /\ card' = "raw"
    /\ IF clock_stopped
       THEN UNCHANGED <<host, power>>
       ELSE clock_stopped' = TRUE /\ card_clock_enabled' = FALSE /\ power' = FALSE
    /\ UNCHANGED inserted

EndFails ==
    /\ card' = card \/ (card_clock_enabled /\ card' = "raw")
    /\ UNCHANGED <<initialized, host, inserted, power>>

StorageEnd == EndOk \/ EndFails

(***************************************************************************)
(* External: the user.  A card keeps its state only while it sits in a     *)
(* powered slot.                                                           *)
(***************************************************************************)
CardRemoved ==
    /\ inserted
    /\ inserted' = FALSE
    /\ card' = "raw"
    /\ UNCHANGED <<initialized, host, power>>

CardInserted ==
    /\ ~inserted
    /\ inserted' = TRUE
    /\ UNCHANGED <<initialized, host, power, card>>
=============================================================================
