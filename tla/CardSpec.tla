------------------------------ MODULE CardSpec ------------------------------
(***************************************************************************)
(* The abstract life of the handle of an SD card and of the card behind    *)
(* it: initialized in a few steps, each of which may fail, shut down, and  *)
(* pulled or swapped at any moment.  A handle becomes usable only with a   *)
(* card that sat in the slot from its identification on.  SdCard           *)
(* implements this specification.                                          *)
(***************************************************************************)
EXTENDS CardAPI

VARIABLE phase    \* what the initialization waits for, "idle" between two

cardVars == <<side, phase>>

CardInit ==
    /\ initialized = FALSE
    /\ clock_stopped = FALSE /\ card_clock_enabled = FALSE
    /\ inserted \in BOOLEAN /\ power = FALSE /\ card = "raw"
    /\ phase = "idle"

Begin ==
    /\ phase = "idle"
    /\ \/ HostAbsent /\ phase' = "idle"
       \/ HostStarts(FALSE) /\ phase' = "idle"
       \/ HostStarts(TRUE) /\ phase' = "ident"

Identify == phase = "ident" /\ CardIdentified /\ phase' = "bus"

Finish == phase = "bus" /\ CardReady /\ phase' = "idle"

GiveUp == phase # "idle" /\ InitGivenUp /\ phase' = "idle"

End == phase = "idle" /\ StorageEnd /\ phase' = "idle"

User == (CardRemoved \/ CardInserted) /\ phase' = phase

CardNext == Begin \/ Identify \/ Finish \/ GiveUp \/ End \/ User

AbstractCard == CardInit /\ [][CardNext]_cardVars
=============================================================================
