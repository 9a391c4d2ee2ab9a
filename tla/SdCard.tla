------------------------------- MODULE SdCard -------------------------------
(***************************************************************************)
(* sdmmc_storage_init_sd, command by command, and sdmmc_storage_end, next  *)
(* to the card in the slot: what the host, the board and the card each     *)
(* believe of supply, signalling voltage, bus width, speed and addressing. *)
(* SdStorage takes the same code in four steps and looks at what its       *)
(* callers do with the result; here the caller may initialize in any mode  *)
(* of the ladder and shut down at any time.                                *)
(*                                                                         *)
(* Code                                     Model                          *)
(* sdmmc_storage_t (the fields used here)   storage                        *)
(* bus_width, type, is_sdsc                 bus_width, type, is_sdsc       *)
(* the timing chosen for the card; the      hs_type; polls                 *)
(*   loops of op_cond and rca                                              *)
(* the step of the initialization; its      pc; done                       *)
(*   result                                                                *)
(* sdmmc_t, controller, board, clock        host, regs, board, clk         *)
(*                                            (SdmmcHost)                  *)
(* external: the card in the slot, what it  inserted, kind, card           *)
(*   supports, its state                                                   *)
(*                                                                         *)
(* History: warm (the card was at 1.8 V when sdmmc_init put the rails back *)
(* to 3.3 V without cutting its supply), ended (the last call was a        *)
(* shutdown that returned 1).                                              *)
(*                                                                         *)
(* A command is answered by a card in a state that takes it, or fails; one *)
(* that fails may have reached the card.  Whether two sides that disagree  *)
(* on the voltage can talk is left open.  The controller is as before      *)
(* after every command (SdmmcCmd, QuietBetween).  Left out: CID, CSD, SSR  *)
(* parsing, the power limit (its result is ignored), eMMC.                 *)
(***************************************************************************)
EXTENDS SdmmcHost, FiniteSets

CONSTANTS
    Kinds,       \* what the cards the user may insert support
    Modes,       \* <<bus_width, type>> pairs sd.c initializes with
    Polls        \* looks at a busy card within 1500 ms

(* v2: knows CMD8; ccs: high capacity; s18: 1.8 V signalling; sda_vsn: SD  *)
(* version, 0 for 1.0; wide: 4-bit bus; modes: functions of access mode.   *)
CardKinds == [v2 : BOOLEAN, ccs : BOOLEAN, s18 : BOOLEAN, wide : BOOLEAN,
              sda_vsn : {0, 2}, modes : SUBSET (1 .. 3)]

ASSUME CardAssumption ==
    /\ Kinds \subseteq CardKinds
    /\ \A k \in Kinds : (k.ccs => k.v2) /\ (k.s18 => k.ccs /\ k.wide)
    /\ Modes \subseteq {1, 4} \X Timings
    /\ Polls \in Nat

VARIABLES host, regs, board, clk, storage, bus_width, type, is_sdsc, hs_type,
          polls, pc, done, inserted, kind, card, warm, ended

locals == <<bus_width, type, is_sdsc, hs_type, polls>>
slot   == <<inserted, kind>>
vars == <<host, regs, board, clk, storage, locals, pc, done, slot, card, warm, ended>>

CardRecords == [state : {"off", "idle", "ready", "switching", "ident", "stby",
                         "tran"},
                volt : {"3.3", "1.8"}, width : {1, 4}, fn : 0 .. 3]
OffCard   == [state |-> "off", volt |-> "3.3", width |-> 1, fn |-> 0]
PoweredUp == [OffCard EXCEPT !.state = "idle"]

ClearedStorage == [initialized |-> FALSE, is_low_voltage |-> FALSE,
                   has_sector_access |-> FALSE]

(* _sdmmc_storage_get_bus_uhs_support *)
BusUhsSupport == bus_width = 4 /\ type \in UhsTimings

(* The access function of a card that a timing of the host goes with.      *)
Function(t) == CASE t \in {"SD_ID", "DS12", "SDR12"} -> 0
                 [] t \in {"HS25", "SDR25"}          -> 1
                 [] t = "SDR50"                      -> 2
                 [] t \in {"SDR82", "SDR104"}        -> 3

(* sdmmc_setup_clock *)
HostClock(t) == regs' = SetupClock(regs, t) /\ clk' = ConfigClockSource(clk, t)

(***************************************************************************)
(* Commands.                                                               *)
(***************************************************************************)
Reached(states) ==
    /\ inserted /\ board.supply /\ host.card_clock_enabled
    /\ card.state \in states

Returns0 == pc' = "idle" /\ done' = FALSE
InitFails == Returns0 /\ UNCHANGED storage

(* One command: answered, with its effect on the card, or failed, with or  *)
(* without.                                                                *)
Answered(states, effect, next) ==
    /\ Reached(states)
    /\ card' = effect
    /\ pc' = next /\ UNCHANGED done

Lost(states, effect) ==
    /\ card' \in {card} \cup (IF Reached(states) THEN {effect} ELSE {})
    /\ InitFails

(* A command that changes nothing here: its card states, the next step.    *)
Queries == {"csd", "blocklen", "card_detect", "uhs_status", "hs_status"}
NextOf(q) == CASE q = "csd"         -> "default_clock"
               [] q = "blocklen"    -> "card_detect"
               [] q = "card_detect" -> "scr"
               [] q = "uhs_status"  -> "ssr"
               [] q = "hs_status"   -> "hs_clock"
StatesOf(q) == IF q = "csd" THEN {"stby"} ELSE {"tran"}

Query ==
    /\ pc \in Queries
    /\ \/ Answered(StatesOf(pc), card, NextOf(pc)) /\ UNCHANGED storage
       \/ Lost(StatesOf(pc), card)
    /\ UNCHANGED <<host, regs, board, clk, locals, slot, warm, ended>>

(***************************************************************************)
(* The host: sdmmc_init.                                                   *)
(***************************************************************************)
(* The records are cleared first.  Without a card nothing else happens;    *)
(* with one the supply and 3.3 V come on and the controller's clock runs.  *)
(* Its internal clock may not get stable.                                  *)
HostOn == [ClearedHost EXCEPT !.clock_stopped = FALSE]
Rails33 == [supply |-> TRUE, ldo2 |-> "3.3", det33 |-> TRUE]
FirstRegs == [ResetRegs EXCEPT !.io = "3.3"]

PowerUp ==
    /\ board' = Rails33
    /\ card' = IF card.state = "off" THEN PoweredUp ELSE card
    /\ warm' = (card.state # "off" /\ card.volt = "1.8")

sdmmc_init_NoClear ==     \* seeded: the host record survives
    /\ pc = "host"
    /\ storage' = ClearedStorage
    /\ \/ /\ ~inserted
          /\ host' = [host EXCEPT !.clock_stopped = TRUE]
          /\ Returns0
          /\ UNCHANGED <<regs, board, clk, card, warm>>
       \/ /\ inserted
          /\ PowerUp
          /\ clk' = SdmmcClockEnable(clk, "SD_ID")
          /\ host' = ClockEnable(HostOn)
          /\ regs' = ClockEnableRegs(HostOn, FirstRegs)
          /\ pc' = "go_idle"
          /\ UNCHANGED done
    /\ UNCHANGED <<locals, slot, ended>>

sdmmc_init ==
    /\ pc = "host"
    /\ storage' = ClearedStorage
    /\ \/ /\ ~inserted
          /\ host' = ClearedHost
          /\ Returns0
          /\ UNCHANGED <<regs, board, clk, card, warm>>
       \/ /\ inserted
          /\ PowerUp
          /\ clk' = SdmmcClockEnable(clk, "SD_ID")
          /\ \/ /\ host' = HostOn /\ regs' = ResetRegs
                /\ Returns0
             \/ /\ host' = ClockEnable(HostOn)
                /\ regs' = ClockEnableRegs(HostOn, FirstRegs)
                /\ pc' = "go_idle"
                /\ UNCHANGED done
    /\ UNCHANGED <<locals, slot, ended>>

(***************************************************************************)
(* Identification.                                                         *)
(***************************************************************************)
(* CMD0 has no response: it succeeds without a card.  It resets a card's   *)
(* bus but not its signalling voltage, and a card that waits for the end   *)
(* of its voltage switch does not take it.                                 *)
Awake == {"idle", "ready", "ident", "stby", "tran"}
AfterReset(c) ==
    [state |-> "idle", volt |-> c.volt, width |-> 1, fn |-> 0]
TakesReset == card' = IF Reached(Awake) THEN AfterReset(card) ELSE card

GoIdle ==
    /\ pc = "go_idle"
    /\ \/ TakesReset /\ pc' = "if_cond" /\ UNCHANGED <<storage, done>>
       \/ (TakesReset \/ UNCHANGED card) /\ InitFails
    /\ UNCHANGED <<host, regs, board, clk, locals, slot, warm, ended>>

(* _sd_storage_send_if_cond: no response makes it an SDSC card.  Noise may *)
(* make a new card look like one.                                          *)
SendIfCond ==
    /\ pc = "if_cond"
    /\ \/ /\ Reached({"idle"}) /\ kind.v2
          /\ host' = [host EXCEPT !.error_sts = "none"]
          /\ pc' = "op_cond" /\ UNCHANGED <<is_sdsc, storage, done>>
       \/ \E e \in Errors \ {"none"} :
             /\ host' = [host EXCEPT !.error_sts = e]
             /\ IF e = "timeout"
                THEN /\ is_sdsc' = TRUE
                     /\ pc' = "op_cond" /\ UNCHANGED <<storage, done>>
                ELSE InitFails /\ UNCHANGED is_sdsc
    /\ UNCHANGED <<regs, board, clk, bus_width, type, hs_type, polls, slot, card,
                   warm, ended>>

(* A high-capacity card gets ready only for a host that says it can        *)
(* address it.                                                             *)
S18A == kind.s18 /\ BusUhsSupport /\ ~is_sdsc /\ card.volt = "3.3"

OpCondReady ==
    /\ pc = "op_cond"
    /\ Reached({"idle"}) /\ (kind.ccs => ~is_sdsc)
    /\ card' = [card EXCEPT !.state = "ready"]
    /\ storage' = [storage EXCEPT !.has_sector_access = kind.ccs]
    /\ pc' = IF S18A /\ ~storage.is_low_voltage THEN "switch_voltage" ELSE "cid"
    /\ polls' = 0
    /\ UNCHANGED <<host, regs, board, clk, bus_width, type, is_sdsc, hs_type, done,
                   slot, warm, ended>>

(* Busy, and the deadline not past; the same loop waits for an address.    *)
StillBusy ==
    /\ pc \in {"op_cond", "rca"}
    /\ inserted
    /\ polls < Polls
    /\ polls' = polls + 1
    /\ UNCHANGED <<host, regs, board, clk, storage, bus_width, type, is_sdsc, hs_type,
                   pc, done, slot, card, warm, ended>>

OpCondFails_Ignored ==     \* seeded: only the deadline ends the loop
    /\ pc = "op_cond" /\ polls = Polls
    /\ Lost({"idle"}, [card EXCEPT !.state = "ready"])
    /\ UNCHANGED <<host, regs, board, clk, locals, slot, warm, ended>>

OpCondFails ==
    /\ pc = "op_cond"
    /\ Lost({"idle"}, [card EXCEPT !.state = "ready"])
    /\ UNCHANGED <<host, regs, board, clk, locals, slot, warm, ended>>

(* CMD11.  When it fails the initialization goes on at 3.3 V, although the *)
(* card may have begun to switch.                                          *)
SwitchVoltage ==
    /\ pc = "switch_voltage"
    /\ \/ /\ Answered({"ready"}, [card EXCEPT !.state = "switching"],
                      "low_clock")
       \/ /\ card' \in {card} \cup (IF Reached({"ready"})
                            THEN {[card EXCEPT !.state = "switching"]} ELSE {})
          /\ pc' = "cid" /\ UNCHANGED done
    /\ UNCHANGED <<host, regs, board, clk, storage, locals, slot, warm, ended>>

LowVoltageClock ==
    /\ pc = "low_clock"
    /\ HostClock("SDR12")
    /\ pc' = "rails"
    /\ UNCHANGED <<host, board, storage, locals, done, slot, card, warm, ended>>

(* sdmmc_enable_low_voltage, up to its 5 ms of sleep and from there on:    *)
(* the card releases the data lines when it has switched.                  *)
SwitchRails ==
    /\ pc = "rails"
    /\ board' = [board EXCEPT !.ldo2 = "1.8", !.det33 = FALSE]
    /\ regs' = SetIoPower(regs, "1.8")
    /\ pc' = "sdclk"
    /\ UNCHANGED <<host, clk, storage, locals, done, slot, card, warm, ended>>

LowVoltageClockOn ==
    /\ pc = "sdclk"
    /\ IF regs.vdd180
       THEN /\ regs' = [regs EXCEPT !.card_en = TRUE]
            /\ \/ /\ Reached({"switching"})
                  /\ card' = [card EXCEPT !.state = "ready", !.volt = "1.8"]
                  /\ storage' = [storage EXCEPT !.is_low_voltage = TRUE]
                  /\ pc' = "cid" /\ UNCHANGED done
               \/ InitFails /\ UNCHANGED card
       ELSE InitFails /\ UNCHANGED <<regs, card>>
    /\ UNCHANGED <<host, board, clk, locals, slot, warm, ended>>

GetCid ==
    /\ pc = "cid"
    /\ LET effect == [card EXCEPT !.state = "ident"]
       IN  \/ Answered({"ready"}, effect, "rca") /\ UNCHANGED storage
           \/ Lost({"ready"}, effect)
    /\ UNCHANGED <<host, regs, board, clk, locals, slot, warm, ended>>

(* CMD3: an answer without an address is StillBusy.  A card may be asked   *)
(* for another address.                                                    *)
GetRca ==
    /\ pc = "rca"
    /\ LET effect == [card EXCEPT !.state = "stby"]
       IN  \/ Answered({"ident", "stby"}, effect, "csd") /\ UNCHANGED storage
           \/ Lost({"ident", "stby"}, effect)
    /\ UNCHANGED <<host, regs, board, clk, locals, slot, warm, ended>>

DefaultClock ==
    /\ pc = "default_clock"
    /\ IF storage.is_low_voltage THEN UNCHANGED <<regs, clk>> ELSE HostClock("DS12")
    /\ pc' = "select"
    /\ UNCHANGED <<host, board, storage, locals, done, slot, card, warm, ended>>

SelectCard ==
    /\ pc = "select"
    /\ LET effect == [card EXCEPT !.state = "tran"]
       IN  \/ Answered({"stby"}, effect, "blocklen") /\ UNCHANGED storage
           \/ Lost({"stby"}, effect)
    /\ UNCHANGED <<host, regs, board, clk, locals, slot, warm, ended>>

(***************************************************************************)
(* The bus.                                                                *)
(***************************************************************************)
SpeedStep == IF storage.is_low_voltage THEN "uhs_fmodes"
             ELSE IF type # "DS12" /\ kind.sda_vsn # 0 THEN "hs_fmodes"
             ELSE "ssr"

WideBus == bus_width = 4 /\ kind.wide /\ kind.sda_vsn # 0

(* What the SCR says of the bus is kept: a card put in meanwhile is not    *)
(* asked again.                                                            *)
GetScr ==
    /\ pc = "scr"
    /\ \/ /\ Answered({"tran"}, card, IF WideBus THEN "bus_width" ELSE SpeedStep)
          /\ bus_width' = IF WideBus THEN bus_width ELSE 1
          /\ UNCHANGED storage
       \/ Lost({"tran"}, card) /\ UNCHANGED bus_width
    /\ UNCHANGED <<host, regs, board, clk, type, is_sdsc, hs_type, polls, slot,
                   warm, ended>>

(* Seeded: the host widens its bus before the card agrees. *)
SetBusWidth4_HostFirst ==
    /\ pc = "bus_width"
    /\ regs' = SetBusWidth(regs, 4)
    /\ pc' = SpeedStep
    /\ UNCHANGED <<host, board, clk, storage, locals, done, slot, card, warm, ended>>

SetBusWidth4_Unchecked ==     \* seeded: the result of ACMD6 is ignored
    /\ pc = "bus_width"
    /\ card' = IF Reached({"tran"}) THEN [card EXCEPT !.width = 4] ELSE card
    /\ regs' = SetBusWidth(regs, 4)
    /\ pc' = SpeedStep
    /\ UNCHANGED <<host, board, clk, storage, locals, done, slot, warm, ended>>

SetBusWidth4 ==
    /\ pc = "bus_width"
    /\ LET effect == [card EXCEPT !.width = 4]
       IN  \/ /\ Answered({"tran"}, effect, SpeedStep)
              /\ regs' = SetBusWidth(regs, 4)
              /\ UNCHANGED storage
           \/ Lost({"tran"}, effect) /\ UNCHANGED regs
    /\ UNCHANGED <<host, board, clk, locals, slot, warm, ended>>

(* _sd_storage_enable_uhs_low_volt: the ladder falls through to the next   *)
(* slower mode the card has.  SDR82 takes the rung of SDR104 and becomes   *)
(* it.                                                                     *)
UhsRung ==
    IF type \in {"SDR82", "SDR104"} /\ 3 \in kind.modes THEN "SDR104"
    ELSE IF type \in {"SDR82", "SDR104", "SDR50"} /\ 2 \in kind.modes THEN "SDR50"
    ELSE IF type # "SDR12" /\ 1 \in kind.modes THEN "SDR25"
    ELSE "SDR12"

UhsModes ==
    /\ pc = "uhs_fmodes"
    /\ \/ /\ regs.width = 4
          /\ Answered({"tran"}, card,
                      IF UhsRung = "SDR12" THEN "ssr" ELSE "set_speed")
          /\ hs_type' = UhsRung
          /\ UNCHANGED storage
       \/ Lost({"tran"}, card) /\ UNCHANGED hs_type
    /\ UNCHANGED <<host, regs, board, clk, bus_width, type, is_sdsc, polls, slot,
                   warm, ended>>

(* _sd_storage_enable_hs_high_volt *)
HsModes ==
    /\ pc = "hs_fmodes"
    /\ \/ /\ Answered({"tran"}, card,
                      IF 1 \in kind.modes THEN "set_speed" ELSE "ssr")
          /\ hs_type' = IF 1 \in kind.modes THEN "HS25" ELSE hs_type
          /\ UNCHANGED storage
       \/ Lost({"tran"}, card) /\ UNCHANGED hs_type
    /\ UNCHANGED <<host, regs, board, clk, bus_width, type, is_sdsc, polls, slot,
                   warm, ended>>

(* _sd_storage_set_card_bus_speed: asks first, gives up above 800 mA, then *)
(* sets.                                                                   *)
SetCardBusSpeed ==
    /\ pc = "set_speed"
    /\ LET effect == [card EXCEPT !.fn = Function(hs_type)]
       IN  \/ /\ Answered({"tran"}, effect,
                          IF hs_type = "HS25" THEN "hs_status" ELSE "uhs_clock")
              /\ UNCHANGED storage
           \/ Lost({"tran"}, effect)
    /\ UNCHANGED <<host, regs, board, clk, locals, slot, warm, ended>>

UhsClock ==
    /\ pc = "uhs_clock"
    /\ HostClock(hs_type)
    /\ pc' = "tune"
    /\ UNCHANGED <<host, board, storage, locals, done, slot, card, warm, ended>>

Tune ==
    /\ pc = "tune"
    /\ \E t \in TuningOutcomes(host, regs) :
           /\ regs' = t[2]
           /\ IF t[1] THEN pc' = "uhs_status" /\ UNCHANGED <<storage, done>>
                      ELSE InitFails
    /\ UNCHANGED <<host, board, clk, locals, slot, card, warm, ended>>

HsClock ==
    /\ pc = "hs_clock"
    /\ HostClock(hs_type)
    /\ pc' = "ssr"
    /\ UNCHANGED <<host, board, storage, locals, done, slot, card, warm, ended>>

(* The SD status is read for information only. *)
Ready ==
    /\ pc = "ssr"
    /\ host' = Powersave(host, TRUE)
    /\ regs' = PowersaveRegs(host, regs, TRUE)
    /\ storage' = [storage EXCEPT !.initialized = TRUE]
    /\ pc' = "idle" /\ done' = TRUE
    /\ UNCHANGED <<board, clk, locals, slot, card, warm, ended>>

(***************************************************************************)
(* The callers and the user.                                               *)
(***************************************************************************)
StorageInit(m) ==
    /\ pc = "idle"
    /\ bus_width' = m[1] /\ type' = m[2]
    /\ is_sdsc' = FALSE /\ hs_type' = "DS12" /\ polls' = 0
    /\ pc' = "host" /\ done' = FALSE /\ ended' = FALSE
    /\ UNCHANGED <<host, regs, board, clk, storage, slot, card, warm>>

(* sdmmc_storage_end; sdmmc_end cuts the supply of a host whose clock      *)
(* runs.                                                                   *)
StorageEnd ==
    /\ pc = "idle" /\ host.card_clock_enabled
    /\ IF host.clock_stopped
       THEN TakesReset /\ UNCHANGED <<host, regs, board, clk>>
       ELSE /\ host' = [ClockDisable(host) EXCEPT !.clock_stopped = TRUE]
            /\ regs' = SetIoPower(ClockDisableRegs(regs), "off")
            /\ board' = UnpoweredBoard
            /\ clk' = SdmmcClockDisable(clk)
            /\ card' = OffCard
    /\ storage' = [storage EXCEPT !.initialized = FALSE]
    /\ ended' = TRUE /\ done' = FALSE
    /\ UNCHANGED <<locals, pc, slot, warm>>

StorageEndFails ==
    /\ pc = "idle"
    /\ TakesReset \/ UNCHANGED card
    /\ ended' = FALSE /\ done' = FALSE
    /\ UNCHANGED <<host, regs, board, clk, storage, locals, pc, slot, warm>>

Remove ==
    /\ inserted
    /\ inserted' = FALSE
    /\ card' = OffCard
    /\ UNCHANGED <<host, regs, board, clk, storage, locals, pc, done, kind, warm, ended>>

Insert ==
    /\ ~inserted
    /\ inserted' = TRUE
    /\ kind' \in Kinds
    /\ card' = IF board.supply THEN PoweredUp ELSE OffCard
    /\ UNCHANGED <<host, regs, board, clk, storage, locals, pc, done, warm, ended>>

Init ==
    /\ host = HostOn    \* memory of zeros
    /\ regs = ResetRegs /\ board = UnpoweredBoard
    /\ clk = OffClk
    /\ storage = ClearedStorage
    /\ bus_width = 4 /\ type = "SDR104" /\ is_sdsc = FALSE /\ hs_type = "DS12"
    /\ polls = 0
    /\ pc = "idle" /\ done = FALSE
    /\ inserted \in BOOLEAN /\ kind \in Kinds /\ card = OffCard
    /\ warm = FALSE /\ ended = FALSE

Identification ==
    \/ GoIdle \/ SendIfCond \/ OpCondReady \/ StillBusy \/ OpCondFails
    \/ SwitchVoltage \/ LowVoltageClock \/ SwitchRails \/ LowVoltageClockOn
    \/ GetCid \/ GetRca \/ DefaultClock \/ SelectCard

Bus ==
    \/ GetScr \/ SetBusWidth4 \/ UhsModes \/ HsModes \/ SetCardBusSpeed
    \/ UhsClock \/ Tune \/ HsClock \/ Ready

Running == sdmmc_init \/ Query \/ Identification \/ Bus

Caller == (\E m \in Modes : StorageInit(m)) \/ StorageEnd \/ StorageEndFails

Next == Running \/ Caller \/ Remove \/ Insert

Spec == Init /\ [][Next]_vars /\ WF_vars(Running)

(***************************************************************************)
(* Properties.                                                             *)
(***************************************************************************)
Steps == Queries \cup
    {"idle", "host", "scr", "go_idle", "if_cond", "op_cond", "switch_voltage",
     "low_clock", "rails", "sdclk", "cid", "rca", "default_clock", "select",
     "bus_width", "uhs_fmodes", "hs_fmodes", "set_speed", "uhs_clock", "tune",
     "hs_clock", "ssr"}

TypeOK ==
    /\ host \in HostRecords /\ regs \in RegRecords /\ board \in BoardRecords
    /\ clk \in ClkRecords
    /\ storage \in [initialized : BOOLEAN, is_low_voltage : BOOLEAN,
                    has_sector_access : BOOLEAN]
    /\ bus_width \in {1, 4} /\ type \in Timings /\ is_sdsc \in BOOLEAN
    /\ hs_type \in Timings /\ polls \in 0 .. Polls
    /\ pc \in Steps /\ done \in BOOLEAN
    /\ inserted \in BOOLEAN /\ kind \in Kinds /\ card \in CardRecords
    /\ warm \in BOOLEAN /\ ended \in BOOLEAN

Serving == storage.initialized /\ card.state = "tran"

(* A handle that is live and the card behind it agree on the width of the  *)
(* bus, the speed (at the host's fastest timings after a tuning of this    *)
(* very clock) and the unit of addresses, whatever was tried, lost or      *)
(* swapped on the way.                                                     *)
BusAgrees ==
    Serving =>
      /\ card.width = regs.width
      /\ card.fn = Function(regs.timing)
      /\ regs.timing \in {"SDR50", "SDR104"} => regs.tuned
      /\ storage.has_sector_access = kind.ccs

(* They agree on the signalling voltage, and so do regulator, pads and     *)
(* controller, unless the card was already switched when the host started  *)
(* over without a power cycle.                                             *)
VoltageAgrees ==
    Serving =>
      /\ board.ldo2 = regs.io /\ board.det33 = (regs.io = "3.3")
      /\ storage.is_low_voltage = (regs.io = "1.8")
      /\ card.volt = regs.io \/ warm

(* The controller's clock is the one its timing asks for, although a table *)
(* that outlives shutdowns decides whether it is configured, and its       *)
(* source runs.                                                            *)
ClockAgrees ==
    Serving =>
      /\ clk.enabled /\ clk.clock = CardClock(regs.timing)
      /\ FromPllc4(clk.clock) => clk.pllc4

(* The host and the card behind a live handle agree. *)
BoardAgrees == BusAgrees /\ VoltageAgrees /\ ClockAgrees

(* The card clock is enabled only in a record that also knows the supply   *)
(* it has to cut, of a controller that has its clock, and a live handle    *)
(* has such a record: a shutdown that returns 1 leaves the card without    *)
(* supply.                                                                 *)
RecordBacked ==
    /\ host.card_clock_enabled =>
          ~host.clock_stopped /\ board.supply /\ clk.enabled
    /\ storage.initialized => host.card_clock_enabled
    /\ ended => ~board.supply /\ ~storage.initialized

(* Every initialization returns, however long the card stays busy.         *)
InitReturns == pc # "idle" ~> pc = "idle"

(* sdmmc_driver.h:265 on SDR82: "SDR104 with a 163.2MHz -> 81.6MHz clock.": *)
(* a card initialized in this mode does not run at the clock of SDR104.    *)
SlowerClock == storage.initialized /\ type = "SDR82" => regs.timing # "SDR104"

(***************************************************************************)
(* What SdStorage knows of all this.  The commands up to the address are   *)
(* its identification, those behind it the setting of the bus.  An         *)
(* initialization has succeeded with the last command that it needs an     *)
(* answer to.                                                              *)
(***************************************************************************)
Identifying == {"go_idle", "if_cond", "op_cond", "switch_voltage", "low_clock",
                "rails", "sdclk", "cid", "rca"}
Decided == pc \in {"hs_clock", "ssr"}

Phase == IF pc \in {"idle", "host"} \/ Decided THEN "idle"
         ELSE IF pc \in Identifying THEN "ident"
         ELSE "bus"

Usable == storage.initialized \/ Decided

Agreed == IF Usable /\ card.state = "tran" THEN "tran"
          ELSE IF Phase = "bus" /\ card.state \in {"stby", "tran"} THEN "ident"
          ELSE "raw"

C == INSTANCE CardSpec WITH
        initialized <- Usable, clock_stopped <- host.clock_stopped,
        card_clock_enabled <- host.card_clock_enabled,
        power <- board.supply, card <- Agreed, phase <- Phase

(* The initialization and the shutdown, command by command, are to the     *)
(* handle and the card what SdStorage takes them for: a handle is usable   *)
(* only with a card that answered from its address to the last command     *)
(* without having been pulled.                                             *)
ImplementsCardSpec == C!AbstractCard
=============================================================================
