------------------------------ MODULE SdmmcHost ------------------------------
(***************************************************************************)
(* What the functions of sdmmc_driver.c that run no command do to the      *)
(* controller, for SDMMC1, the one of the SD slot.  Three records carry    *)
(* the state; a module that runs the controller keeps them as variables    *)
(* and composes these operators into its actions.                          *)
(*                                                                         *)
(* Code                                     Model                          *)
(* sdmmc_t: clock_stopped, powersave_       host (same fields)             *)
(*   enabled, card_clock_enabled, error_sts                                *)
(* clkcon.CARD_EN; hostctl and hostctl2     regs.card_en; regs.width,      *)
(*   (bus width, timing, VDD_180,             .timing, .vdd180, .tuned;    *)
(*   TUNED_CLK); pwrcon                       regs.io                      *)
(* GPIO E4 (card supply), regulator LDO2,   board.supply, .ldo2, .det33    *)
(*   PMC PWR_DET                                                           *)
(*                                                                         *)
(* clock.c: gate and reset of the           clk.enabled                    *)
(*   controller's clock; its table entry,     clk.clock                    *)
(*   source and divisor; PLLC4                clk.pllc4                    *)
(*                                                                         *)
(* A timing stands for all setup_clock derives from it: the UHS field (the *)
(* same for SDR50, SDR82 and SDR104), HISPD, divisor and card_clock.       *)
(* Source and divisor are written with the table entry and follow from it. *)
(* PLLC4 has no other user while the eMMC controllers are off: its in-use  *)
(* bits and its enable bit are set and cleared together.                   *)
(*                                                                         *)
(* Left out: pad trimming, slew and schmitt settings and the calibration   *)
(* codes (analogue; calibration stops the clock and restores it, so it     *)
(* changes nothing below), the saved tap of HS400, which SDMMC1 never      *)
(* uses, and the eMMC controllers.                                         *)
(***************************************************************************)
EXTENDS Integers

Voltages == {"off", "3.3", "1.8"}

HighVoltageTimings == {"SD_ID", "DS12", "HS25"}
UhsTimings == {"SDR12", "SDR25", "SDR50", "SDR82", "SDR104"}
Timings == HighVoltageTimings \cup UhsTimings

Errors == {"none", "timeout", "other"}

HostRecords == [clock_stopped : BOOLEAN, powersave_enabled : BOOLEAN,
                card_clock_enabled : BOOLEAN, error_sts : Errors]
RegRecords == [card_en : BOOLEAN, width : {1, 4}, timing : Timings,
               vdd180 : BOOLEAN, tuned : BOOLEAN, io : Voltages]
BoardRecords == [supply : BOOLEAN, ldo2 : Voltages, det33 : BOOLEAN]

(* The memset of sdmmc_init and the one field it then sets. *)
ClearedHost == [clock_stopped |-> TRUE, powersave_enabled |-> FALSE,
                card_clock_enabled |-> FALSE, error_sts |-> "none"]

(* _sdmmc_reset_all *)
ResetRegs == [card_en |-> FALSE, width |-> 1, timing |-> "SD_ID",
              vdd180 |-> FALSE, tuned |-> FALSE, io |-> "off"]

UnpoweredBoard == [supply |-> FALSE, ldo2 |-> "off", det33 |-> TRUE]

(* sdmmc_set_bus_width, _sdmmc_set_io_power *)
SetBusWidth(r, w) == [r EXCEPT !.width = w]
SetIoPower(r, v)  == [r EXCEPT !.io = v]

(***************************************************************************)
(* The clock that the controller gets from the SoC.                        *)
(***************************************************************************)
Clocks == {25000, 50000, 100000, 164000, 200000}

ClkRecords == [enabled : BOOLEAN, clock : Clocks \cup {0}, pllc4 : BOOLEAN]
OffClk == [enabled |-> FALSE, clock |-> 0, pllc4 |-> FALSE]

(* clock_sdmmc_get_card_clock_div *)
CardClock(t) == CASE t \in {"SD_ID", "DS12", "SDR12"} -> 25000
                  [] t \in {"HS25", "SDR25"}          -> 50000
                  [] t = "SDR50"                      -> 100000
                  [] t = "SDR82"                      -> 164000
                  [] t = "SDR104"                     -> 200000

(* The clocks that come from PLLC4; the others come from PLLP, which never *)
(* stops.                                                                  *)
FromPllc4(clock) == clock \in {100000, 200000}

(* _clock_enable_pllc4, _clock_disable_pllc4 *)
EnablePllc4(c)  == [c EXCEPT !.pllc4 = TRUE]
DisablePllc4(c) == [c EXCEPT !.pllc4 = FALSE]

(* _clock_sdmmc_config_clock_host *)
ConfigClockHost(c, clock) ==
    [IF FromPllc4(clock) THEN EnablePllc4(c) ELSE c EXCEPT !.clock = clock]

(* clock_sdmmc_config_clock_source: a clock that the table already names   *)
(* is not configured again.                                                *)
ConfigClockSource(c, t) ==
    IF c.clock = CardClock(t) THEN c ELSE ConfigClockHost(c, CardClock(t))

(* clock_sdmmc_enable, clock_sdmmc_disable: the table entry outlives the   *)
(* clock.                                                                  *)
SdmmcClockEnable(c, t) == [ConfigClockHost(c, CardClock(t)) EXCEPT !.enabled = TRUE]
SdmmcClockDisable(c)   == [DisablePllc4(c) EXCEPT !.enabled = FALSE]

(***************************************************************************)
(* The controller.                                                         *)
(***************************************************************************)
(* sdmmc_setup_clock with _sdmmc_config_tap_val: the tap goes back to its  *)
(* default, which undoes a tuning.  The card clock is stopped meanwhile    *)
(* and restored.                                                           *)
SetupClock(r, t) == [r EXCEPT !.timing = t, !.tuned = FALSE,
                              !.vdd180 = t \in UhsTimings]

(* _sdmmc_card_clock_enable and _sdmmc_card_clock_disable *)
ClockEnable(h) == [h EXCEPT !.card_clock_enabled = TRUE]
ClockEnableRegs(h, r) == [r EXCEPT !.card_en = @ \/ ~h.powersave_enabled]

ClockDisable(h) == [h EXCEPT !.card_clock_enabled = FALSE]
ClockDisableRegs(r) == [r EXCEPT !.card_en = FALSE]

(* sdmmc_card_clock_powersave *)
Powersave(h, on) == [h EXCEPT !.powersave_enabled = on]
PowersaveRegs(h, r, on) ==
    [r EXCEPT !.card_en = ~on /\ (@ \/ h.card_clock_enabled)]

(* sdmmc_tuning_execute: refused while power saving is on; nothing to do   *)
(* for the two slowest UHS timings; otherwise the controller's verdict     *)
(* counts, and the card clock is left on.                                  *)
TuningOutcomes(h, r) ==
    IF h.powersave_enabled \/ r.timing \in HighVoltageTimings
    THEN {<<FALSE, r>>}
    ELSE IF r.timing \in {"SDR12", "SDR25"}
    THEN {<<TRUE, r>>}
    ELSE {<<tuned, [r EXCEPT !.tuned = tuned, !.card_en = TRUE]>> :
             tuned \in BOOLEAN}
=============================================================================
