------------------------------ MODULE SdmmcCmd ------------------------------
(***************************************************************************)
(* The command engine of sdmmc_driver.c: sdmmc_execute_cmd and             *)
(* sdmmc_stop_transmission, from the inhibit bits over the response and    *)
(* the SDMA transfer to the busy line, with every timeout, next to a       *)
(* controller that answers when it likes, with what it likes, or never.    *)
(*                                                                         *)
(* Code                                     Model                          *)
(* the loop the driver polls in             pc                             *)
(* cmd, req; should_disable_sd_clock;       cmd, req; restore; result      *)
(*   result                                                                *)
(* dma_addr_next; blkcnt of update_sdma     dma_addr_next; seen_blkcnt     *)
(* get_tmr_ms(), timeout                    now, deadline (mod TmrMod)     *)
(* external: prnsts; norintsts, enabled or  cmdline, datline, busy;        *)
(*   masked; error kind; SDMA registers       norintsts, enabled, errsts;  *)
(*                                            admaaddr, blkcnt, dma        *)
(*                                                                         *)
(* History: waited (ticks spent in the current loop), wrapped (its         *)
(* deadline passed the end of the timer), owner (whether the RESPONSE bit  *)
(* was raised by the command in progress), moved (addresses the engine     *)
(* touched for it), verdict (how the last call ended).                     *)
(*                                                                         *)
(* Memory is counted in blocks, the boundary the controller stops at is    *)
(* Boundary blocks (512 KB in the code).  Left out: the 8-cycle sleeps and *)
(* the cache maintenance.                                                  *)
(***************************************************************************)
EXTENDS SdmmcHost, FiniteSets

CONSTANTS
    Transfers,   \* the data requests: start, sectors, aligned to 8 or not
    MaxBlocks,   \* 0xFFFF: the block count register's limit
    Boundary,    \* blocks up to an SDMA boundary
    TmrMod,      \* 2^32: the timer's modulus
    WaitBound,   \* 2000: milliseconds of a wait for a bit
    DmaBound     \* 1500: milliseconds without a block

ASSUME CmdAssumption ==
    /\ Transfers \subseteq [kind : {"data"}, buf : Nat, n : Nat, aligned : BOOLEAN]
    /\ MaxBlocks \in Nat \ {0} /\ Boundary \in Nat \ {0}
    /\ WaitBound \in Nat \ {0} /\ DmaBound \in Nat \ {0}
    /\ TmrMod \in Nat /\ TmrMod > WaitBound /\ TmrMod > DmaBound

VARIABLES host, regs,
          pc, cmd, restore, result, dma_addr_next, seen_blkcnt,
          now, deadline,
          cmdline, datline, busy, norintsts, enabled, errsts,
          admaaddr, blkcnt, dma,
          waited, wrapped, owner, moved

call    == <<cmd, restore, result, dma_addr_next, seen_blkcnt>>
timer   == <<deadline, waited, wrapped>>
lines   == <<cmdline, datline, busy>>
intr    == <<norintsts, enabled, errsts>>
engine  == <<admaaddr, blkcnt, dma, moved>>
vars == <<host, regs, pc, call, now, timer, lines, intr, engine, owner>>

NoData == [kind |-> "plain", buf |-> 0, n |-> 0, aligned |-> TRUE]
Requests == {NoData, [NoData EXCEPT !.kind = "busy"]} \cup Transfers
StopTransmission == [NoData EXCEPT !.kind = "stop"]

IsData == cmd.kind = "data"
IsBusy == cmd.kind \in {"data", "busy", "stop"}

(* The clock stands outside a call exactly as the power saving says. *)
ClockWanted == host.card_clock_enabled /\ ~host.powersave_enabled

Wait_Micro(bound) ==     \* seeded: the bound counted in a finer unit
    /\ deadline' = (now + 2 * bound) % TmrMod
    /\ wrapped' = (now + 2 * bound >= TmrMod)
    /\ waited' = 0

(* Seeded: the wait for the data line runs on the deadline of the first. *)
Wait_Shared(bound) ==
    /\ deadline' = IF pc = "cmd_inhibit" THEN deadline
                   ELSE (now + bound) % TmrMod
    /\ wrapped' = (IF pc = "cmd_inhibit" THEN wrapped
                   ELSE now + bound >= TmrMod)
    /\ waited' = 0

Wait(bound) ==
    /\ deadline' = (now + bound) % TmrMod
    /\ wrapped' = (now + bound >= TmrMod)
    /\ waited' = 0

(* _sdmmc_reset_cmd_data.  The lines are the controller's; the busy line   *)
(* is the card's.                                                          *)
ResetCmdData ==
    /\ cmdline' = "free" /\ datline' = FALSE
    /\ dma' = "off"
    /\ UNCHANGED <<busy, admaaddr, blkcnt, moved>>

(* The locals of a call end with it. *)
Drop ==
    /\ cmd' = NoData /\ restore' = FALSE /\ seen_blkcnt' = 0
    /\ deadline' = 0 /\ waited' = 0 /\ wrapped' = FALSE

Finish(r) ==
    /\ pc' = "idle"
    /\ result' = r
    /\ regs' = [regs EXCEPT !.card_en = @ /\ ~restore]
    /\ Drop
    /\ UNCHANGED dma_addr_next

(***************************************************************************)
(* The driver.                                                             *)
(***************************************************************************)
(* sdmmc_execute_cmd, sdmmc_stop_transmission: without a card clock the    *)
(* call returns 0 at once (a stutter); a clock that power saving stopped   *)
(* is started for the command.                                             *)
Begin(c) ==
    /\ pc = "idle"
    /\ host.card_clock_enabled
    /\ cmd' = c
    /\ restore' = ~regs.card_en
    /\ regs' = [regs EXCEPT !.card_en = TRUE]
    /\ pc' = "cmd_inhibit"
    /\ Wait(WaitBound)
    /\ UNCHANGED <<host, now, result, dma_addr_next, seen_blkcnt, lines, intr,
                   engine, owner>>

(* _sdmmc_wait_cmd_data_inhibit; a stop command does not wait for data. *)
CmdLineFree ==
    /\ pc = "cmd_inhibit" /\ cmdline = "free"
    /\ IF cmd.kind \in {"data", "busy"}
       THEN pc' = "dat_inhibit" /\ Wait(WaitBound)
       ELSE pc' = "send" /\ UNCHANGED timer
    /\ UNCHANGED <<host, regs, call, now, lines, intr, engine, owner>>

DatLineFree ==
    /\ pc = "dat_inhibit" /\ ~datline
    /\ pc' = "send"
    /\ UNCHANGED <<host, regs, call, now, timer, lines, intr, engine, owner>>

InhibitTimeout ==
    /\ \/ pc = "cmd_inhibit" /\ cmdline # "free"
       \/ pc = "dat_inhibit" /\ datline
    /\ now > deadline
    /\ ResetCmdData
    /\ Finish(FALSE)
    /\ UNCHANGED <<host, now, intr, owner>>

(* _sdmmc_config_sdma *)
BadRequest == IsData /\ (cmd.n = 0 \/ ~cmd.aligned)

RefuseRequest ==
    /\ pc = "send" /\ BadRequest
    /\ Finish(FALSE)
    /\ UNCHANGED <<host, now, lines, intr, engine, owner>>

BlockCount == IF cmd.n >= MaxBlocks THEN MaxBlocks ELSE cmd.n

NextBoundary_Always(a) == a + Boundary     \* seeded: not aligned down
NextBoundary(a) == a + Boundary - (a % Boundary)

ConfigSdma ==
    IF IsData
    THEN /\ admaaddr' = cmd.buf
         /\ blkcnt' = BlockCount
         /\ dma_addr_next' = NextBoundary(cmd.buf)
    ELSE UNCHANGED <<admaaddr, blkcnt, dma_addr_next>>

(* Seeded: bits of the command before stay set. *)
EnableInterrupts_Stale ==
    /\ enabled' = TRUE
    /\ UNCHANGED <<norintsts, errsts>>
    /\ host' = [host EXCEPT !.error_sts = "none"]

EnableInterrupts ==
    /\ enabled' = TRUE
    /\ norintsts' = {} /\ errsts' = "none"
    /\ host' = [host EXCEPT !.error_sts = "none"]

(* _sdmmc_config_sdma, _sdmmc_enable_interrupts, _sdmmc_send_cmd *)
SendCmd ==
    /\ pc = "send" /\ ~BadRequest
    /\ ConfigSdma
    /\ EnableInterrupts
    /\ cmdline' = "command"
    /\ datline' = (datline \/ IsBusy)
    /\ owner' = FALSE /\ moved' = {}
    /\ pc' = "response"
    /\ Wait(WaitBound)
    /\ UNCHANGED <<regs, cmd, restore, result, seen_blkcnt, now, busy, dma>>

(* _sdmmc_check_mask_interrupt of an error, then the reset and the mask.   *)
(* The bits that came with the error stay set.                             *)
ErrorSeen ==
    /\ pc \in {"response", "dma"}
    /\ "ERROR" \in norintsts
    /\ host' = [host EXCEPT !.error_sts = errsts]
    /\ norintsts' = norintsts \ {"ERROR"} /\ errsts' = "none"
    /\ enabled' = FALSE
    /\ ResetCmdData
    /\ Finish(FALSE)
    /\ UNCHANGED <<now, owner>>

(* _sdmmc_wait_response *)
ResponseSeen ==
    /\ pc = "response"
    /\ "ERROR" \notin norintsts /\ "RESPONSE" \in norintsts
    /\ norintsts' = norintsts \ {"RESPONSE"}
    /\ IF IsData
       THEN /\ pc' = "dma"
            /\ seen_blkcnt' = blkcnt
            /\ Wait(DmaBound)
            /\ UNCHANGED <<regs, cmd, restore, result, dma_addr_next, enabled>>
       ELSE /\ enabled' = FALSE
            /\ IF IsBusy
               THEN /\ pc' = "busy" /\ Wait(WaitBound)
                    /\ UNCHANGED <<regs, call>>
               ELSE Finish(TRUE)
    /\ UNCHANGED <<host, now, lines, errsts, engine, owner>>

ResponseTimeout ==
    /\ pc = "response" /\ norintsts \cap {"ERROR", "RESPONSE"} = {}
    /\ now > deadline
    /\ ResetCmdData
    /\ enabled' = FALSE
    /\ Finish(FALSE)
    /\ UNCHANGED <<host, now, norintsts, errsts, owner>>

(* _sdmmc_update_sdma.  Both data bits are cleared at once; the end of the *)
(* data wins over a boundary.                                              *)
DataEnd ==
    /\ pc = "dma"
    /\ "ERROR" \notin norintsts /\ "DATA_END" \in norintsts
    /\ norintsts' = norintsts \ {"DATA_END", "DMA_END"}
    /\ enabled' = FALSE
    /\ pc' = "busy" /\ Wait(WaitBound)
    /\ UNCHANGED <<host, regs, call, now, lines, errsts, engine, owner>>

(* Writing the address makes the controller go on. *)
DmaEnd ==
    /\ pc = "dma"
    /\ norintsts \cap {"ERROR", "DATA_END", "DMA_END"} = {"DMA_END"}
    /\ norintsts' = norintsts \ {"DMA_END"}
    /\ admaaddr' = dma_addr_next
    /\ dma_addr_next' = dma_addr_next + Boundary
    /\ dma' = "run"
    /\ UNCHANGED <<host, regs, pc, cmd, restore, result, seen_blkcnt, now,
                   timer, lines, enabled, errsts, blkcnt, moved, owner>>

DmaQuiet ==
    /\ pc = "dma"
    /\ norintsts \cap {"ERROR", "DATA_END", "DMA_END"} = {}

(* Seeded: blocks to come count as blocks that came. *)
Progressing_Left == blkcnt # 0
Progressing == blkcnt # seen_blkcnt

(* The deadline is renewed as long as blocks arrive. *)
DmaProgress ==
    /\ DmaQuiet /\ now >= deadline
    /\ Progressing
    /\ seen_blkcnt' = blkcnt
    /\ Wait(DmaBound)
    /\ UNCHANGED <<host, regs, pc, cmd, restore, result, dma_addr_next, now,
                   lines, intr, engine, owner>>

DmaTimeout ==
    /\ DmaQuiet /\ now >= deadline
    /\ ~Progressing
    /\ ResetCmdData
    /\ enabled' = FALSE
    /\ Finish(FALSE)
    /\ UNCHANGED <<host, now, norintsts, errsts, owner>>

(* _sdmmc_wait_card_busy *)
CardFree ==
    /\ pc = "busy" /\ ~busy
    /\ Finish(TRUE)
    /\ UNCHANGED <<host, now, lines, intr, engine, owner>>

BusyTimeout ==
    /\ pc = "busy" /\ busy
    /\ now > deadline
    /\ ResetCmdData
    /\ Finish(FALSE)
    /\ UNCHANGED <<host, now, intr, owner>>

(* Every loop polls more often than the timer ticks, so a tick happens     *)
(* only when the last look found neither what the loop waits for nor the   *)
(* deadline past.                                                          *)
Looping ==
    \/ pc = "cmd_inhibit" /\ cmdline # "free" /\ now <= deadline
    \/ pc = "dat_inhibit" /\ datline /\ now <= deadline
    \/ pc = "response" /\ norintsts \cap {"ERROR", "RESPONSE"} = {}
                       /\ now <= deadline
    \/ DmaQuiet /\ now < deadline
    \/ pc = "busy" /\ busy /\ now <= deadline

Tick ==
    /\ Looping
    /\ now' = (now + 1) % TmrMod
    /\ waited' = IF waited <= TmrMod THEN waited + 1 ELSE waited
    /\ UNCHANGED <<host, regs, pc, call, deadline, wrapped, lines, intr, engine,
                   owner>>

(***************************************************************************)
(* The controller and the card (external).  A status bit is latched only   *)
(* while its interrupt is enabled.                                         *)
(***************************************************************************)
Latch(bits) == norintsts' = IF enabled THEN norintsts \cup bits ELSE norintsts

CardResponds ==
    /\ cmdline = "command"
    /\ cmdline' = "free"
    /\ Latch({"RESPONSE"})
    /\ owner' = TRUE
    /\ dma' = IF IsData THEN "run" ELSE dma
    /\ busy' = (busy \/ cmd.kind \in {"busy", "stop"})
    /\ UNCHANGED <<host, regs, pc, call, now, timer, datline, enabled, errsts,
                   admaaddr, blkcnt, moved>>

(* An error may come with the response or instead of it. *)
CommandError ==
    /\ cmdline = "command" /\ enabled
    /\ errsts' \in Errors \ {"none"}
    /\ \E r \in {{}, {"RESPONSE"}} : Latch(r \cup {"ERROR"})
    /\ UNCHANGED <<host, regs, pc, call, now, timer, lines, enabled, engine,
                   owner>>

MoveBlock ==
    /\ dma = "run" /\ blkcnt > 0
    /\ moved' = moved \cup {admaaddr}
    /\ admaaddr' = admaaddr + 1
    /\ blkcnt' = blkcnt - 1
    /\ LET boundary == (admaaddr + 1) % Boundary = 0
       IN  IF blkcnt = 1
           THEN /\ dma' = "off"
                /\ datline' = FALSE
                /\ busy' \in BOOLEAN
                /\ \E b \in {{}, {"DMA_END"}} :
                       /\ b # {} => boundary
                       /\ Latch(b \cup {"DATA_END"})
           ELSE /\ dma' = IF boundary THEN "paused" ELSE "run"
                /\ Latch(IF boundary THEN {"DMA_END"} ELSE {})
                /\ UNCHANGED <<datline, busy>>
    /\ UNCHANGED <<host, regs, pc, call, now, timer, cmdline, enabled, errsts,
                   owner>>

DataError ==
    /\ dma # "off" /\ enabled
    /\ errsts' = "other"
    /\ Latch({"ERROR"})
    /\ UNCHANGED <<host, regs, pc, call, now, timer, lines, enabled, engine,
                   owner>>

(* The controller reports the end of the busy time of its own command as   *)
(* an end of data.                                                         *)
CardReady ==
    /\ busy
    /\ busy' = FALSE
    /\ datline' = (datline /\ dma # "off")
    /\ Latch(IF cmd.kind \in {"busy", "stop"} /\ owner THEN {"DATA_END"} ELSE {})
    /\ UNCHANGED <<host, regs, pc, call, now, timer, cmdline, enabled, errsts,
                   engine, owner>>

(* A line the controller holds for a reason of its own. *)
LineHeld ==
    /\ pc = "idle"
    /\ \/ cmdline' = "held" /\ UNCHANGED datline
       \/ datline' = TRUE /\ UNCHANGED cmdline
    /\ UNCHANGED <<host, regs, pc, call, now, timer, busy, intr, engine, owner>>

LineReleased ==
    /\ pc \in {"idle", "cmd_inhibit", "dat_inhibit"}
    /\ \/ cmdline = "held" /\ cmdline' = "free" /\ UNCHANGED datline
       \/ datline /\ ~busy /\ datline' = FALSE /\ UNCHANGED cmdline
    /\ UNCHANGED <<host, regs, pc, call, now, timer, busy, intr, engine, owner>>

(***************************************************************************)
(* The callers in sdmmc.c.                                                 *)
(***************************************************************************)
IdleRest == <<pc, call, now, timer, lines, intr, engine, owner>>

SetPowersave ==
    /\ pc = "idle"
    /\ \E on \in BOOLEAN :
           /\ host' = Powersave(host, on)
           /\ regs' = PowersaveRegs(host, regs, on)
    /\ UNCHANGED IdleRest

StartClock ==
    /\ pc = "idle" /\ ~host.card_clock_enabled
    /\ host' = ClockEnable(host)
    /\ regs' = ClockEnableRegs(host, regs)
    /\ UNCHANGED IdleRest

StopClock ==
    /\ pc = "idle" /\ host.card_clock_enabled
    /\ host' = ClockDisable(host)
    /\ regs' = ClockDisableRegs(regs)
    /\ UNCHANGED IdleRest

Init ==
    /\ host = ClearedHost /\ regs = ResetRegs
    /\ pc = "idle" /\ cmd = NoData /\ restore = FALSE /\ result = FALSE
    /\ dma_addr_next = 0 /\ seen_blkcnt = 0
    /\ now \in 0 .. (TmrMod - 1) /\ deadline = 0
    /\ cmdline = "free" /\ datline = FALSE /\ busy = FALSE
    /\ norintsts = {} /\ enabled = FALSE /\ errsts = "none"
    /\ admaaddr = 0 /\ blkcnt = 0 /\ dma = "off"
    /\ waited = 0 /\ wrapped = FALSE /\ owner = FALSE /\ moved = {}

Call == \E c \in Requests \cup {StopTransmission} : Begin(c)

Driver ==
    \/ CmdLineFree \/ DatLineFree \/ InhibitTimeout \/ RefuseRequest
    \/ SendCmd \/ ErrorSeen \/ ResponseSeen \/ ResponseTimeout
    \/ DataEnd \/ DmaEnd \/ DmaProgress \/ DmaTimeout
    \/ CardFree \/ BusyTimeout

Hardware ==
    \/ CardResponds \/ CommandError \/ MoveBlock \/ DataError \/ CardReady
    \/ LineHeld \/ LineReleased

Next == Call \/ Driver \/ Tick \/ Hardware \/ SetPowersave \/ StartClock
        \/ StopClock

(* The driver's loop runs and the timer ticks; the card owes nothing. *)
Spec == Init /\ [][Next]_vars /\ WF_vars(Driver) /\ WF_vars(Tick)

(***************************************************************************)
(* Properties.                                                             *)
(***************************************************************************)
PollLoops == {"cmd_inhibit", "dat_inhibit", "response", "busy"}
Bits == {"ERROR", "RESPONSE", "DATA_END", "DMA_END"}

TypeOK ==
    /\ host \in HostRecords /\ regs \in RegRecords
    /\ pc \in PollLoops \cup {"idle", "send", "dma"}
    /\ cmd \in Requests \cup {StopTransmission}
    /\ restore \in BOOLEAN /\ result \in BOOLEAN
    /\ dma_addr_next \in Nat /\ seen_blkcnt \in 0 .. MaxBlocks
    /\ now \in 0 .. (TmrMod - 1) /\ deadline \in 0 .. (TmrMod - 1)
    /\ cmdline \in {"free", "command", "held"} /\ datline \in BOOLEAN /\ busy \in BOOLEAN
    /\ norintsts \subseteq Bits /\ enabled \in BOOLEAN /\ errsts \in Errors
    /\ admaaddr \in Nat /\ blkcnt \in 0 .. MaxBlocks
    /\ dma \in {"off", "run", "paused"}
    /\ waited \in Nat /\ wrapped \in BOOLEAN /\ owner \in BOOLEAN
    /\ moved \subseteq Nat

(* No wait outlasts its bound.  The exception is a deadline on the very    *)
(* last value of the u32 timer, which nothing is greater than.             *)
WaitIsBounded ==
    /\ pc \in PollLoops => waited <= WaitBound + 1 \/ deadline = TmrMod - 1
    /\ pc = "dma" => waited <= DmaBound

(* Types, with the bounds of the waits. *)
InBounds == TypeOK /\ WaitIsBounded

(* A response the driver accepts was given to the command it just sent:    *)
(* nothing an earlier command, its timeout or its error left behind is     *)
(* taken for an answer.                                                    *)
ResponseIsOurs ==
    /\ pc = "response" /\ norintsts \cap {"ERROR", "RESPONSE"} = {"RESPONSE"}
           => owner
    /\ pc \in {"dma", "busy"} => owner

(* A data command that reports success moved every block of its request,   *)
(* to its own buffer and nowhere else, whatever boundaries lay inside and  *)
(* whichever bits were set together.                                       *)
DmaExact ==
    /\ IsData /\ pc \in {"response", "dma", "busy"} =>
           moved \subseteq cmd.buf .. (cmd.buf + BlockCount - 1)
    /\ IsData /\ pc = "busy" => moved = cmd.buf .. (cmd.buf + BlockCount - 1)

(* Between two calls the controller is quiet: no transfer still writes     *)
(* into a buffer its owner has back, no interrupt is enabled, and the card *)
(* clock runs exactly if power saving lets it.                             *)
QuietBetween ==
    pc = "idle" => /\ dma = "off" /\ ~enabled
                   /\ regs.card_en = ClockWanted

(* No byte of a caller's memory is written but for its request, and none   *)
(* after the call.                                                         *)
DataSafe == DmaExact /\ QuietBetween

(* A wait is given up only when its bound has passed, except when the      *)
(* deadline wrapped around the timer.                                      *)
GivesUp == pc \in PollLoops \cup {"dma"} /\ pc' = "idle" /\ ~result'
           /\ "ERROR" \notin norintsts
TimeoutsHonest ==
    [][GivesUp => \/ waited > (IF pc = "dma" THEN DmaBound - 1 ELSE WaitBound)
                  \/ wrapped]_vars

(* Every call returns, whatever the card does, unless it waits on the one  *)
(* deadline that never passes.                                             *)
CallsReturn ==
    pc # "idle" ~> pc = "idle" \/ (pc \in PollLoops /\ deadline = TmrMod - 1)
=============================================================================
