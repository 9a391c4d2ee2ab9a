------------------------------ MODULE SdStorage ------------------------------
(***************************************************************************)
(* The SD storage stack: sd.c (mode ladder, mount, end) and the transfer,  *)
(* retry, re-initialization and shutdown code of sdmmc.c, with the parts   *)
(* of sdmmc_driver.c they rest on (sdmmc_init, sdmmc_end, card detect).    *)
(*                                                                         *)
(* The program is one thread; the user may pull and insert a card between  *)
(* any two of its steps.  A call is a small control stack: `op` is the API *)
(* call of main.c in progress, `caller` is who waits for an initialization *)
(* and pc is the next step.                                                *)
(*                                                                         *)
(* Code                                     Model                          *)
(* sd_mode, sd_init_done, sd_mounted,       same names                     *)
(*   insertion_event                                                       *)
(* sd_storage.initialized, .sec_cnt         initialized, sec_cnt           *)
(* sd_sdmmc.clock_stopped,                  clock_stopped,                 *)
(*   .card_clock_enabled                      card_clock_enabled           *)
(* power_cycle of sd_initialize and         power_cycle                    *)
(*   sd_init_retry                                                         *)
(* sector, num_sectors; sct_off, sct_total, req; sct_off, sct_total,       *)
(*   bbuf (in blocks), retries,               bbuf, retries, first_reinit  *)
(*   first_reinit                                                          *)
(* external: card detect, capacity of the   inserted, card_cnt,            *)
(*   card in the slot, its supply, how far    power,                       *)
(*   its identification went                  card                         *)
(*                                                                         *)
(* History: fresh (the blocks of the caller's buffer that hold the sector  *)
(* asked for, read since the last re-initialization), up0/cnt0 (the handle *)
(* when the call began), last (the read that returned last).               *)
(*                                                                         *)
(* Left out: the sd_errors counters, which nothing in this payload reads;  *)
(* the bounce buffer of sdmmc_storage_read (test buffers are aligned heap  *)
(* blocks); the eMMC branch of _sdmmc_storage_handle_io_error.             *)
(***************************************************************************)
EXTENDS Integers, FiniteSets, CardAPI

CONSTANTS
    Counts,      \* capacities of the cards the user may insert
    Requests,    \* <<sector, count>> pairs read by main.c's tests
    MaxBlocks,   \* 0xFFFF: most blocks of one command
    RETRIES,     \* 5: attempts before a re-initialization
    RETRIES_RE   \* 3: attempts left after it

ASSUME StorageAssumption ==
    /\ Counts \subseteq Nat \ {0}
    /\ Requests \subseteq Nat \X (Nat \ {0})
    /\ MaxBlocks \in Nat \ {0}
    /\ RETRIES \in Nat \ {0}
    /\ RETRIES_RE \in Nat \ {0}

SD_INIT_FAIL  == 0
SD_UHS_SDR104 == 4
SD_DEFAULT_SPEED == SD_UHS_SDR104

VARIABLES sd_mode, sd_init_done, sd_mounted, insertion_event,
          sec_cnt, card_cnt,
          pc, op, caller, power_cycle, res,
          req, sct_off, sct_total, bbuf, retries, first_reinit,
          fresh, up0, cnt0, last

sdVars   == <<sd_mode, sd_init_done, sd_mounted, insertion_event>>
handle   == <<initialized, sec_cnt>>
slot     == <<inserted, card_cnt>>
hwVars   == <<slot, power, card>>
xferVars == <<req, sct_off, sct_total, bbuf, retries, first_reinit, fresh>>
history  == <<up0, cnt0, last>>
control  == <<pc, op, caller, power_cycle, res>>
vars == <<sdVars, handle, host, hwVars, control, xferVars, history>>

Smaller(a, b) == IF a < b THEN a ELSE b

(***************************************************************************)
(* The user.                                                               *)
(***************************************************************************)
Remove ==
    /\ CardRemoved
    /\ UNCHANGED <<sdVars, sec_cnt, card_cnt, control, xferVars, history>>

Insert ==
    /\ CardInserted
    /\ card_cnt' \in Counts
    /\ UNCHANGED <<sdVars, sec_cnt, control, xferVars, history>>

(***************************************************************************)
(* sd_init_retry, and sdmmc_storage_init_sd in four steps that each may    *)
(* fail: the host, the identification, the capacity, the bus.              *)
(***************************************************************************)
InitReturn(r) ==
    /\ res' = r
    /\ pc' = "init_done"
    /\ sd_init_done' = r
    /\ insertion_event' = (insertion_event \/ r)

NextMode_Same == sd_mode     \* seeded: the ladder does not descend

NextMode == sd_mode - 1

InitRetry ==
    /\ pc = "init_retry"
    /\ IF power_cycle
       THEN sd_mode' = NextMode /\ StorageEnd
       ELSE UNCHANGED <<sd_mode, host, power, card, initialized>>
    /\ IF sd_mode' = SD_INIT_FAIL
       THEN pc' = "init_done" /\ res' = FALSE
       ELSE pc' = "init_host" /\ UNCHANGED res
    /\ UNCHANGED <<sd_init_done, sd_mounted, insertion_event, sec_cnt, slot,
                   op, caller, power_cycle, xferVars, history>>

(* New data read from here on belongs to a new session. *)
InitHost ==
    /\ pc = "init_host"
    /\ sec_cnt' = 0
    /\ fresh' = {}
    /\ \/ /\ HostAbsent \/ HostStarts(FALSE)
          /\ InitReturn(FALSE)
       \/ /\ HostStarts(TRUE)
          /\ pc' = "init_ident"
          /\ UNCHANGED <<res, sd_init_done, insertion_event>>
    /\ UNCHANGED <<sd_mode, sd_mounted, card_cnt, op, caller, power_cycle, req,
                   sct_off, sct_total, bbuf, retries, first_reinit, history>>

InitFails ==
    /\ pc \in {"init_ident", "init_csd", "init_bus"}
    /\ InitGivenUp
    /\ InitReturn(FALSE)
    /\ UNCHANGED <<sd_mode, sd_mounted, sec_cnt, card_cnt, op, caller,
                   power_cycle, xferVars, history>>

InitIdent ==
    /\ pc = "init_ident"
    /\ CardIdentified
    /\ pc' = "init_csd"
    /\ UNCHANGED <<sdVars, sec_cnt, card_cnt, op, caller, power_cycle, res,
                   xferVars, history>>

InitCsd ==
    /\ pc = "init_csd"
    /\ inserted /\ card = "ident"
    /\ sec_cnt' = card_cnt
    /\ pc' = "init_bus"
    /\ UNCHANGED <<sdVars, initialized, host, hwVars, op, caller, power_cycle,
                   res, xferVars, history>>

InitBus ==
    /\ pc = "init_bus"
    /\ CardReady
    /\ InitReturn(TRUE)
    /\ UNCHANGED <<sd_mode, sd_mounted, sec_cnt, card_cnt, op, caller,
                   power_cycle, xferVars, history>>

(***************************************************************************)
(* sd_initialize: down the ladder of modes until one works, the card is    *)
(* gone or no mode is left.                                                *)
(***************************************************************************)
Initialize ==
    /\ pc = "initialize"
    /\ IF power_cycle THEN StorageEnd
                      ELSE UNCHANGED <<host, power, card, initialized>>
    /\ power_cycle' = FALSE
    /\ pc' = "init_retry"
    /\ UNCHANGED <<sdVars, sec_cnt, slot, op, caller, res, xferVars, history>>

InInitialize == caller \in {"mount", "io_first"}

InitializeOk ==
    /\ pc = "init_done" /\ InInitialize /\ res
    /\ pc' = "initialized"
    /\ UNCHANGED <<sdVars, handle, host, hwVars, op, caller, power_cycle, res,
                   xferVars, history>>

(* Seeded: the end of the ladder is not looked at. *)
InitializeLower_NoEnd ==
    /\ pc = "init_done" /\ InInitialize /\ ~res
    /\ inserted
    /\ power_cycle' = TRUE
    /\ pc' = "init_retry"
    /\ UNCHANGED <<sdVars, handle, host, hwVars, op, caller, res, xferVars,
                   history>>

InitializeLower ==
    /\ pc = "init_done" /\ InInitialize /\ ~res
    /\ inserted /\ sd_mode # SD_INIT_FAIL
    /\ power_cycle' = TRUE
    /\ pc' = "init_retry"
    /\ UNCHANGED <<sdVars, handle, host, hwVars, op, caller, res, xferVars,
                   history>>

InitializeGiveUp ==
    /\ pc = "init_done" /\ InInitialize /\ ~res
    /\ \/ ~inserted /\ sd_mode' = SD_DEFAULT_SPEED
       \/ inserted /\ sd_mode = SD_INIT_FAIL /\ UNCHANGED sd_mode
    /\ StorageEnd
    /\ pc' = "initialized"
    /\ UNCHANGED <<sd_init_done, sd_mounted, insertion_event, sec_cnt, slot,
                   op, caller, power_cycle, res, xferVars, history>>

(***************************************************************************)
(* _sdmmc_storage_readwrite.  A call returns to main.c, or to f_mount.     *)
(***************************************************************************)
Return(r, ok) ==
    /\ res' = ok
    /\ IF op = "mount"
       THEN pc' = "f_mount" /\ UNCHANGED <<op, last>>
       ELSE pc' = "idle" /\ op' = "none" /\ last' = [request |-> r, ok |-> ok]

(* The checks before the transfer: not initialized, out of bounds. *)
Refused_BoundsOnly(r) == r[1] + r[2] > sec_cnt   \* seeded

Refused(r) == ~initialized \/ r[1] + r[2] > sec_cnt

ReadBegin(r) ==
    /\ pc = "rw_begin"
    /\ req' = r
    /\ sct_off' = r[1] /\ sct_total' = r[2] /\ bbuf' = 0
    /\ first_reinit' = TRUE
    /\ retries' = RETRIES
    /\ fresh' = {}
    /\ up0' = initialized /\ cnt0' = sec_cnt
    /\ IF Refused(r) THEN Return(r, FALSE)
                     ELSE pc' = "rw" /\ UNCHANGED <<res, op, last>>
    /\ UNCHANGED <<sdVars, handle, host, hwVars, caller, power_cycle>>

Responds == inserted /\ card = "tran" /\ card_clock_enabled

(* The command of one attempt and the blocks it fills. *)
Chunk == Smaller(sct_total, MaxBlocks)

Filled == {bbuf + k : k \in 0 .. (Chunk - 1)}

(* Buffer block b is to hold sector req[1] + b. *)
FilledRight == {b \in Filled : req[1] + b = sct_off + (b - bbuf)}

TryOk ==
    /\ pc = "rw"
    /\ Responds /\ sct_off + Chunk <= card_cnt
    /\ fresh' = (fresh \ Filled) \cup FilledRight
    /\ sct_off' = sct_off + Chunk
    /\ sct_total' = sct_total - Chunk
    /\ bbuf' = bbuf + Chunk
    /\ retries' = RETRIES
    /\ IF sct_total' = 0 THEN Return(req, TRUE) ELSE UNCHANGED <<pc, op, res, last>>
    /\ UNCHANGED <<sdVars, handle, host, hwVars, caller, power_cycle, req,
                   first_reinit, up0, cnt0>>

TryFails ==
    /\ pc = "rw"
    /\ retries' = retries - 1
    /\ pc' = IF retries' = 0 THEN "io_error" ELSE "rw"
    /\ UNCHANGED <<sdVars, handle, host, hwVars, op, caller, power_cycle, res,
                   req, sct_off, sct_total, bbuf, first_reinit, fresh, history>>

(* _sdmmc_storage_handle_io_error *)
HandleIoError ==
    /\ pc = "io_error"
    /\ power_cycle' = TRUE
    /\ IF first_reinit
       THEN caller' = "io_first" /\ pc' = "initialize"
       ELSE caller' = "io_next" /\ pc' = "init_retry"
    /\ UNCHANGED <<sdVars, handle, host, hwVars, op, res, xferVars, history>>

ReinitReturned ==
    \/ pc = "init_done" /\ caller = "io_next"
    \/ pc = "initialized" /\ caller = "io_first"

(* Seeded: the buffer pointer is not taken back. *)
RestartTransfer_NoBuffer ==
    sct_off' = req[1] /\ sct_total' = req[2] /\ UNCHANGED bbuf

(* The whole transfer starts over. *)
RestartTransfer ==
    sct_off' = req[1] /\ sct_total' = req[2] /\ bbuf' = 0

Reinit ==
    /\ ReinitReturned /\ res
    /\ retries' = RETRIES_RE
    /\ first_reinit' = FALSE
    /\ RestartTransfer
    /\ pc' = "rw"
    /\ UNCHANGED <<sdVars, handle, host, hwVars, op, caller, power_cycle, res,
                   req, fresh, history>>

ReadFails ==
    /\ ReinitReturned /\ ~res
    /\ Return(req, FALSE)
    /\ UNCHANGED <<sdVars, handle, host, hwVars, caller, power_cycle, xferVars,
                   up0, cnt0>>

(***************************************************************************)
(* The calls main.c makes: sd_mount once, the reads of its tests while     *)
(* mounted, sd_end before the reboot.                                      *)
(***************************************************************************)
sd_mount ==
    /\ pc = "boot"
    /\ op' = "mount"
    /\ caller' = "mount"
    /\ power_cycle' = FALSE
    /\ pc' = "initialize"
    /\ UNCHANGED <<sdVars, handle, host, hwVars, res, xferVars, history>>

MountInitialized ==
    /\ pc = "initialized" /\ caller = "mount"
    /\ IF res THEN pc' = "rw_begin" /\ UNCHANGED op
              ELSE pc' = "idle" /\ op' = "none"
    /\ UNCHANGED <<sdVars, handle, host, hwVars, caller, power_cycle, res,
                   xferVars, history>>

(* f_mount: it has read sector 0 (more reads take the same way) and finds  *)
(* a FAT volume or does not.                                               *)
f_mount ==
    /\ pc = "f_mount"
    /\ sd_mounted' \in (IF res THEN BOOLEAN ELSE {FALSE})
    /\ pc' = "idle" /\ op' = "none"
    /\ UNCHANGED <<sd_mode, sd_init_done, insertion_event, handle, host, hwVars,
                   caller, power_cycle, res, xferVars, history>>

sdmmc_storage_read ==
    /\ pc = "idle" /\ sd_mounted
    /\ op' = "read"
    /\ pc' = "rw_begin"
    /\ UNCHANGED <<sdVars, handle, host, hwVars, caller, power_cycle, res,
                   xferVars, history>>

(* _sd_deinit(true); the second sd_end of power_set_state finds nothing    *)
(* left to do, and the console reboots.                                    *)
sd_end ==
    /\ pc = "idle"
    /\ insertion_event' = FALSE
    /\ sd_mode' = IF sd_mode = SD_INIT_FAIL THEN SD_DEFAULT_SPEED ELSE sd_mode
    /\ IF sd_init_done THEN StorageEnd
                       ELSE UNCHANGED <<host, power, card, initialized>>
    /\ sd_init_done' = FALSE
    /\ sd_mounted' = FALSE
    /\ pc' = "ended"
    /\ UNCHANGED <<sec_cnt, slot, op, caller, power_cycle, res, xferVars,
                   history>>

(***************************************************************************)
(* Specification.                                                          *)
(***************************************************************************)
Init ==
    /\ sd_mode = SD_DEFAULT_SPEED
    /\ sd_init_done = FALSE /\ sd_mounted = FALSE /\ insertion_event = FALSE
    /\ initialized = FALSE /\ sec_cnt = 0
    /\ clock_stopped = FALSE /\ card_clock_enabled = FALSE
    /\ inserted \in BOOLEAN /\ card_cnt \in Counts
    /\ power = FALSE /\ card = "raw"
    /\ pc = "boot" /\ op = "none" /\ caller = "mount"
    /\ power_cycle = FALSE /\ res = FALSE
    /\ req = <<0, 0>> /\ sct_off = 0 /\ sct_total = 0 /\ bbuf = 0
    /\ retries = 0 /\ first_reinit = TRUE /\ fresh = {}
    /\ up0 = FALSE /\ cnt0 = 0
    /\ last = [request |-> <<0, 0>>, ok |-> FALSE]

Init_sd == InitRetry \/ InitHost \/ InitFails \/ InitIdent \/ InitCsd \/ InitBus
Ladder  == Initialize \/ InitializeOk \/ InitializeLower \/ InitializeGiveUp
Transfer ==
    \/ \E r \in Requests : op = "read" /\ ReadBegin(r)
    \/ op = "mount" /\ ReadBegin(<<0, 1>>)
    \/ TryOk \/ TryFails \/ HandleIoError \/ Reinit \/ ReadFails
Mounting == MountInitialized \/ f_mount

(* A call in progress runs to its end without waiting for the user. *)
Running == Init_sd \/ Ladder \/ Transfer \/ Mounting

User == Remove \/ Insert \/ sd_mount \/ sdmmc_storage_read \/ sd_end

Next == Running \/ User

Spec == Init /\ [][Next]_vars /\ WF_vars(Running)

(***************************************************************************)
(* Properties.                                                             *)
(***************************************************************************)
Modes == SD_INIT_FAIL .. SD_UHS_SDR104

(* The flags of the code and of the hardware. *)
Flags ==
    /\ sd_init_done \in BOOLEAN /\ sd_mounted \in BOOLEAN /\ insertion_event \in BOOLEAN
    /\ initialized \in BOOLEAN /\ clock_stopped \in BOOLEAN
    /\ card_clock_enabled \in BOOLEAN /\ inserted \in BOOLEAN /\ power \in BOOLEAN
    /\ power_cycle \in BOOLEAN /\ res \in BOOLEAN /\ first_reinit \in BOOLEAN
    /\ up0 \in BOOLEAN

(* Types.  sd_mode, a u32 that sd_init_retry decrements, never leaves the  *)
(* ladder: nobody power-cycles from its lowest rung.                       *)
TypeOK ==
    /\ sd_mode \in Modes
    /\ Flags
    /\ sec_cnt \in Counts \cup {0} /\ cnt0 \in Counts \cup {0}
    /\ card_cnt \in Counts
    /\ card \in {"raw", "ident", "tran"}
    /\ pc \in {"boot", "initialize", "init_retry", "init_host", "init_ident",
               "init_csd", "init_bus", "init_done", "initialized", "rw_begin",
               "rw", "io_error", "f_mount", "idle", "ended"}
    /\ op \in {"none", "mount", "read"}
    /\ caller \in {"mount", "io_first", "io_next"}
    /\ req \in Nat \X Nat /\ sct_off \in Nat /\ sct_total \in Nat
    /\ bbuf \in Nat /\ retries \in Nat
    /\ fresh \subseteq Nat
    /\ last \in [request : Nat \X Nat, ok : BOOLEAN]

(* While a transfer runs, offset, remainder and buffer pointer describe    *)
(* one split of the request, before which the buffer is filled: through    *)
(* retries, chunks and re-initializations in any order.                    *)
TransferConsistent ==
    pc \in {"rw", "io_error"} =>
        /\ sct_total > 0
        /\ sct_off = req[1] + bbuf
        /\ bbuf + sct_total = req[2]
        /\ 0 .. (bbuf - 1) \subseteq fresh
        /\ retries > 0 \/ pc = "io_error"

(* A read that returns 1 has filled every block of the caller's buffer     *)
(* with its sector, all of them in one session with one card.              *)
ReadWhole ==
    pc = "idle" /\ last.ok => 0 .. (last.request[2] - 1) \subseteq fresh

(* A handle marked initialized is backed by a running host and a powered   *)
(* slot, and will be shut down by sd_end: whatever failed or was pulled on *)
(* the way.                                                                *)
HandleBacked ==
    /\ initialized => /\ card_clock_enabled /\ ~clock_stopped /\ power
                      /\ sec_cnt # 0
    /\ card_clock_enabled => power
    /\ initialized /\ pc # "ended" => sd_init_done

(* The sessions with the card are sound: what is called initialized is     *)
(* there, and what is called read was read.                                *)
SessionSound == TransferConsistent /\ ReadWhole /\ HandleBacked

(* Every call of main.c returns: the retries, the ladder and the restarts  *)
(* of a transfer end, on a card that fails at any point or is swapped      *)
(* again and again.                                                        *)
CallsReturn == op # "none" ~> op = "none"

(* What the callers know of the handle: while a read is in progress, what  *)
(* it was when the read began, until it returns.                           *)
upSeen ==
    IF pc = "boot" \/ op = "mount" THEN FALSE
    ELSE IF op = "read" /\ pc # "rw_begin" THEN up0 ELSE initialized
cntSeen ==
    IF pc = "boot" \/ op = "mount" THEN 0
    ELSE IF op = "read" /\ pc # "rw_begin" THEN cnt0 ELSE sec_cnt
phase ==
    IF pc = "boot" \/ op = "mount" THEN "boot"
    ELSE IF pc = "ended" THEN "ended"
    ELSE IF sd_mounted THEN "mounted" ELSE "unmounted"

API == INSTANCE StorageSpec WITH up <- upSeen, cnt <- cntSeen

(* The stack implements StorageSpec: seen from its callers each call is    *)
(* one step, taken when it returns.                                        *)
ImplementsStorageSpec == API!AbstractSpec
=============================================================================
